--------------------------- MODULE CallFramesProofs ---------------------------
(***************************************************************************)
(* Theorems of CallFrames, for every set of functions and arguments and    *)
(* every depth of the stack: the prologues and the instructions after them *)
(* leave in the registers of the parameters what Ruby binds to them, cfp   *)
(* is the running frame when it is used, and a block finds the frame it    *)
(* was written in.                                                         *)
(***************************************************************************)
EXTENDS CallFrames, FiniteSetTheorems, WellFoundedInduction, SequenceTheorems, TLAPS

-----------------------------------------------------------------------------
(* Arguments.                                                               *)

(* A non-empty set of natural numbers has a least element. *)
LEMMA Least == ASSUME NEW S \in SUBSET Nat, S # {} PROVE \E m \in S : \A k \in S : m <= k
<1> DEFINE R == {ss \in Nat \X Nat : ss[1] < ss[2]}
<1>1. IsWellFoundedOn(R, Nat) BY NatLessThanWellFounded DEF OpToRel
<1>2. \A a, b \in Nat : <<a, b>> \notin R => b <= a OBVIOUS
<1> HIDE DEF R
<1>3. PICK m \in S : \A k \in S : ~(<<k, m>> \in R) BY <1>1, WFMin
<1> QED BY <1>2, <1>3

LEMMA UpTo ==
    ASSUME NEW n \in Nat
    PROVE  IsFiniteSet(1..n) /\ Cardinality(1..n) = n
BY ONLY FS_Interval, n \in Nat, SMT

(* A set that has all numbers below each of its members starts at 1. *)
LEMMA Initial ==
    ASSUME NEW n \in Nat, NEW S \in SUBSET (1..n), \A i, j \in 1..n : i < j /\ j \in S => i \in S
    PROVE  \E k \in 0..n : S = 1..k /\ Cardinality(S) = k
<1> DEFINE T == {k \in Nat : k + 1 \notin S}
<1>1. n \in T /\ T \in SUBSET Nat OBVIOUS
<1>2. PICK k \in T : \A j \in T : k <= j BY <1>1, Least
<1>3. k <= n BY <1>1, <1>2
<1>4. \A i \in 1..k : i \in S
  <2> SUFFICES ASSUME NEW i \in 1..k PROVE i \in S OBVIOUS
  <2>1. i - 1 \in Nat /\ i - 1 < k /\ i - 1 \notin T BY <1>2
  <2> QED BY <2>1
<1>5. \A i \in S : i <= k
  <2> SUFFICES ASSUME NEW i \in S, i > k PROVE FALSE BY <1>2
  <2>1. k + 1 \notin S /\ k + 1 \in 1..n BY <1>2
  <2>2. i = k + 1 \/ k + 1 < i BY <1>2
  <2> QED BY <2>1, <2>2
<1>6. S = 1..k
  <2>1. \A i : i \in S => i \in 1..k BY <1>2, <1>5
  <2> QED BY <1>4, <2>1
<1>7. k \in Nat /\ Cardinality(1..k) = k BY <1>2, UpTo
<1> QED BY <1>3, <1>6, <1>7
-----------------------------------------------------------------------------
(* The layout that handle_args computes.                                    *)

Kind(f, i) == f.params[i].kind

LEMMA Kinds ==
    ASSUME NEW f, WellFormed(f)
    PROVE  /\ Len(f.params) \in Nat /\ DOMAIN f.params = 1..Len(f.params)
           /\ \A i \in 1..Len(f.params) :
                 /\ Kind(f, i) \in {"req", "opt", "rest", "destruct"}
                 /\ f.params[i].len \in Nat
                 /\ f.params[i].len # 0 <=> Kind(f, i) = "destruct"
           /\ \A i, j \in 1..Len(f.params) : i < j =>
                 /\ Kind(f, i) # "rest"
                 /\ Kind(f, i) = "opt" => Kind(f, j) \in {"opt", "rest"}
<1> DEFINE P == {Req, Opt, Rest} \cup [kind : {"destruct"}, len : Nat \ {0}]
<1>1. f.params \in Seq(P) BY DEF WellFormed
<1>2. \A x \in P : /\ x.kind \in {"req", "opt", "rest", "destruct"} /\ x.len \in Nat
                   /\ x.len # 0 <=> x.kind = "destruct"
  BY DEF Req, Opt, Rest
<1> HIDE DEF P
<1>3. /\ Len(f.params) \in Nat /\ DOMAIN f.params = 1..Len(f.params)
      /\ \A i \in 1..Len(f.params) : f.params[i] \in P
  BY <1>1
<1> QED BY <1>2, <1>3 DEF Kind, WellFormed

(* Required parameters come first, then optional ones, then one for the     *)
(* rest.                                                                    *)
LEMMA Layout ==
    ASSUME NEW f, WellFormed(f)
    PROVE  /\ ArgNum(f) \in Nat /\ DOMAIN f.params = 1..ArgNum(f)
           /\ PosNum(f) \in Nat /\ ReqNum(f) \in Nat /\ ReqNum(f) <= PosNum(f)
           /\ PosNum(f) = IF HasRest(f) THEN ArgNum(f) - 1 ELSE ArgNum(f)
           /\ \A i \in 1..ArgNum(f) :
                 /\ Kind(f, i) \in {"req", "destruct"} <=> i <= ReqNum(f)
                 /\ Kind(f, i) = "rest" <=> HasRest(f) /\ i = ArgNum(f)
                 /\ Kind(f, i) = "opt" <=> ReqNum(f) < i /\ i <= PosNum(f)
<1> DEFINE n == Len(f.params)
           R == {i \in DOMAIN f.params : f.params[i].kind \in {"req", "destruct"}}
           E == {i \in DOMAIN f.params : f.params[i].kind \in {"rest"}}
<1>1. /\ n \in Nat /\ DOMAIN f.params = 1..n /\ ArgNum(f) = n
      /\ \A i \in 1..n : Kind(f, i) \in {"req", "opt", "rest", "destruct"}
      /\ \A i, j \in 1..n : i < j => /\ Kind(f, i) # "rest"
                                     /\ Kind(f, i) = "opt" => Kind(f, j) \in {"opt", "rest"}
  BY Kinds DEF ArgNum
<1>2. /\ \A i : i \in R <=> i \in 1..n /\ Kind(f, i) \in {"req", "destruct"}
      /\ \A i : i \in E <=> i \in 1..n /\ Kind(f, i) = "rest"
      /\ ReqNum(f) = Cardinality(R) /\ PosNum(f) = n - Cardinality(E)
  BY <1>1 DEF Kind, ReqNum, PosNum, Count
<1> HIDE DEF R, E
<1>3. R \in SUBSET (1..n) /\ \A i, j \in 1..n : i < j /\ j \in R => i \in R BY <1>1, <1>2
<1>4. PICK k \in 0..n : R = 1..k /\ Cardinality(R) = k BY <1>1, <1>3, Initial
<1>5. E = {} \/ (n > 0 /\ E = {n})
  <2> SUFFICES ASSUME NEW i \in E PROVE n > 0 /\ E = {n} OBVIOUS
  <2>1. \A j \in E : j = n
    <3> SUFFICES ASSUME NEW j \in E, j # n PROVE FALSE OBVIOUS
    <3>1. j \in 1..n /\ n \in 1..n /\ j < n BY <1>1, <1>2
    <3> QED BY <1>1, <1>2, <3>1
  <2>2. i = n /\ n > 0 BY <1>1, <1>2, <2>1
  <2> QED BY <2>1, <2>2
<1>6. Cardinality(E) = IF E = {} THEN 0 ELSE 1 BY <1>5, FS_EmptySet, FS_Singleton
<1>7. HasRest(f) <=> E # {}
  <2>1. CASE E = {}
    <3>1. PosNum(f) = n BY <1>1, <1>2, <1>6, <2>1
    <3> QED BY <1>1, <2>1, <3>1 DEF HasRest
  <2>2. CASE E # {}
    <3>1. PosNum(f) = n - 1 BY <1>1, <1>2, <1>6, <2>2
    <3> QED BY <1>1, <2>2, <3>1 DEF HasRest
  <2> QED BY <2>1, <2>2
<1>8. E # {} => k <= n - 1 BY <1>1, <1>2, <1>4, <1>5
<1>9. ReqNum(f) = k /\ PosNum(f) = IF E = {} THEN n ELSE n - 1 BY <1>2, <1>4, <1>6
<1>10. \A i \in 1..n : /\ Kind(f, i) \in {"req", "destruct"} <=> i <= k
                       /\ Kind(f, i) = "rest" <=> E # {} /\ i = n
  BY <1>2, <1>4, <1>5
<1> QED BY <1>1, <1>4, <1>5, <1>7, <1>8, <1>9, <1>10
-----------------------------------------------------------------------------
(* At most one parameter is destructured; its variables follow the          *)
(* parameters, and the block's follows them.                                *)

LEMMA OneExpands ==
    ASSUME NEW f, WellFormed(f), Accepted(f), NEW d \in Expands(f)
    PROVE  Expands(f) = {d}
<1> SUFFICES ASSUME NEW e \in Expands(f), e # d PROVE FALSE OBVIOUS
<1>1. DOMAIN f.params = 1..Len(f.params) /\ Len(f.params) \in Nat BY Kinds
<1>2. Expands(f) \in SUBSET (1..Len(f.params)) BY <1>1 DEF Expands
<1>3. IsFiniteSet(Expands(f)) BY <1>1, <1>2, UpTo, FS_Subset
<1>4. {d, e} \in SUBSET Expands(f) OBVIOUS
<1>5. Cardinality({d}) = 1 /\ IsFiniteSet({d}) BY FS_Singleton
<1>6. e \notin {d} /\ {d} \cup {e} = {d, e} OBVIOUS
<1>7. Cardinality({d} \cup {e}) = 2
  <2>1. Cardinality({d} \cup {e}) = Cardinality({d}) + 1 BY <1>5, <1>6, FS_AddElement
  <2> QED BY <1>5, <2>1
<1>8. Cardinality({d, e}) <= Cardinality(Expands(f)) BY <1>3, <1>4, FS_Subset
<1>9. Cardinality(Expands(f)) \in Nat BY <1>3, FS_CardinalityType
<1> QED BY <1>6, <1>7, <1>8, <1>9 DEF Accepted

LEMMA Pairs ==
    ASSUME NEW d, NEW n \in Nat
    PROVE  Cardinality({d} \X (1..n)) = n
<1> DEFINE g == [k \in 1..n |-> <<d, k>>]
<1>1. g \in Bijection(1..n, {d} \X (1..n))
  <2>1. g \in [1..n -> {d} \X (1..n)] OBVIOUS
  <2>2. \A k, j \in 1..n : g[k] = g[j] => k = j OBVIOUS
  <2>3. \A p \in {d} \X (1..n) : \E k \in 1..n : g[k] = p OBVIOUS
  <2> HIDE DEF g
  <2> QED BY <2>1, <2>2, <2>3 DEF Bijection, Injection, Surjection, IsInjective
<1>2. ExistsBijection(1..n, {d} \X (1..n)) BY <1>1 DEF ExistsBijection
<1> QED BY <1>2, UpTo, FS_Bijection

LEMMA Variables ==
    ASSUME NEW f, WellFormed(f), Accepted(f)
    PROVE  /\ \A d \in Expands(f) :
                 /\ d \in 1..ReqNum(f) /\ f.params[d].len \in Nat \ {0}
                 /\ ExpandDst(f, d) = ArgNum(f) + 1
                 /\ LenBefore(f, ArgNum(f) + 1) = f.params[d].len
           /\ Expands(f) = {} => LenBefore(f, ArgNum(f) + 1) = 0
<1> DEFINE n == Len(f.params)
           Vars(i) == UNION {{j} \X (1..f.params[j].len) : j \in 1..(i - 1)}
<1>1. /\ n \in Nat /\ n = ArgNum(f) /\ DOMAIN f.params = 1..n
      /\ \A i \in 1..n : /\ f.params[i].len \in Nat
                         /\ f.params[i].len # 0 <=> i \in Expands(f)
      /\ \A i \in Expands(f) : i \in 1..n
  BY Kinds DEF ArgNum, Expands, Kind
<1>2. \A i : LenBefore(f, i) = Cardinality(Vars(i)) BY DEF LenBefore
<1>3. \A i \in 1..(n + 1) : (\A j \in 1..(i - 1) : j \notin Expands(f)) => Vars(i) = {}
  <2> SUFFICES ASSUME NEW i \in 1..(n + 1), \A j \in 1..(i - 1) : j \notin Expands(f),
                      NEW p \in Vars(i)
               PROVE  FALSE
    OBVIOUS
  <2>1. PICK j \in 1..(i - 1) : p \in {j} \X (1..f.params[j].len) OBVIOUS
  <2>2. j \in 1..n /\ f.params[j].len = 0 BY <1>1, <2>1
  <2>3. 1..0 = {} OBVIOUS
  <2> QED BY <2>1, <2>2, <2>3
<1>4. \A i \in 1..(n + 1) : (\A j \in 1..(i - 1) : j \notin Expands(f)) => LenBefore(f, i) = 0
  BY <1>2, <1>3, FS_EmptySet
<1>5. ASSUME NEW d \in Expands(f)
      PROVE  /\ d \in 1..ReqNum(f) /\ f.params[d].len \in Nat \ {0}
             /\ ExpandDst(f, d) = ArgNum(f) + 1
             /\ LenBefore(f, ArgNum(f) + 1) = f.params[d].len
  <2>1. d \in 1..n /\ f.params[d].len \in Nat \ {0} BY <1>1
  <2>2. \A j \in 1..n : j \in Expands(f) <=> j = d BY <2>1, OneExpands
  <2>3. d \in 1..ReqNum(f)
    <3>1. Kind(f, d) = "destruct" BY DEF Expands, Kind
    <3> QED BY <1>1, <2>1, <3>1, Layout
  <2>4. LenBefore(f, d) = 0 BY <1>1, <1>4, <2>1, <2>2
  <2>5. Vars(n + 1) = {d} \X (1..f.params[d].len)
    <3>1. \A p : p \in Vars(n + 1) => p \in {d} \X (1..f.params[d].len)
      <4> SUFFICES ASSUME NEW p \in Vars(n + 1) PROVE p \in {d} \X (1..f.params[d].len) OBVIOUS
      <4>1. PICK j \in 1..n : p \in {j} \X (1..f.params[j].len) BY <1>1
      <4>2. CASE j = d BY <4>1, <4>2
      <4>3. CASE j # d
        <5>1. f.params[j].len = 0 /\ 1..0 = {} BY <1>1, <2>2, <4>3
        <5> QED BY <4>1, <5>1
      <4> QED BY <4>2, <4>3
    <3>2. d \in 1..((n + 1) - 1) BY <1>1, <2>1
    <3> QED BY <3>1, <3>2
  <2> HIDE DEF Vars, n
  <2>6. LenBefore(f, n + 1) = f.params[d].len
    <3>1. LenBefore(f, n + 1) = Cardinality({d} \X (1..f.params[d].len)) BY <1>2, <2>5
    <3>2. f.params[d].len \in Nat BY <2>1
    <3> QED BY <3>1, <3>2, Pairs
  <2>7. ExpandDst(f, d) = ArgNum(f) + 1 BY <1>1, <2>4 DEF ExpandDst
  <2> QED BY <1>1, <2>1, <2>3, <2>6, <2>7
<1>6. Expands(f) = {} => LenBefore(f, n + 1) = 0 BY <1>1, <1>4
<1> QED BY <1>1, <1>5, <1>6

(* The registers the layout takes. *)
LEMMA Registers ==
    ASSUME NEW f, WellFormed(f), Accepted(f)
    PROVE  /\ RegNum(f) \in Nat /\ Room(f) \in Int /\ RegNum(f) <= Room(f) + 1
           /\ ArgNum(f) < RegNum(f)
           /\ f.block => /\ BlockSlot(f) \in (ArgNum(f) + 1)..(RegNum(f) - 1)
                         /\ Expands(f) = {} => BlockSlot(f) = ArgNum(f) + 1
           /\ \A d \in Expands(f) :
                 /\ ArgNum(f) + f.params[d].len < RegNum(f)
                 /\ f.block => BlockSlot(f) = ArgNum(f) + f.params[d].len + 1
<1> DEFINE len == LenBefore(f, ArgNum(f) + 1)
           b == IF f.block THEN 1 ELSE 0
<1>1. ArgNum(f) \in Nat /\ f.temps \in Nat /\ f.block \in BOOLEAN BY Layout DEF WellFormed
<1>2. len \in Nat /\ b \in {0, 1} BY <1>1, Variables, OneExpands
<1>3. /\ Expands(f) = {} => len = 0
      /\ \A d \in Expands(f) : len = f.params[d].len
  BY Variables
<1>4. Locals(f) = ArgNum(f) + len + b BY DEF Locals
<1> HIDE DEF len
<1>5. RegNum(f) = 1 + (ArgNum(f) + len + b) + f.temps BY <1>4 DEF RegNum
<1>6. BlockSlot(f) = ArgNum(f) + len + b BY <1>4 DEF BlockSlot
<1>7. RegNum(f) \in Nat BY <1>1, <1>2, <1>5
<1>8. Room(f) \in Int /\ RegNum(f) <= Room(f) + 1 BY <1>7 DEF Room, StackOffset
<1> QED BY <1>1, <1>2, <1>3, <1>5, <1>6, <1>7, <1>8
-----------------------------------------------------------------------------
(* The registers after the prologue.                                        *)

LEMMA SameSlice ==
    ASSUME NEW S, NEW r, NEW t, NEW a \in Int, NEW b \in Int,
           \A i \in a..b : r[i] = t[i] /\ t[i] \in S
    PROVE  SubSeq(r, a, b) = SubSeq(t, a, b)
<1>1. /\ SubSeq(r, a, b) \in Seq(S)
      /\ Len(SubSeq(r, a, b)) = IF a <= b THEN b - a + 1 ELSE 0
      /\ \A i \in 1..(b - a + 1) : SubSeq(r, a, b)[i] = r[a + i - 1]
  BY SubSeqProperties
<1>2. /\ SubSeq(t, a, b) \in Seq(S)
      /\ Len(SubSeq(t, a, b)) = IF a <= b THEN b - a + 1 ELSE 0
      /\ \A i \in 1..(b - a + 1) : SubSeq(t, a, b)[i] = t[a + i - 1]
  BY SubSeqProperties
<1> DEFINE x == SubSeq(r, a, b)
           y == SubSeq(t, a, b)
<1>3. x \in Seq(S) /\ y \in Seq(S) /\ Len(x) = Len(y) BY <1>1, <1>2
<1>4. \A i \in 1..Len(x) : x[i] = y[i]
  <2> SUFFICES ASSUME NEW i \in 1..Len(x) PROVE x[i] = y[i] OBVIOUS
  <2>1. i \in 1..(b - a + 1) BY <1>1
  <2>2. a + i - 1 \in a..b BY <2>1
  <2> QED BY <1>1, <1>2, <2>1, <2>2
<1> HIDE DEF x, y
<1>5. x = y BY <1>3, <1>4
<1> QED BY <1>5 DEF x, y

LEMMA StackIs ==
    ASSUME NEW V, NEW args \in Seq(V), MaxSlot \in Nat
    PROVE  /\ DOMAIN Stack(args) = 1..MaxSlot
           /\ \A s \in 1..MaxSlot : Stack(args)[s] = IF s <= Len(args) THEN args[s] ELSE Stale
<1> DEFINE W == V \cup {Stale}
           below == [i \in 1..MaxSlot |-> Stale]
           all == args \o below
<1>1. args \in Seq(W) /\ Len(args) \in Nat OBVIOUS
<1>2. below \in Seq(W) /\ Len(below) = MaxSlot /\ \A i \in 1..MaxSlot : below[i] = Stale OBVIOUS
<1> HIDE DEF W, below
<1>3. /\ Len(all) = Len(args) + Len(below)
      /\ \A i \in 1..(Len(args) + Len(below)) :
            all[i] = IF i <= Len(args) THEN args[i] ELSE below[i - Len(args)]
  BY <1>1, <1>2, ConcatProperties
<1>4. /\ DOMAIN Stack(args) = 1..MaxSlot
      /\ \A s \in 1..MaxSlot : Stack(args)[s] = AtOrNil(all, s)
  BY DEF Stack, below
<1> HIDE DEF all
<1>5. ASSUME NEW s \in 1..MaxSlot PROVE Stack(args)[s] = IF s <= Len(args) THEN args[s] ELSE Stale
  <2>1. s <= Len(all) /\ s \in 1..(Len(args) + Len(below)) BY <1>1, <1>2, <1>3
  <2>2. Stack(args)[s] = all[s] BY <1>4, <2>1 DEF AtOrNil
  <2>3. s > Len(args) => s - Len(args) \in 1..MaxSlot BY <1>1
  <2> QED BY <1>1, <1>2, <1>3, <2>1, <2>2, <2>3
<1> QED BY <1>4, <1>5

(* make_rest_array replaces one register by an array of some of the others. *)
LEMMA MakeRestIs ==
    ASSUME NEW f, WellFormed(f), Accepted(f), HasRest(f), MaxSlot \in Nat, RegNum(f) <= MaxSlot,
           NEW regs, DOMAIN regs = 1..MaxSlot, NEW passed \in Nat,
           passed <= Room(f), passed <= MaxSlot,
           NEW S, \A s \in 1..passed : regs[s] \in S
    PROVE  /\ DOMAIN MakeRest(f, regs, passed) = 1..MaxSlot
           /\ \A s \in 1..PosNum(f) : MakeRest(f, regs, passed)[s] = regs[s]
           /\ MakeRest(f, regs, passed)[ArgNum(f)] = Array(SubSeq(regs, ArgNum(f), passed))
<1> DEFINE r == CallRust(f, regs)
           n == ArgNum(f)
<1>1. /\ PosNum(f) \in Nat /\ n \in Nat /\ n = PosNum(f) + 1
      /\ Room(f) \in Int /\ n <= Room(f) /\ n <= MaxSlot
  BY Layout, Registers
<1>2. /\ DOMAIN r = 1..MaxSlot
      /\ \A s \in 1..MaxSlot : r[s] = IF s <= Room(f) THEN regs[s] ELSE Stale
  BY DEF CallRust
<1>3. MakeRest(f, regs, passed) = [r EXCEPT ![n] = Array(SubSeq(r, n, passed))]
  BY <1>1 DEF MakeRest
<1> HIDE DEF r, n
<1>4. \A s \in n..passed : r[s] = regs[s] /\ regs[s] \in S BY <1>1, <1>2
<1>5. SubSeq(r, n, passed) = SubSeq(regs, n, passed)
  <2>1. n \in Int /\ passed \in Int BY <1>1
  <2> QED BY ONLY <2>1, <1>4, SameSlice
<1>6. /\ DOMAIN MakeRest(f, regs, passed) = 1..MaxSlot
      /\ MakeRest(f, regs, passed)[n] = Array(SubSeq(r, n, passed))
      /\ \A s \in 1..PosNum(f) : MakeRest(f, regs, passed)[s] = r[s]
  BY <1>1, <1>2, <1>3
<1>7. \A s \in 1..PosNum(f) : r[s] = regs[s] BY <1>1, <1>2
<1> QED BY <1>5, <1>6, <1>7 DEF n

(* What a prologue leaves for the parameters, and above them. *)
Initialized(f, args, regs) ==
    /\ DOMAIN regs = 1..MaxSlot
    /\ \A i \in 1..PosNum(f) :
          regs[i] = IF i <= Len(args) THEN args[i] ELSE IF i <= ReqNum(f) THEN Nil ELSE Unset
    /\ HasRest(f) => regs[ArgNum(f)] = Array(SubSeq(args, ArgNum(f), Len(args)))
    /\ \A s \in (ArgNum(f) + 1)..(RegNum(f) - 1) : regs[s] = Nil

LEMMA TempIs ==
    ASSUME NEW f, WellFormed(f), Accepted(f), MaxSlot \in Nat, RegNum(f) <= MaxSlot,
           NEW args, NEW regs, DOMAIN regs = 1..MaxSlot,
           \A i \in 1..PosNum(f) :
              regs[i] = IF i <= Len(args) THEN args[i] ELSE IF i <= ReqNum(f) THEN Nil ELSE Unset,
           HasRest(f) => regs[ArgNum(f)] = Array(SubSeq(args, ArgNum(f), Len(args)))
    PROVE  Initialized(f, args, FillTemp(f, regs))
<1>1. /\ ArgNum(f) \in Nat /\ PosNum(f) \in Nat /\ PosNum(f) <= ArgNum(f)
      /\ HasRest(f) => ArgNum(f) \in 1..ArgNum(f)
      /\ RegNum(f) \in Nat /\ ArgNum(f) < RegNum(f)
  BY Layout, Registers
<1> DEFINE u == FillTemp(f, regs)
<1>2. /\ DOMAIN u = 1..MaxSlot
      /\ \A s \in 1..MaxSlot : u[s] = IF s \in (ArgNum(f) + 1)..(RegNum(f) - 1) THEN Nil ELSE regs[s]
  BY DEF FillTemp, Fill
<1> HIDE DEF u
<1>3. \A s \in 1..ArgNum(f) : u[s] = regs[s] BY <1>1, <1>2
<1>4. \A s \in (ArgNum(f) + 1)..(RegNum(f) - 1) : u[s] = Nil BY <1>1, <1>2
<1>5. \A i \in 1..PosNum(f) : i \in 1..ArgNum(f) BY <1>1
<1>6. Initialized(f, args, u) BY <1>1, <1>2, <1>3, <1>4, <1>5 DEF Initialized
<1> QED BY <1>6 DEF u

(* The part both prologues share. *)
LEMMA InitFuncIs ==
    ASSUME NEW f, WellFormed(f), Accepted(f), MaxSlot \in Nat, RegNum(f) <= MaxSlot,
           NEW V, NEW args \in Seq(V),
           HasRest(f) => Len(args) <= Room(f) /\ Len(args) <= MaxSlot
    PROVE  Initialized(f, args, InitFunc(f, Stack(args), Len(args)))
<1> DEFINE st == Stack(args)
           m == Len(args)
           q == ReqNum(f)
           p == PosNum(f)
           n == ArgNum(f)
<1>1. /\ n \in Nat /\ p \in Nat /\ q \in Nat /\ m \in Nat /\ q <= p
      /\ p = IF HasRest(f) THEN n - 1 ELSE n
      /\ RegNum(f) \in Nat /\ n < RegNum(f) /\ Room(f) \in Int /\ n <= Room(f)
      /\ \A i \in 1..m : args[i] \in V
  BY Layout, Registers
<1>2. /\ DOMAIN st = 1..MaxSlot
      /\ \A s \in 1..MaxSlot : st[s] = IF s <= m THEN args[s] ELSE Stale
  BY StackIs
<1> HIDE DEF st
<1>3. \A a, b, v : \A regs : DOMAIN regs = 1..MaxSlot =>
        /\ DOMAIN Fill(regs, a, b, v) = 1..MaxSlot
        /\ \A s \in 1..MaxSlot : Fill(regs, a, b, v)[s] = IF s \in a..b THEN v ELSE regs[s]
  BY DEF Fill
<1>4. CASE m <= p
  <2> DEFINE from == (IF m < q THEN q ELSE m) + 1
             r1 == Fill(st, m + 1, q, Nil)
             r2 == Fill(r1, from, p, Unset)
  <2>1. r2 = FillOpt(f, FillReq(f, st, m), m) BY DEF FillOpt, FillReq
  <2>2. from \in Nat /\ from = (IF m < q THEN q + 1 ELSE m + 1) BY <1>1
  <2> HIDE DEF from
  <2>3. /\ DOMAIN r1 = 1..MaxSlot
        /\ \A s \in 1..MaxSlot : r1[s] = IF s \in (m + 1)..q THEN Nil ELSE st[s]
    BY <1>2, <1>3
  <2> HIDE DEF r1
  <2>4. /\ DOMAIN r2 = 1..MaxSlot
        /\ \A s \in 1..MaxSlot : r2[s] = IF s \in from..p THEN Unset ELSE r1[s]
    BY <1>3, <2>3
  <2> HIDE DEF r2
  <2>5. ASSUME NEW i \in 1..p
        PROVE  r2[i] = IF i <= m THEN args[i] ELSE IF i <= q THEN Nil ELSE Unset
    <3>1. i \in 1..MaxSlot BY <1>1
    <3>2. CASE i <= m
      <4>1. i \notin (m + 1)..q /\ i \notin from..p BY <1>1, <2>2, <3>2
      <4> QED BY <1>2, <2>3, <2>4, <3>1, <3>2, <4>1
    <3>3. CASE i > m /\ i <= q
      <4>1. i \in (m + 1)..q /\ i \notin from..p /\ ~(i <= m) BY <1>1, <2>2, <3>3
      <4> QED BY <2>3, <2>4, <3>1, <3>3, <4>1
    <3>4. CASE i > m /\ i > q
      <4>1. i \in from..p /\ ~(i <= m) /\ ~(i <= q) BY <1>1, <2>2, <3>4
      <4> QED BY <2>4, <3>1, <4>1
    <3> QED BY <1>1, <3>2, <3>3, <3>4
  <2>6. ASSUME HasRest(f)
        PROVE  Initialized(f, args, FillTemp(f, MakeRest(f, r2, p)))
    <3> DEFINE u == MakeRest(f, r2, p)
               W == {r2[j] : j \in 1..p}
    <3>1. p <= Room(f) /\ p <= MaxSlot /\ n = p + 1 BY <1>1, <2>6
    <3>2. \A s \in 1..p : r2[s] \in W OBVIOUS
    <3> HIDE DEF W
    <3>3. /\ DOMAIN u = 1..MaxSlot
          /\ \A s \in 1..p : u[s] = r2[s]
          /\ u[n] = Array(SubSeq(r2, n, p))
      <4>1. /\ WellFormed(f) /\ Accepted(f) /\ HasRest(f) /\ MaxSlot \in Nat /\ RegNum(f) <= MaxSlot
            /\ DOMAIN r2 = 1..MaxSlot /\ p \in Nat /\ p <= Room(f) /\ p <= MaxSlot
        BY <1>1, <2>4, <2>6, <3>1
      <4> QED BY ONLY <3>2, <4>1, MakeRestIs
    <3>4. SubSeq(r2, n, p) = <<>> /\ SubSeq(args, n, m) = <<>>
      BY <1>1, <1>4, <3>1, SubSeqEmpty
    <3> HIDE DEF u
    <3>5. \A i \in 1..p : u[i] = IF i <= m THEN args[i] ELSE IF i <= q THEN Nil ELSE Unset
      BY <2>5, <3>3
    <3>6. u[n] = Array(SubSeq(args, n, m)) BY <3>3, <3>4
    <3> HIDE DEF p, n, q, m
    <3>7. Initialized(f, args, FillTemp(f, u)) BY <3>3, <3>5, <3>6, TempIs DEF p, n, q, m
    <3> QED BY <3>7 DEF u
  <2>7. ASSUME ~HasRest(f)
        PROVE  Initialized(f, args, FillTemp(f, r2))
    BY <2>4, <2>5, <2>7, TempIs
  <2>8. InitFunc(f, st, m) = FillTemp(f, IF HasRest(f) THEN MakeRest(f, r2, p) ELSE r2)
    BY <1>4, <2>1 DEF InitFunc, EmptyRest
  <2>9. HasRest(f) \/ ~HasRest(f) OBVIOUS
  <2> QED BY <2>6, <2>7, <2>8, <2>9 DEF st
<1>5. CASE ~(m <= p) /\ HasRest(f)
  <2> DEFINE u == MakeRest(f, st, m)
  <2>1. m <= Room(f) /\ m <= MaxSlot /\ n = p + 1 BY <1>1, <1>5
  <2>2. \A s \in 1..m : st[s] = args[s] /\ args[s] \in V BY <1>1, <1>2, <2>1
  <2>3. /\ DOMAIN u = 1..MaxSlot
        /\ \A s \in 1..p : u[s] = st[s]
        /\ u[n] = Array(SubSeq(st, n, m))
    BY <1>1, <1>2, <1>5, <2>1, <2>2, MakeRestIs
  <2>4. \A i \in n..m : st[i] = args[i] /\ args[i] \in V BY <1>1, <2>1, <2>2
  <2>5. SubSeq(st, n, m) = SubSeq(args, n, m)
    <3>1. n \in Int /\ m \in Int BY <1>1
    <3> HIDE DEF n, m
    <3> QED BY <2>4, <3>1, SameSlice
  <2> HIDE DEF u
  <2>6. \A i \in 1..p : u[i] = IF i <= m THEN args[i] ELSE IF i <= q THEN Nil ELSE Unset
    BY <1>1, <1>5, <2>2, <2>3
  <2>7. Initialized(f, args, FillTemp(f, u)) BY <2>3, <2>5, <2>6, TempIs
  <2>8. InitFunc(f, st, m) = FillTemp(f, u) BY <1>5 DEF InitFunc, u
  <2> QED BY <2>7, <2>8 DEF st
<1>6. CASE ~(m <= p) /\ ~HasRest(f)
  <2>1. \A i \in 1..p : i \in 1..MaxSlot /\ i <= m BY <1>1, <1>6
  <2>2. Initialized(f, args, FillTemp(f, st)) BY <1>2, <1>6, <2>1, TempIs
  <2>3. InitFunc(f, st, m) = FillTemp(f, st) BY <1>6 DEF InitFunc
  <2> QED BY <2>2, <2>3 DEF st
<1> QED BY <1>4, <1>5, <1>6

(* Only the interpreter has a place for the block, above the parameters. *)
Prepared(f, args, tier, block, regs) ==
    /\ DOMAIN regs = 1..MaxSlot
    /\ \A i \in 1..PosNum(f) :
          regs[i] = IF i <= Len(args) THEN args[i] ELSE IF i <= ReqNum(f) THEN Nil ELSE Unset
    /\ HasRest(f) => regs[ArgNum(f)] = Array(SubSeq(args, ArgNum(f), Len(args)))
    /\ \A s \in (ArgNum(f) + 1)..(RegNum(f) - 1) :
          regs[s] = IF tier = "vm" /\ f.block /\ s = ArgNum(f) + 1 THEN block ELSE Nil

LEMMA JitInitIs ==
    ASSUME NEW f, WellFormed(f), Accepted(f), MaxSlot \in Nat, RegNum(f) <= MaxSlot,
           NEW V, NEW args \in Seq(V),
           HasRest(f) => Len(args) <= Room(f) /\ Len(args) <= MaxSlot,
           PosNum(f) = 0 /\ HasRest(f) => args = <<>>
    PROVE  Initialized(f, args, JitInit(f, args))
<1> DEFINE st == Stack(args)
<1>1. DOMAIN st = 1..MaxSlot BY StackIs
<1>2. \A i : i \notin 1..0 OBVIOUS
<1> HIDE DEF st
<1>3. CASE PosNum(f) # 0
  <2>1. JitInit(f, args) = InitFunc(f, Stack(args), Len(args)) BY <1>3 DEF JitInit
  <2> QED BY <2>1, InitFuncIs
<1>4. CASE PosNum(f) = 0 /\ ~HasRest(f)
  <2>1. JitInit(f, args) = FillTemp(f, st) BY <1>4 DEF JitInit, EmptyRest, st
  <2>2. Initialized(f, args, FillTemp(f, st)) BY <1>1, <1>2, <1>4, TempIs
  <2> QED BY <2>1, <2>2
<1>5. CASE PosNum(f) = 0 /\ HasRest(f)
  <2> DEFINE u == MakeRest(f, st, 0)
  <2>1. /\ ArgNum(f) = 1 /\ Room(f) \in Int /\ 0 <= Room(f) /\ 0 <= MaxSlot /\ 0 \in Nat
        /\ Len(args) = 0
    BY <1>5, Layout, Registers
  <2>2. DOMAIN u = 1..MaxSlot /\ u[ArgNum(f)] = Array(SubSeq(st, ArgNum(f), 0))
    <3>1. \A s \in 1..0 : st[s] \in V BY <1>2
    <3> QED BY <1>1, <1>5, <2>1, <3>1, MakeRestIs
  <2>3. SubSeq(st, 1, 0) = <<>> /\ SubSeq(args, 1, 0) = <<>> BY SubSeqEmpty
  <2> HIDE DEF u
  <2>4. u[ArgNum(f)] = Array(SubSeq(args, ArgNum(f), Len(args))) BY <2>1, <2>2, <2>3
  <2>5. Initialized(f, args, FillTemp(f, u)) BY <1>2, <1>5, <2>2, <2>4, TempIs
  <2>6. JitInit(f, args) = FillTemp(f, u) BY <1>5 DEF JitInit, EmptyRest, st, u
  <2> QED BY <2>5, <2>6
<1> QED BY <1>3, <1>4, <1>5

LEMMA ProloguesAre ==
    ASSUME NEW f, WellFormed(f), Accepted(f), MaxSlot \in Nat, RegNum(f) <= MaxSlot,
           NEW V, NEW args \in Seq(V), NEW tier \in {"vm", "jit"}, NEW block,
           HasRest(f) => Len(args) <= Room(f) /\ Len(args) <= MaxSlot,
           tier = "jit" /\ PosNum(f) = 0 /\ HasRest(f) => args = <<>>
    PROVE  Prepared(f, args, tier, block,
                    IF tier = "vm" THEN VmInit(f, args, block) ELSE JitInit(f, args))
<1>1. CASE tier = "jit"
  <2>1. Initialized(f, args, JitInit(f, args)) BY <1>1, JitInitIs
  <2> QED BY <1>1, <2>1 DEF Initialized, Prepared
<1>2. CASE tier = "vm"
  <2> DEFINE r == InitFunc(f, Stack(args), Len(args))
             n == ArgNum(f)
  <2>1. Initialized(f, args, r) BY InitFuncIs
  <2>2. /\ n \in Nat /\ PosNum(f) \in Nat /\ PosNum(f) <= n /\ RegNum(f) \in Nat /\ n < RegNum(f)
        /\ HasRest(f) => n \in 1..n
    BY Layout, Registers
  <2>3. VmInit(f, args, block) = IF f.block THEN [r EXCEPT ![n + 1] = block] ELSE r
    BY DEF VmInit, BlockPos
  <2> HIDE DEF r, n
  <2> DEFINE u == VmInit(f, args, block)
  <2>4. /\ DOMAIN u = 1..MaxSlot
        /\ \A s \in 1..MaxSlot : u[s] = IF f.block /\ s = n + 1 THEN block ELSE r[s]
    BY <2>1, <2>3 DEF Initialized
  <2> HIDE DEF u
  <2>5. \A s \in 1..n : u[s] = r[s] BY <2>2, <2>4
  <2>6. \A s \in (n + 1)..(RegNum(f) - 1) : u[s] = IF f.block /\ s = n + 1 THEN block ELSE r[s]
    BY <2>2, <2>4
  <2>7. \A i \in 1..PosNum(f) : i \in 1..n BY <2>2
  <2>8. Prepared(f, args, tier, block, u)
    BY <1>2, <2>1, <2>2, <2>4, <2>5, <2>6, <2>7 DEF Initialized, Prepared, n
  <2> QED BY <1>2, <2>8 DEF u
<1> QED BY <1>1, <1>2
-----------------------------------------------------------------------------
(* The instructions a function begins with.                                 *)

LEMMA ExpandedIs ==
    ASSUME NEW f, WellFormed(f), Accepted(f), MaxSlot \in Nat, RegNum(f) <= MaxSlot,
           NEW regs, DOMAIN regs = 1..MaxSlot
    PROVE  /\ DOMAIN ExpandAll(f, regs) = 1..MaxSlot
           /\ \A s \in 1..ArgNum(f) : ExpandAll(f, regs)[s] = regs[s]
           /\ f.block => ExpandAll(f, regs)[BlockSlot(f)] = regs[BlockSlot(f)]
           /\ \A d \in Expands(f) : \A j \in 1..f.params[d].len :
                 ExpandAll(f, regs)[ArgNum(f) + j] = ExpandArray(regs[d], f.params[d].len)[j]
<1> DEFINE n == ArgNum(f)
           Into(s) == {i \in Expands(f) : s \in ExpandDst(f, i)..(ExpandDst(f, i) + f.params[i].len - 1)}
           u == ExpandAll(f, regs)
<1>1. /\ DOMAIN u = 1..MaxSlot
      /\ \A s \in 1..MaxSlot :
            /\ Into(s) = {} => u[s] = regs[s]
            /\ \A d : Into(s) = {d} =>
                  u[s] = ExpandArray(regs[d], f.params[d].len)[s - ExpandDst(f, d) + 1]
  <2>1. \A d : (CHOOSE i \in {d} : TRUE) = d OBVIOUS
  <2> QED BY <2>1 DEF ExpandAll
<1>2. /\ n \in Nat /\ RegNum(f) \in Nat /\ n < RegNum(f)
      /\ f.block => BlockSlot(f) \in (n + 1)..(RegNum(f) - 1)
      /\ \A d \in Expands(f) :
            /\ f.params[d].len \in Nat /\ ExpandDst(f, d) = n + 1 /\ Expands(f) = {d}
            /\ n + f.params[d].len < RegNum(f)
            /\ f.block => BlockSlot(f) = n + f.params[d].len + 1
  BY Layout, Registers, Variables, OneExpands
<1> HIDE DEF u, n
<1>3. \A s \in 1..MaxSlot : \A d \in Expands(f) :
        /\ s \in (n + 1)..(n + f.params[d].len) => Into(s) = {d}
        /\ s \notin (n + 1)..(n + f.params[d].len) => Into(s) = {}
  <2> SUFFICES ASSUME NEW s \in 1..MaxSlot, NEW d \in Expands(f)
               PROVE  /\ s \in (n + 1)..(n + f.params[d].len) => Into(s) = {d}
                      /\ s \notin (n + 1)..(n + f.params[d].len) => Into(s) = {}
    OBVIOUS
  <2>1. (n + 1) + f.params[d].len - 1 = n + f.params[d].len BY <1>2
  <2>2. \A i : i \in Into(s) <=> i = d /\ s \in (n + 1)..(n + f.params[d].len) BY <1>2, <2>1
  <2> HIDE DEF Into
  <2> QED BY <2>2
<1>4. Expands(f) = {} => \A s : Into(s) = {} OBVIOUS
<1> HIDE DEF Into
<1>5. \A s \in 1..n : u[s] = regs[s]
  <2> SUFFICES ASSUME NEW s \in 1..n PROVE u[s] = regs[s] OBVIOUS
  <2>1. s \in 1..MaxSlot BY <1>2
  <2>2. \A d \in Expands(f) : s \notin (n + 1)..(n + f.params[d].len) BY <1>2
  <2>3. Into(s) = {} BY <1>3, <1>4, <2>1, <2>2
  <2> QED BY <1>1, <2>1, <2>3
<1>6. f.block => u[BlockSlot(f)] = regs[BlockSlot(f)]
  <2> DEFINE s == BlockSlot(f)
  <2> SUFFICES ASSUME f.block PROVE u[s] = regs[s] OBVIOUS
  <2>1. s \in 1..MaxSlot BY <1>2
  <2>2. \A d \in Expands(f) : s \notin (n + 1)..(n + f.params[d].len) BY <1>2
  <2> HIDE DEF s
  <2>3. Into(s) = {} BY <1>3, <1>4, <2>1, <2>2
  <2> QED BY <1>1, <2>1, <2>3
<1>7. ASSUME NEW d \in Expands(f), NEW j \in 1..f.params[d].len
      PROVE  u[n + j] = ExpandArray(regs[d], f.params[d].len)[j]
  <2>1. /\ n + j \in 1..MaxSlot /\ n + j \in (n + 1)..(n + f.params[d].len)
        /\ (n + j) - (n + 1) + 1 = j
    BY <1>2
  <2>2. Into(n + j) = {d} BY <1>3, <2>1
  <2>3. u[n + j] = ExpandArray(regs[d], f.params[d].len)[(n + j) - ExpandDst(f, d) + 1]
    BY <1>1, <2>1, <2>2
  <2>4. (n + j) - ExpandDst(f, d) + 1 = j BY <1>2, <2>1
  <2> QED BY <2>3, <2>4
<1> QED BY <1>1, <1>5, <1>6, <1>7 DEF u, n

LEMMA CheckedIs ==
    ASSUME NEW f, WellFormed(f), NEW regs, DOMAIN regs = 1..MaxSlot
    PROVE  /\ DOMAIN CheckLocals(f, regs) = 1..MaxSlot
           /\ \A s \in 1..MaxSlot :
                 CheckLocals(f, regs)[s] =
                    IF s \in (ReqNum(f) + 1)..PosNum(f) /\ regs[s] = Unset THEN Default(s) ELSE regs[s]
<1>1. /\ ArgNum(f) \in Nat /\ PosNum(f) \in Nat /\ ReqNum(f) \in Nat /\ PosNum(f) <= ArgNum(f)
      /\ DOMAIN f.params = 1..ArgNum(f)
      /\ \A i \in 1..ArgNum(f) : Kind(f, i) = "opt" <=> ReqNum(f) < i /\ i <= PosNum(f)
  BY Layout
<1>2. Optionals(f) = (ReqNum(f) + 1)..PosNum(f) BY <1>1 DEF Optionals, Kind
<1> QED BY <1>2 DEF CheckLocals

(* Each parameter has the value Ruby gives it. *)
LEMMA SeenIs ==
    ASSUME NEW f, WellFormed(f), Accepted(f), MaxSlot \in Nat, RegNum(f) <= MaxSlot,
           NEW V, Unset \notin V, NEW args \in Seq(V), NEW tier, NEW block, NEW regs,
           Prepared(f, args, tier, block, regs), NEW i \in 1..ArgNum(f)
    PROVE  LET c == CheckLocals(f, ExpandAll(f, regs))
               x == ExpandDst(f, i)
           IN  (IF i \in Expands(f) THEN Array(SubSeq(c, x, x + f.params[i].len - 1)) ELSE c[i])
                  = RubyValue(f, args, i)
<1> DEFINE e == ExpandAll(f, regs)
           c == CheckLocals(f, e)
           m == Len(args)
           n == ArgNum(f)
<1>1. /\ n \in Nat /\ m \in Nat /\ PosNum(f) \in Nat /\ ReqNum(f) \in Nat /\ ReqNum(f) <= PosNum(f)
      /\ PosNum(f) = IF HasRest(f) THEN n - 1 ELSE n
      /\ RegNum(f) \in Nat /\ n < RegNum(f) /\ i \in 1..MaxSlot
      /\ Kind(f, i) \in {"req", "destruct"} <=> i <= ReqNum(f)
      /\ Kind(f, i) = "rest" <=> HasRest(f) /\ i = n
      /\ Kind(f, i) = "opt" <=> ReqNum(f) < i /\ i <= PosNum(f)
      /\ Kind(f, i) \in {"req", "opt", "rest", "destruct"}
      /\ i \in Expands(f) <=> Kind(f, i) = "destruct"
      /\ \A j \in 1..m : args[j] \in V
  BY Layout, Registers, Kinds DEF ArgNum, Expands, Kind
<1>2. DOMAIN regs = 1..MaxSlot BY DEF Prepared
<1>3. DOMAIN e = 1..MaxSlot /\ e[i] = regs[i] BY <1>2, ExpandedIs
<1>4. DOMAIN c = 1..MaxSlot BY <1>3, CheckedIs
<1>5. \A s \in 1..MaxSlot :
         c[s] = IF s \in (ReqNum(f) + 1)..PosNum(f) /\ e[s] = Unset THEN Default(s) ELSE e[s]
  BY <1>3, CheckedIs
<1>6. i <= PosNum(f) => regs[i] = IF i <= m THEN args[i] ELSE IF i <= ReqNum(f) THEN Nil ELSE Unset
  BY <1>1 DEF Prepared
<1>7. \A d \in Expands(f) : \A j \in 1..f.params[d].len :
         e[n + j] = ExpandArray(regs[d], f.params[d].len)[j]
  BY <1>2, ExpandedIs
<1> HIDE DEF e, c, m, n
<1>8. CASE Kind(f, i) = "req"
  <2>1. i <= PosNum(f) /\ i <= ReqNum(f) /\ i \notin Expands(f) /\ c[i] = regs[i] BY <1>1, <1>3, <1>5, <1>8
  <2>2. c[i] = AtOrNil(args, i) BY <1>6, <2>1 DEF AtOrNil, m
  <2>3. RubyValue(f, args, i) = AtOrNil(args, i) BY <1>8 DEF RubyValue, Kind
  <2> QED BY <2>1, <2>2, <2>3 DEF c, e
<1>9. CASE Kind(f, i) = "opt"
  <2>1. /\ i \in (ReqNum(f) + 1)..PosNum(f) /\ i \notin Expands(f)
        /\ i <= PosNum(f) /\ ~(i <= ReqNum(f))
    BY <1>1, <1>9
  <2>2. c[i] = IF regs[i] = Unset THEN Default(i) ELSE regs[i] BY <1>1, <1>3, <1>5, <2>1
  <2>3. i <= m => args[i] \in V BY <1>1
  <2>4. c[i] = IF i <= m THEN args[i] ELSE Default(i) BY <1>6, <2>1, <2>2, <2>3
  <2>5. RubyValue(f, args, i) = IF i <= m THEN args[i] ELSE Default(i) BY <1>9 DEF RubyValue, Kind, m
  <2> QED BY <2>1, <2>4, <2>5 DEF c, e
<1>10. CASE Kind(f, i) = "rest"
  <2>1. HasRest(f) /\ i = n /\ i \notin Expands(f) /\ ~(i <= PosNum(f)) BY <1>1, <1>10
  <2>2. c[i] = Array(SubSeq(args, i, Len(args))) BY <1>1, <1>3, <1>5, <2>1 DEF Prepared, n
  <2>3. RubyValue(f, args, i) = Array(SubSeq(args, i, Len(args))) BY <1>10 DEF RubyValue, Kind
  <2> QED BY <2>1, <2>2, <2>3 DEF c, e
<1>11. CASE Kind(f, i) = "destruct"
  <2> DEFINE len == f.params[i].len
             x == SubSeq(c, n + 1, n + len)
             y == ExpandArray(AtOrNil(args, i), len)
             W == {c[s] : s \in (n + 1)..(n + len)}
  <2>1. i \in Expands(f) /\ i <= ReqNum(f) /\ i <= PosNum(f) BY <1>1, <1>11
  <2>2. len \in Nat /\ ExpandDst(f, i) = n + 1 /\ n + len < RegNum(f)
    BY <2>1, Variables, Registers DEF n
  <2>3. regs[i] = AtOrNil(args, i) BY <1>6, <2>1 DEF AtOrNil, m
  <2>4. \A j \in 1..len : y[j] = e[n + j] BY <1>7, <2>1, <2>3
  <2>5. \A j \in 1..len : c[n + j] = e[n + j]
    <3> SUFFICES ASSUME NEW j \in 1..len PROVE c[n + j] = e[n + j] OBVIOUS
    <3>1. n + j \in 1..MaxSlot /\ ~(n + j <= PosNum(f)) BY <1>1, <2>2
    <3> QED BY <1>1, <1>5, <3>1
  <2>6. y = [j \in 1..len |-> y[j]] BY DEF ExpandArray
  <2>7. \A s \in (n + 1)..(n + len) : c[s] \in W OBVIOUS
  <2> HIDE DEF len, y, W
  <2>8. /\ x \in Seq(W)
        /\ Len(x) = IF n + 1 <= n + len THEN (n + len) - (n + 1) + 1 ELSE 0
        /\ \A j \in 1..((n + len) - (n + 1) + 1) : x[j] = c[(n + 1) + j - 1]
    <3>1. n + 1 \in Int /\ n + len \in Int BY <1>1, <2>2
    <3> QED BY <2>7, <3>1, SubSeqProperties
  <2>9. Len(x) = len /\ \A j \in 1..len : x[j] = c[n + j]
    <3>1. (n + len) - (n + 1) + 1 = len BY <1>1, <2>2
    <3>2. \A j \in 1..len : (n + 1) + j - 1 = n + j BY <1>1, <2>2
    <3> HIDE DEF x
    <3>3. \A j \in 1..len : x[j] = c[n + j] BY <2>8, <3>1, <3>2
    <3>4. Len(x) = len BY <1>1, <2>2, <2>8
    <3> QED BY <3>3, <3>4
  <2>10. n + 1 + len - 1 = n + len BY <1>1, <2>2
  <2> HIDE DEF x
  <2>11. x = [j \in 1..len |-> x[j]] BY <2>8, <2>9
  <2>12. x = y BY <2>4, <2>5, <2>6, <2>9, <2>11
  <2>13. RubyValue(f, args, i) = Array(y) BY <1>11 DEF RubyValue, Kind, y, len
  <2>14. SubSeq(c, ExpandDst(f, i), ExpandDst(f, i) + f.params[i].len - 1) = x
    BY <2>2, <2>10 DEF x, len
  <2> QED BY <2>1, <2>12, <2>13, <2>14 DEF c, e
<1> QED BY <1>1, <1>8, <1>9, <1>10, <1>11

LEMMA BlockIs ==
    ASSUME NEW f, WellFormed(f), Accepted(f), MaxSlot \in Nat, RegNum(f) <= MaxSlot,
           NEW args, NEW tier, NEW block, NEW regs, Prepared(f, args, tier, block, regs), f.block,
           ~BlockUnset(tier, f, block), ~BlockLost(tier, f, block), tier \in {"vm", "jit"}
    PROVE  CheckLocals(f, ExpandAll(f, regs))[BlockSlot(f)] = IF block = NoBlock THEN Nil ELSE block
<1> DEFINE e == ExpandAll(f, regs)
           c == CheckLocals(f, e)
           s == BlockSlot(f)
           n == ArgNum(f)
<1>1. /\ n \in Nat /\ PosNum(f) \in Nat /\ ReqNum(f) \in Nat /\ PosNum(f) <= n
      /\ RegNum(f) \in Nat /\ n < RegNum(f)
      /\ s \in (n + 1)..(RegNum(f) - 1) /\ (Expands(f) = {} => s = n + 1)
      /\ \A d \in Expands(f) : f.params[d].len \in Nat \ {0} /\ s = n + f.params[d].len + 1
  <2>1. \A d \in Expands(f) : f.params[d].len \in Nat \ {0} BY Variables
  <2>2. \A d \in Expands(f) : s = n + f.params[d].len + 1 BY Registers
  <2>3. s \in (n + 1)..(RegNum(f) - 1) /\ (Expands(f) = {} => s = n + 1) BY Registers
  <2>4. RegNum(f) \in Nat /\ n < RegNum(f) BY Registers
  <2>5. n \in Nat /\ PosNum(f) \in Nat /\ ReqNum(f) \in Nat /\ PosNum(f) <= n BY Layout
  <2> QED BY <2>1, <2>2, <2>3, <2>4, <2>5
<1>2. s \in 1..MaxSlot /\ s \notin (ReqNum(f) + 1)..PosNum(f) BY <1>1
<1>3. DOMAIN regs = 1..MaxSlot BY DEF Prepared
<1>4. DOMAIN e = 1..MaxSlot /\ e[s] = regs[s] BY <1>3, ExpandedIs
<1>5. c[s] = e[s] BY <1>2, <1>4, CheckedIs
<1>6. regs[s] = IF tier = "vm" /\ s = n + 1 THEN block ELSE Nil BY <1>1 DEF Prepared
<1> HIDE DEF c, e, s, n
<1>7. CASE block = NoBlock
  <2>1. tier # "vm" \/ Expands(f) # {} BY <1>7 DEF BlockUnset
  <2>2. Expands(f) # {} => s # n + 1 BY <1>1
  <2>3. regs[s] = Nil BY <1>6, <2>1, <2>2
  <2> QED BY <1>4, <1>5, <1>7, <2>3 DEF c, e, s
<1>8. CASE block # NoBlock
  <2>1. tier = "vm" /\ Expands(f) = {} BY <1>8 DEF BlockLost
  <2>2. regs[s] = block BY <1>1, <1>6, <2>1
  <2> QED BY <1>4, <1>5, <1>8, <2>2 DEF c, e, s
<1> QED BY <1>7, <1>8

Padded(f, a, g) == g = a \o [i \in 1..(ReqNum(f) - Len(a)) |-> Nil]

LEMMA PaddedIs ==
    ASSUME NEW f, WellFormed(f), NEW V, NEW a \in Seq(V), NEW g, Padded(f, a, g)
    PROVE  g \in Seq(V \cup {Nil})
<1> DEFINE W == V \cup {Nil}
           fill == [j \in 1..(ReqNum(f) - Len(a)) |-> Nil]
<1>1. ReqNum(f) \in Nat /\ Len(a) \in Nat BY Layout
<1>2. a \in Seq(W) OBVIOUS
<1>3. fill \in Seq(W)
  <2>1. CASE ReqNum(f) - Len(a) \in Nat BY <2>1
  <2>2. CASE ReqNum(f) - Len(a) \notin Nat
    <3>1. 1..(ReqNum(f) - Len(a)) = {} BY <1>1, <2>2
    <3>2. fill = <<>> BY <3>1
    <3> QED BY <3>2, EmptySeq
  <2> QED BY <2>1, <2>2
<1> HIDE DEF W, fill
<1>4. a \o fill \in Seq(W) BY <1>2, <1>3, ConcatProperties
<1> QED BY <1>4 DEF Padded, W, fill

(* block_expand_array's nil for missing required parameters changes nothing. *)
LEMMA SpreadIs ==
    ASSUME NEW f, WellFormed(f), NEW V, NEW a \in Seq(V), NEW g,
           Padded(f, a, g), NEW i \in 1..ArgNum(f)
    PROVE  RubyValue(f, g, i) = RubyValue(f, a, i)
<1> DEFINE W == V \cup {Nil}
           q == ReqNum(f)
           m == Len(a)
           fill == [j \in 1..(q - m) |-> Nil]
<1>0. g = a \o fill BY DEF Padded
<1>1. /\ ArgNum(f) \in Nat /\ q \in Nat /\ m \in Nat /\ q <= PosNum(f) /\ PosNum(f) \in Nat
      /\ PosNum(f) = IF HasRest(f) THEN ArgNum(f) - 1 ELSE ArgNum(f)
      /\ Kind(f, i) \in {"req", "destruct"} <=> i <= q
      /\ Kind(f, i) = "rest" <=> HasRest(f) /\ i = ArgNum(f)
      /\ Kind(f, i) = "opt" <=> q < i /\ i <= PosNum(f)
      /\ Kind(f, i) \in {"req", "opt", "rest", "destruct"}
  BY Layout, Kinds DEF ArgNum
<1>2. a \in Seq(W) OBVIOUS
<1>3. CASE m >= q
  <2>1. fill = <<>>
    <3>1. 1..(q - m) = {} BY <1>1, <1>3
    <3> QED BY <3>1
  <2>2. g = a
    <3>1. a \o <<>> = a BY ConcatEmptySeq
    <3> QED BY <1>0, <2>1, <3>1
  <2> QED BY <1>2, <2>2
<1>4. CASE m < q
  <2>1. q - m \in Nat BY <1>1, <1>4
  <2>2. fill \in Seq(W) /\ Len(fill) = q - m /\ \A j \in 1..(q - m) : fill[j] = Nil BY <2>1
  <2> HIDE DEF fill, W
  <2>3. /\ g \in Seq(W) /\ Len(g) = m + Len(fill)
        /\ \A j \in 1..(m + Len(fill)) : g[j] = IF j <= m THEN a[j] ELSE fill[j - m]
    BY <1>0, <1>2, <2>2, ConcatProperties
  <2>4. Len(g) = q BY <1>1, <2>2, <2>3
  <2>5. \A j \in 1..q : AtOrNil(g, j) = AtOrNil(a, j)
    <3> SUFFICES ASSUME NEW j \in 1..q PROVE AtOrNil(g, j) = AtOrNil(a, j) OBVIOUS
    <3>1. j \in 1..(m + Len(fill)) /\ j <= Len(g) BY <1>1, <2>2, <2>4
    <3>2. j > m => j - m \in 1..(q - m) BY <1>1
    <3>3. g[j] = IF j <= m THEN a[j] ELSE Nil BY <1>1, <2>2, <2>3, <3>1, <3>2
    <3> QED BY <1>1, <3>1, <3>3 DEF AtOrNil
  <2>6. CASE Kind(f, i) \in {"req", "destruct"}
    <3>1. AtOrNil(g, i) = AtOrNil(a, i)
      <4>1. i \in 1..q BY <1>1, <2>6
      <4> HIDE DEF q
      <4> QED BY <2>5, <4>1
    <3>2. CASE Kind(f, i) = "req"
      <4>1. RubyValue(f, g, i) = AtOrNil(g, i) /\ RubyValue(f, a, i) = AtOrNil(a, i)
        BY <3>2 DEF RubyValue, Kind
      <4> QED BY <3>1, <4>1
    <3>3. CASE Kind(f, i) = "destruct"
      <4>1. /\ RubyValue(f, g, i) = Array(ExpandArray(AtOrNil(g, i), f.params[i].len))
            /\ RubyValue(f, a, i) = Array(ExpandArray(AtOrNil(a, i), f.params[i].len))
        BY <3>3 DEF RubyValue, Kind
      <4> QED BY <3>1, <4>1
    <3> QED BY <2>6, <3>2, <3>3
  <2>7. CASE Kind(f, i) = "opt"
    <3>1. ~(i <= Len(g)) /\ ~(i <= Len(a)) BY <1>1, <1>4, <2>4, <2>7
    <3>2. RubyValue(f, g, i) = Default(i) /\ RubyValue(f, a, i) = Default(i)
      BY <2>7, <3>1 DEF RubyValue, Kind
    <3> QED BY <3>2
  <2>8. CASE Kind(f, i) = "rest"
    <3>1. i \in Int /\ Len(g) < i /\ Len(a) < i /\ Len(g) \in Int /\ Len(a) \in Int
      BY <1>1, <1>4, <2>4, <2>8
    <3>2. SubSeq(g, i, Len(g)) = <<>> /\ SubSeq(a, i, Len(a)) = <<>> BY <3>1, SubSeqEmpty
    <3>3. /\ RubyValue(f, g, i) = Array(SubSeq(g, i, Len(g)))
          /\ RubyValue(f, a, i) = Array(SubSeq(a, i, Len(a)))
      BY <2>8 DEF RubyValue, Kind
    <3> QED BY <3>2, <3>3
  <2> QED BY <1>1, <2>6, <2>7, <2>8
<1>5. m >= q \/ m < q BY <1>1
<1> QED BY <1>3, <1>4, <1>5
-----------------------------------------------------------------------------
(* Every call that no divergence is named for is as in Ruby: the parameters *)
(* of a function are bound, or the call is refused, by the interpreter's    *)
(* prologue and by the compiled one, for any list of parameters and any     *)
(* arguments that get past the check of their number by the caller.         *)
THEOREM CallsBindLikeRuby ==
    ASSUME NEW f, WellFormed(f), Accepted(f), MaxSlot \in Nat, RegNum(f) <= MaxSlot, Room(f) <= MaxSlot,
           NEW V, Passable(V), NEW args \in Seq(V), NEW tier \in {"vm", "jit"}, NEW block,
           f.is_block \/ CheckArg(f, Len(args)),
           ~Divergent(tier, f, args, block)
    PROVE  Enter(tier, f, args, block) = RubyEnter(f, args, block)
<1> DEFINE given == ExpandArg0(f, args)
           ruby == RubyArgs(f, args)
           regs == IF tier = "vm" THEN VmInit(f, given, block) ELSE JitInit(f, given)
           c == CheckLocals(f, ExpandAll(f, regs))
           W == V \cup {Nil}
<1>1. /\ PosNum(f) \in Nat /\ ReqNum(f) \in Nat /\ ArgNum(f) \in Nat /\ DOMAIN f.params = 1..ArgNum(f)
      /\ ReqNum(f) <= PosNum(f) /\ Room(f) \in Int
  BY Layout, Registers
<1>2. Unset \notin V /\ Unset \notin W BY DEF Passable, Nil, Unset
<1>3. Spreads(f, args) <=> RubySpreads(f, args)
  <2>1. Spreads(f, args) => RubySpreads(f, args) BY DEF Spreads, RubySpreads
  <2>2. RubySpreads(f, args) => Spreads(f, args) BY DEF Divergent, RestNotSpread
  <2> QED BY <2>1, <2>2
<1>4. /\ given \in Seq(W) /\ Len(given) \in Nat
      /\ \A i \in 1..ArgNum(f) : RubyValue(f, given, i) = RubyValue(f, ruby, i)
      /\ ~f.is_block \/ PosNum(f) < 2 => given = args /\ ruby = args
  <2>1. CASE ~Spreads(f, args)
    <3>1. given = args /\ ruby = args BY <1>3, <2>1 DEF ExpandArg0, RubyArgs
    <3>2. args \in Seq(W) /\ Len(args) \in Nat OBVIOUS
    <3> QED BY <3>1, <3>2
  <2>2. CASE Spreads(f, args)
    <3> DEFINE a == args[1][2]
    <3>1. f.is_block /\ Len(args) = 1 /\ ~(PosNum(f) < 2) /\ IsArray(args[1])
      BY <1>1, <2>2 DEF Spreads
    <3>2. a \in Seq(V)
      <4>1. 1 \in 1..Len(args) BY <3>1
      <4>2. args[1] \in V BY <4>1, ElementOfSeq
      <4> QED BY <3>1, <4>2 DEF Passable
    <3>3. ruby = a /\ Padded(f, a, given)
      BY <1>3, <2>2 DEF ExpandArg0, RubyArgs, Padded
    <3> HIDE DEF a, given, ruby, W
    <3>4. \A i \in 1..ArgNum(f) : RubyValue(f, given, i) = RubyValue(f, a, i)
      BY <3>2, <3>3, SpreadIs
    <3>6. given \in Seq(W) BY <3>2, <3>3, PaddedIs DEF W
    <3>7. Len(given) \in Nat BY <3>6
    <3> QED BY <3>1, <3>3, <3>4, <3>6, <3>7
  <2> QED BY <2>1, <2>2
<1> HIDE DEF given, ruby, W
<1>5. Refuses(tier, f, Len(given)) <=>
        ~f.is_block /\ (Len(ruby) < ReqNum(f) \/ (Len(ruby) > PosNum(f) /\ ~HasRest(f)))
  <2>1. CASE f.is_block BY <2>1 DEF Refuses, TooMany, TooFew
  <2>2. CASE ~f.is_block /\ (tier = "vm" \/ PosNum(f) > 0)
    BY <1>1, <1>4, <2>2 DEF Refuses, TooMany, TooFew
  <2>3. CASE ~f.is_block /\ tier = "jit" /\ ~(PosNum(f) > 0)
    <3>1. given = args /\ ruby = args /\ Len(args) \in Nat BY <1>4, <2>3
    <3>2. PosNum(f) = 0 /\ ReqNum(f) = 0 BY <1>1, <2>3
    <3>3. ~HasRest(f) => Len(args) = 0
      <4>1. ~HasRest(f) => Arity(f) = 0 BY <3>2 DEF Arity
      <4> QED BY <2>3, <4>1 DEF CheckArg
    <3> QED BY <2>3, <3>1, <3>2, <3>3 DEF Refuses
  <2> QED BY <2>1, <2>2, <2>3
<1>6. Prepared(f, given, tier, block, regs)
  <2>1. HasRest(f) => Len(given) <= Room(f) /\ Len(given) <= MaxSlot
    <3>1. HasRest(f) => ~(Len(given) > Room(f)) BY DEF Divergent, BelowFrame, given
    <3> QED BY <1>1, <1>4, <3>1
  <2>2. tier = "jit" /\ PosNum(f) = 0 /\ HasRest(f) => given = <<>>
    <3>1. tier = "jit" /\ PosNum(f) = 0 /\ HasRest(f) => args = <<>> BY DEF Divergent, RestDropped
    <3> QED BY <1>1, <1>4, <3>1
  <2>3. given \in Seq(W) BY <1>4
  <2> QED BY <2>1, <2>2, <2>3, ProloguesAre
<1> HIDE DEF regs
<1>7. \A i \in 1..ArgNum(f) :
         (IF i \in Expands(f)
          THEN Array(SubSeq(c, ExpandDst(f, i), ExpandDst(f, i) + f.params[i].len - 1)) ELSE c[i])
            = RubyValue(f, ruby, i)
  <2>1. given \in Seq(W) /\ Unset \notin W BY <1>2, <1>4
  <2>2. \A i \in 1..ArgNum(f) :
         (IF i \in Expands(f)
          THEN Array(SubSeq(c, ExpandDst(f, i), ExpandDst(f, i) + f.params[i].len - 1)) ELSE c[i])
            = RubyValue(f, given, i)
    BY <1>6, <2>1, SeenIs
  <2> QED BY <1>4, <2>2
<1>8. f.block => c[BlockSlot(f)] = IF block = NoBlock THEN Nil ELSE block
  BY <1>6, BlockIs DEF Divergent
<1> HIDE DEF c
<1>9. Seen(f, c) = [i \in DOMAIN f.params |-> RubyValue(f, ruby, i)]
                   \o (IF f.block THEN <<IF block = NoBlock THEN Nil ELSE block>> ELSE <<>>)
  <2>1. [i \in DOMAIN f.params |->
          IF i \in Expands(f)
          THEN Array(SubSeq(c, ExpandDst(f, i), ExpandDst(f, i) + f.params[i].len - 1))
          ELSE c[i]] = [i \in DOMAIN f.params |-> RubyValue(f, ruby, i)]
    BY <1>1, <1>7
  <2>2. (IF f.block THEN <<c[BlockSlot(f)]>> ELSE <<>>)
           = IF f.block THEN <<IF block = NoBlock THEN Nil ELSE block>> ELSE <<>>
    BY <1>8
  <2> QED BY <2>1, <2>2, Zenon DEF Seen
<1>10. Enter(tier, f, args, block) = IF Refuses(tier, f, Len(given)) THEN <<>> ELSE Array(Seen(f, c))
  BY DEF Enter, given, c, regs
<1>11. RubyEnter(f, args, block) =
         IF ~f.is_block /\ (Len(ruby) < ReqNum(f) \/ (Len(ruby) > PosNum(f) /\ ~HasRest(f))) THEN <<>>
         ELSE Array([i \in DOMAIN f.params |-> RubyValue(f, ruby, i)]
                    \o (IF f.block THEN <<IF block = NoBlock THEN Nil ELSE block>> ELSE <<>>))
  BY DEF RubyEnter, ruby
<1> QED BY <1>5, <1>9, <1>10, <1>11

-----------------------------------------------------------------------------
(* Walks: Along is the function its recursion describes.                    *)

\* h walks the first n steps.
Walked(step, id, n, h) ==
    /\ h[0] = id
    /\ \A k \in 0..(n - 1) : h[k + 1] = step[h[k]]

LEMMA WalksExist ==
    ASSUME NEW S, NEW step, \A x \in S : step[x] \in S, NEW id \in S
    PROVE  \A n \in Nat : \E h \in [0..n -> S] : Walked(step, id, n, h)
<1> SUFFICES ASSUME NEW n0 \in Nat, ~\E h \in [0..n0 -> S] : Walked(step, id, n0, h)
             PROVE  FALSE
  OBVIOUS
<1> DEFINE T == {n \in Nat : ~\E h \in [0..n -> S] : Walked(step, id, n, h)}
<1>1. T \in SUBSET Nat /\ T # {} OBVIOUS
<1>2. PICK m \in T : \A k \in T : m <= k BY <1>1, Least
<1>3. m # 0
  <2> DEFINE h == [k \in 0..0 |-> id]
  <2>1. h \in [0..0 -> S] /\ Walked(step, id, 0, h) BY DEF Walked
  <2> QED BY <2>1
<1>4. m \in Nat /\ m - 1 \in Nat /\ m - 1 \notin T BY <1>1, <1>2, <1>3
<1>5. PICK h \in [0..(m - 1) -> S] : Walked(step, id, m - 1, h) BY <1>4
<1> DEFINE g == [k \in 0..m |-> IF k = m THEN step[h[m - 1]] ELSE h[k]]
<1>6. g \in [0..m -> S] BY <1>4, <1>5
<1>7. \A k \in 0..m : g[k] = IF k = m THEN step[h[m - 1]] ELSE h[k] OBVIOUS
<1> HIDE DEF g
<1>8. \A k \in 0..(m - 1) : g[k + 1] = step[g[k]]
  <2> SUFFICES ASSUME NEW k \in 0..(m - 1) PROVE g[k + 1] = step[g[k]] OBVIOUS
  <2>1. CASE k = m - 1 BY <1>4, <1>7, <2>1
  <2>2. CASE k # m - 1
    <3>1. h[k + 1] = step[h[k]] BY <1>4, <1>5, <2>2 DEF Walked
    <3> QED BY <1>4, <1>7, <2>2, <3>1
  <2> QED BY <2>1, <2>2
<1>9. Walked(step, id, m, g) BY <1>3, <1>4, <1>5, <1>7, <1>8 DEF Walked
<1> QED BY <1>2, <1>6, <1>9

LEMMA WalksAgree ==
    ASSUME NEW step, NEW id, NEW n \in Nat, NEW m \in Nat,
           NEW h, NEW g, Walked(step, id, n, h), Walked(step, id, m, g)
    PROVE  \A k \in Nat : k <= n /\ k <= m => h[k] = g[k]
<1> DEFINE T == {k \in Nat : k <= n /\ k <= m /\ h[k] # g[k]}
<1> SUFFICES ASSUME T # {} PROVE FALSE OBVIOUS
<1>1. PICK k \in T : \A j \in T : k <= j BY Least
<1>2. k # 0 BY <1>1 DEF Walked
<1>3. k - 1 \in Nat /\ k - 1 \notin T /\ k - 1 <= n /\ k - 1 <= m /\ k \in Nat BY <1>1, <1>2
<1>4. h[k - 1] = g[k - 1] BY <1>3
<1>5. h[(k - 1) + 1] = step[h[k - 1]] /\ g[(k - 1) + 1] = step[g[k - 1]] /\ (k - 1) + 1 = k
  BY <1>1, <1>2, <1>3 DEF Walked
<1> QED BY <1>1, <1>4, <1>5

LEMMA AlongDef ==
    ASSUME NEW S, NEW step, \A x \in S : step[x] \in S, NEW id \in S
    PROVE  /\ Along(step, id)[0] = id
           /\ \A n \in Nat : Along(step, id)[n + 1] = step[Along(step, id)[n]]
           /\ \A n \in Nat : Along(step, id)[n] \in S
<1> DEFINE Body(f) == [n \in Nat |-> IF n = 0 THEN id ELSE step[f[n - 1]]]
           at == CHOOSE f : f = Body(f)
           H(n) == CHOOSE h \in [0..n -> S] : Walked(step, id, n, h)
           w == [n \in Nat |-> H(n)[n]]
<1>1. \A n \in Nat : H(n) \in [0..n -> S] /\ Walked(step, id, n, H(n)) BY WalksExist
<1> HIDE DEF H
<1>2. \A n \in Nat : w[n] = H(n)[n] OBVIOUS
<1>3. w \in [Nat -> S] BY <1>1
<1>4. w[0] = id BY <1>1, <1>2 DEF Walked
<1>5. ASSUME NEW n \in Nat PROVE w[n + 1] = step[w[n]]
  <2>1. Walked(step, id, n, H(n)) /\ Walked(step, id, n + 1, H(n + 1)) BY <1>1
  <2>2. H(n)[n] = H(n + 1)[n] BY <2>1, WalksAgree
  <2>3. H(n + 1)[n + 1] = step[H(n + 1)[n]] BY <2>1 DEF Walked
  <2> QED BY <1>2, <2>2, <2>3
<1> HIDE DEF w
<1>6. w = Body(w)
  <2>1. \A n \in Nat : w[n] = IF n = 0 THEN id ELSE step[w[n - 1]]
    <3> SUFFICES ASSUME NEW n \in Nat, n # 0 PROVE w[n] = step[w[n - 1]] BY <1>4
    <3>1. n - 1 \in Nat /\ (n - 1) + 1 = n OBVIOUS
    <3> QED BY <1>5, <3>1
  <2> QED BY <1>3, <2>1
<1>7. at = Body(at) BY <1>6
<1>8. Along(step, id) = at BY DEF Along
<1> HIDE DEF at
<1>9. at[0] = id /\ \A n \in Nat : at[n + 1] = step[at[n]] BY <1>7
<1>10. \A n \in Nat : at[n] \in S
  <2> DEFINE T == {n \in Nat : at[n] \notin S}
  <2> SUFFICES ASSUME T # {} PROVE FALSE OBVIOUS
  <2>1. PICK n \in T : \A k \in T : n <= k BY Least
  <2>2. n # 0 BY <1>9, <2>1
  <2>3. n \in Nat /\ n - 1 \in Nat /\ n - 1 \notin T /\ (n - 1) + 1 = n BY <2>1, <2>2
  <2>4. at[n - 1] \in S BY <2>3
  <2> QED BY <1>9, <2>1, <2>3, <2>4
<1> QED BY <1>8, <1>9, <1>10
-----------------------------------------------------------------------------
(* The invariant: what is true of the frame at place i of a stack, given    *)
(* those below it, and of cfp.                                              *)

(* What cfp is when the frames up to place n run: the one at place n, unless *)
(* something made it another (LinkedFrame).  Class bodies that have done     *)
(* nothing leave it as it was when the first of them began (Pending), and it *)
(* is always a frame, though not always one that is left, unless an accessor *)
(* or the entry point made it none.                                          *)
Pending(f) == f.since = "entry"
LinkedFrame(f) == f.since = "call"
Pointed(f) == f.since \notin {"accessor", "require"}
CfpPlaced(fs, n, c) ==
    /\ c \in Somewhere
    /\ \A i \in 1..n :
        (\A k \in (i + 1)..n : Pending(fs[k])) =>
            /\ c = fs[i].id <=> LinkedFrame(fs[i])
            /\ ~Pending(fs[i]) => \A k \in 1..(i - 1) : c # fs[k].id
    /\ n > 0 /\ Pointed(fs[n]) => c \in Ids

(* The word of a call is that of the frame below, one step longer, or a     *)
(* literal's, which names the frame below.                                  *)
WordPlaced(fs, i) ==
    fs[i].block # NoWord =>
        /\ i > 1 /\ fs[i].kind \in {"method", "native"} /\ fs[i].block.depth < i
        /\ \/ /\ fs[i].block.depth = 1 /\ fs[i].block.by = fs[i - 1].id
              /\ fs[i].block.via = "frame" => fs[i].prev = fs[i - 1].id
              /\ fs[i].block.via # "none" => fs[i].prev \in Ids
           \/ /\ fs[i].block.depth > 1
              /\ fs[i - 1].block.depth = fs[i].block.depth - 1
              /\ fs[i - 1].block.by = fs[i].block.by
              /\ fs[i].block.via # "none" =>
                    fs[i].prev = fs[i - 1].id /\ fs[i - 1].block.via = fs[i].block.via

(* A block's frame was found where the frame that wrote the block is.       *)
BlockPlaced(fs, i) ==
    fs[i].kind = "block" =>
        /\ fs[i].from.via # "none" => fs[i].outer \in Ids
        /\ \E j \in 1..(i - 1) :
              /\ fs[i].from.by = fs[j].id
              /\ fs[i].from.via = "frame" => fs[i].outer = fs[j].id /\ fs[i].self = fs[j].self

(* prev is what cfp was when the frame was pushed, and may be again.        *)
Placed(fs, i) ==
    /\ \A j \in 1..(i - 1) : fs[j].id # fs[i].id
    /\ fs[i].kind \notin {"main", "class"} => CfpPlaced(fs, i - 1, fs[i].prev)
    /\ WordPlaced(fs, i)
    /\ BlockPlaced(fs, i)

FramesInv ==
    /\ frames \in Seq(Frames) /\ Len(frames) <= MaxDepth
    /\ frames = <<>> => cfp = NoFrame
    /\ \A i \in DOMAIN frames : Placed(frames, i)
    /\ CfpPlaced(frames, Len(frames), cfp)

LEMMA Bounds ==
    /\ MaxDepth \in Nat /\ MaxDepth > 0
    /\ Ids \subseteq Nat \ {0} /\ NoFrame \notin Ids /\ Lost \notin Ids /\ Lost # NoFrame
BY CallFramesAssumption DEF Ids, NoFrame, Lost

(* Six words of each frame and cfp do not use up the names. *)
LEMMA Fresh ==
    ASSUME FramesInv, Len(frames) < MaxDepth
    PROVE  /\ NewId \in Ids /\ NewId # cfp
           /\ \A i \in DOMAIN frames : NewId \notin Mentioned(frames[i])
<1> DEFINE n == Len(frames)
           S == (1..n) \X (1..6)
           W(f, k) == IF k = 1 THEN f.id ELSE IF k = 2 THEN f.prev ELSE IF k = 3 THEN f.outer
                      ELSE IF k = 4 THEN f.self ELSE IF k = 5 THEN f.block.by ELSE f.from.by
           T == UNION {Mentioned(frames[i]) : i \in DOMAIN frames}
           g == [p \in S |-> W(frames[p[1]], p[2])]
<1>1. n \in Nat /\ MaxDepth \in Nat /\ n < MaxDepth /\ DOMAIN frames = 1..n
  BY CallFramesAssumption DEF FramesInv
<1>2. IsFiniteSet(S) /\ Cardinality(S) = n * 6
  <2>1. IsFiniteSet(1..n) /\ Cardinality(1..n) = n BY <1>1, UpTo
  <2>2. IsFiniteSet(1..6) /\ Cardinality(1..6) = 6 BY UpTo, 6 \in Nat
  <2>3. IsFiniteSet((1..n) \X (1..6)) /\ Cardinality((1..n) \X (1..6)) = n * 6
    <3> DEFINE A == 1..n
               B == 1..6
    <3>1. IsFiniteSet(A) /\ Cardinality(A) = n BY <2>1
    <3>2. IsFiniteSet(B) /\ Cardinality(B) = 6 BY <2>2
    <3> HIDE DEF A, B, n
    <3>3. IsFiniteSet(A \X B) /\ Cardinality(A \X B) = Cardinality(A) * Cardinality(B)
      BY ONLY <3>1, <3>2, FS_Product
    <3>4. Cardinality(A \X B) = n * 6 BY ONLY <3>1, <3>2, <3>3
    <3> QED BY <3>3, <3>4 DEF A, B
  <2> QED BY <2>3
<1>3. g \in Surjection(S, T)
  <2>1. \A i \in 1..n, k \in 1..6 : W(frames[i], k) \in Mentioned(frames[i])
    BY DEF Mentioned
  <2>2. \A p \in S : g[p] \in T BY <1>1, <2>1
  <2>3. ASSUME NEW t \in T PROVE \E p \in S : g[p] = t
    <3>1. PICK i \in 1..n : t \in Mentioned(frames[i]) BY <1>1
    <3>2. \E k \in 1..6 : t = W(frames[i], k)
      <4>1. /\ 1 \in 1..6 /\ 2 \in 1..6 /\ 3 \in 1..6 /\ 4 \in 1..6 /\ 5 \in 1..6 /\ 6 \in 1..6
        OBVIOUS
      <4> QED BY <3>1, <4>1 DEF Mentioned
    <3>3. PICK k \in 1..6 : t = W(frames[i], k) BY <3>2
    <3>4. <<i, k>> \in S /\ g[<<i, k>>] = t BY <3>3
    <3> QED BY <3>4
  <2> QED BY <2>2, <2>3 DEF Surjection
<1>4. IsFiniteSet(T) /\ Cardinality(T) <= n * 6 BY <1>2, <1>3, FS_Surjection
<1>5. InUse = T \cup {cfp} BY DEF InUse
<1> HIDE DEF n, S, T, g
<1>6. /\ IsFiniteSet(InUse) /\ Cardinality(InUse) \in Nat /\ Cardinality(T) \in Nat
      /\ Cardinality(InUse) <= Cardinality(T) + 1
  <2>1. Cardinality(T) \in Nat BY <1>4, FS_CardinalityType
  <2>2. /\ IsFiniteSet(T \cup {cfp})
        /\ Cardinality(T \cup {cfp}) = IF cfp \in T THEN Cardinality(T) ELSE Cardinality(T) + 1
    BY <1>4, FS_AddElement
  <2> QED BY <1>5, <2>1, <2>2
<1>7. IsFiniteSet(Ids) /\ Cardinality(Ids) = 6 * MaxDepth
  <2>1. 6 * MaxDepth \in Nat BY <1>1
  <2> QED BY <2>1, UpTo DEF Ids
<1>8. Ids \ InUse # {}
  <2> SUFFICES ASSUME Ids \subseteq InUse PROVE FALSE OBVIOUS
  <2>1. Cardinality(Ids) <= Cardinality(InUse) BY <1>6, FS_Subset
  <2> QED BY <1>1, <1>4, <1>6, <1>7, <2>1
<1>9. \E id \in Ids \ InUse : \A j \in Ids \ InUse : id <= j
  BY <1>8, Bounds, Least
<1>10. NewId \in Ids \ InUse BY <1>9 DEF NewId
<1> QED BY <1>5, <1>10 DEF T

LEMMA FrameTypes ==
    ASSUME NEW f \in Frames
    PROVE  /\ f.id \in Ids /\ f.prev \in Somewhere /\ f.outer \in Somewhere /\ f.self \in Somewhere
           /\ f.block \in Words /\ f.from \in Words
           /\ f.kind \in {"main", "method", "block", "class", "native"}
           /\ f.since \in {"entry", "call", "class", "accessor", "require"}
           /\ f.proxies \in BOOLEAN /\ f.invoked \in BOOLEAN
BY DEF Frames

(* Every frame is found by its id. *)
LEMMA Found ==
    ASSUME FramesInv, NEW i \in DOMAIN frames
    PROVE  frames[i].id \in Live /\ FrameOf(frames[i].id) = frames[i]
<1>1. frames[i].id \in Live BY DEF Live
<1>2. DOMAIN frames = 1..Len(frames) /\ Len(frames) \in Nat BY DEF FramesInv
<1>3. \A j \in DOMAIN frames : frames[j].id = frames[i].id => j = i
  BY <1>2 DEF FramesInv, Placed
<1>4. (CHOOSE j \in DOMAIN frames : frames[j].id = frames[i].id) = i BY <1>3
<1> QED BY <1>1, <1>4 DEF FrameOf
-----------------------------------------------------------------------------
(* Entering and leaving.                                                    *)

(* Two frames that differ only in what was done to cfp. *)
Alike(f, g) ==
    /\ f.id = g.id /\ f.kind = g.kind /\ f.prev = g.prev /\ f.outer = g.outer /\ f.self = g.self
    /\ f.block = g.block /\ f.from = g.from

LEMMA CfpPlacedKept ==
    ASSUME NEW fs, NEW gs, NEW n \in Nat, NEW c,
           \A i \in 1..n : fs[i].id = gs[i].id /\ fs[i].since = gs[i].since, CfpPlaced(fs, n, c)
    PROVE  CfpPlaced(gs, n, c)
<1>1. \A i \in 1..n : /\ Pending(fs[i]) <=> Pending(gs[i])
                      /\ LinkedFrame(fs[i]) <=> LinkedFrame(gs[i])
                      /\ Pointed(fs[i]) <=> Pointed(gs[i])
  BY DEF Pending, LinkedFrame, Pointed
<1>2. ASSUME NEW i \in 1..n, \A k \in (i + 1)..n : Pending(gs[k])
      PROVE  /\ c = gs[i].id <=> LinkedFrame(gs[i])
             /\ ~Pending(gs[i]) => \A k \in 1..(i - 1) : c # gs[k].id
  <2>1. \A k \in (i + 1)..n : Pending(fs[k]) BY <1>1, <1>2
  <2>2. /\ c = fs[i].id <=> LinkedFrame(fs[i])
        /\ ~Pending(fs[i]) => \A k \in 1..(i - 1) : c # fs[k].id
    BY <2>1 DEF CfpPlaced
  <2>3. \A k \in 1..(i - 1) : fs[k].id = gs[k].id OBVIOUS
  <2> QED BY <1>1, <2>2, <2>3
<1>3. c \in Somewhere /\ (n > 0 /\ Pointed(gs[n]) => c \in Ids) BY <1>1 DEF CfpPlaced
<1> QED BY <1>2, <1>3 DEF CfpPlaced

LEMMA PlacedKept ==
    ASSUME NEW fs, NEW gs, NEW i \in Nat \ {0}, \A j \in 1..i : Alike(fs[j], gs[j]),
           \A j \in 1..(i - 1) : fs[j].since = gs[j].since, Placed(fs, i)
    PROVE  Placed(gs, i)
<1>1. Alike(fs[i], gs[i]) /\ (i > 1 => Alike(fs[i - 1], gs[i - 1])) OBVIOUS
<1>2. \A j \in 1..(i - 1) : Alike(fs[j], gs[j]) OBVIOUS
<1>3. WordPlaced(gs, i) BY <1>1 DEF Placed, WordPlaced, Alike
<1>4. BlockPlaced(gs, i) BY <1>1, <1>2 DEF Placed, BlockPlaced, Alike
<1>5. ASSUME gs[i].kind \notin {"main", "class"} PROVE CfpPlaced(gs, i - 1, gs[i].prev)
  <2>1. i - 1 \in Nat /\ gs[i].prev = fs[i].prev /\ CfpPlaced(fs, i - 1, fs[i].prev)
    BY <1>1, <1>5 DEF Placed, Alike
  <2>2. \A j \in 1..(i - 1) : fs[j].id = gs[j].id /\ fs[j].since = gs[j].since
    BY <1>2 DEF Alike
  <2>3. CfpPlaced(gs, i - 1, fs[i].prev) BY <2>1, <2>2, CfpPlacedKept
  <2> QED BY <2>1, <2>3
<1>6. \A j \in 1..(i - 1) : gs[j].id # gs[i].id BY <1>1, <1>2 DEF Placed, Alike
<1> QED BY <1>3, <1>4, <1>5, <1>6 DEF Placed

(* The frame that is pushed is a new one, and cfp is it or, for a class     *)
(* body, is left as it was.                                                 *)
LEMMA Pushed ==
    ASSUME FramesInv, NEW f \in Frames, Len(frames) < MaxDepth, frames' = Append(frames, f),
           \A i \in DOMAIN frames : frames[i].id # f.id,
           f.kind \notin {"main", "class"} => f.prev = cfp,
           WordPlaced(Append(frames, f), Len(frames) + 1),
           BlockPlaced(Append(frames, f), Len(frames) + 1),
           \/ f.kind # "class" /\ f.since = "call" /\ cfp' = f.id
           \/ /\ f.kind = "class" /\ cfp' = cfp /\ cfp # f.id /\ frames # <<>>
              /\ Top.since # "require"
              /\ f.since = IF Top.since = "accessor" THEN "accessor" ELSE "entry"
    PROVE  FramesInv'
<1> DEFINE n == Len(frames)
           gs == Append(frames, f)
<1>1. /\ n \in Nat /\ frames \in Seq(Frames) /\ DOMAIN frames = 1..n /\ gs \in Seq(Frames)
      /\ Len(gs) = n + 1 /\ DOMAIN gs = 1..(n + 1) /\ gs[n + 1] = f
      /\ \A i \in 1..n : gs[i] = frames[i]
      /\ frames' = gs /\ WordPlaced(gs, n + 1) /\ BlockPlaced(gs, n + 1)
  BY DEF FramesInv
<1>2. n + 1 <= MaxDepth BY <1>1, Bounds
<1>3. (\A i \in 1..n : Placed(frames, i)) /\ CfpPlaced(frames, n, cfp) BY <1>1 DEF FramesInv
<1>4. n > 0 => Top = frames[n] BY DEF Top
<1>5. frames # <<>> => n > 0 BY <1>1
<1> HIDE DEF n, gs
<1>6. CfpPlaced(gs, n, cfp)
  <2>1. \A i \in 1..n : frames[i].id = gs[i].id /\ frames[i].since = gs[i].since BY <1>1
  <2> QED BY <1>1, <1>3, <2>1, CfpPlacedKept
<1>7. \A i \in 1..(n + 1) : Placed(gs, i)
  <2> SUFFICES ASSUME NEW i \in 1..(n + 1) PROVE Placed(gs, i) OBVIOUS
  <2>1. CASE i \in 1..n
    <3>1. \A j \in 1..i : Alike(frames[j], gs[j]) BY <1>1, <2>1 DEF Alike
    <3>2. \A j \in 1..(i - 1) : frames[j].since = gs[j].since BY <1>1, <2>1
    <3>3. i \in Nat \ {0} BY <1>1
    <3>4. Placed(frames, i) BY <1>3, <2>1
    <3> QED BY <3>1, <3>2, <3>3, <3>4, PlacedKept
  <2>2. CASE i = n + 1
    <3>1. (n + 1) - 1 = n BY <1>1
    <3>2. \A j \in 1..n : gs[j].id # f.id BY <1>1
    <3> QED BY <1>1, <1>6, <2>2, <3>1, <3>2 DEF Placed
  <2> QED BY <1>1, <2>1, <2>2
<1>8. f.id \in Ids /\ f.id \in Somewhere BY FrameTypes DEF Somewhere
<1>9. \A j \in 1..n : gs[j].id # f.id BY <1>1
<1>10. CASE f.kind # "class"
  <2>1. LinkedFrame(f) /\ ~Pending(f) /\ cfp' = f.id BY <1>10 DEF LinkedFrame, Pending
  <2>2. CfpPlaced(gs, n + 1, f.id)
    <3> SUFFICES ASSUME NEW i \in 1..(n + 1), \A k \in (i + 1)..(n + 1) : Pending(gs[k])
                 PROVE  /\ f.id = gs[i].id <=> LinkedFrame(gs[i])
                        /\ ~Pending(gs[i]) => \A k \in 1..(i - 1) : f.id # gs[k].id
      BY <1>8 DEF CfpPlaced
    <3>1. i = n + 1 BY <1>1, <2>1
    <3> QED BY <1>1, <1>9, <2>1, <3>1
  <2>3. n + 1 # 0 /\ Len(<<>>) = 0 BY <1>1
  <2> QED BY <1>1, <1>2, <1>7, <2>1, <2>2, <2>3 DEF FramesInv
<1>11. CASE f.kind = "class"
  <2>1. /\ cfp' = cfp /\ cfp # f.id /\ n > 0 /\ Top = gs[n] /\ Top.since # "require"
        /\ f.since = IF Top.since = "accessor" THEN "accessor" ELSE "entry"
    BY <1>1, <1>4, <1>5, <1>11
  <2>2. CfpPlaced(gs, n + 1, cfp)
    <3>1. ASSUME NEW i \in 1..(n + 1), \A k \in (i + 1)..(n + 1) : Pending(gs[k])
          PROVE  /\ cfp = gs[i].id <=> LinkedFrame(gs[i])
                 /\ ~Pending(gs[i]) => \A k \in 1..(i - 1) : cfp # gs[k].id
      <4>1. CASE i \in 1..n
        <5>1. \A k \in (i + 1)..n : Pending(gs[k]) BY <1>1, <3>1
        <5> QED BY <1>6, <4>1, <5>1 DEF CfpPlaced
      <4>2. CASE i = n + 1
        <5>1. cfp # gs[i].id /\ ~LinkedFrame(gs[i])
          BY <1>1, <2>1, <4>2 DEF LinkedFrame
        <5>2. ASSUME ~Pending(gs[i]) PROVE \A k \in 1..(i - 1) : cfp # gs[k].id
          <6>1. Top.since = "accessor" BY <1>1, <2>1, <4>2, <5>2 DEF Pending
          <6>2. ~Pending(gs[n]) /\ ~LinkedFrame(gs[n]) /\ n \in 1..n
            BY <1>1, <2>1, <6>1 DEF Pending, LinkedFrame
          <6>3. \A k \in (n + 1)..n : Pending(gs[k]) BY <1>1
          <6>4. cfp # gs[n].id /\ \A k \in 1..(n - 1) : cfp # gs[k].id
            BY <1>6, <6>2, <6>3 DEF CfpPlaced
          <6> QED BY <1>1, <4>2, <6>4
        <5> QED BY <5>1, <5>2
      <4> QED BY <1>1, <4>1, <4>2
    <3>2. Pointed(gs[n + 1]) => cfp \in Ids
      <4>1. Pointed(f) => Pointed(gs[n]) BY <2>1 DEF Pointed
      <4> QED BY <1>1, <1>6, <2>1, <4>1 DEF CfpPlaced
    <3>3. cfp \in Somewhere BY <1>6 DEF CfpPlaced
    <3> QED BY <3>1, <3>2, <3>3 DEF CfpPlaced
  <2>3. n + 1 # 0 /\ Len(<<>>) = 0 BY <1>1
  <2> QED BY <1>1, <1>2, <1>7, <2>1, <2>2, <2>3 DEF FramesInv
<1> QED BY <1>10, <1>11

(* What the caller goes on with: cfp is its frame again, what it was before *)
(* the call, none, or what a class body left.                               *)
LEMMA Returned ==
    ASSUME FramesInv, Len(frames) > 1, NEW caller, caller = frames[Len(frames) - 1],
           NEW gs, \A i \in 1..(Len(frames) - 2) : gs[i] = frames[i],
           gs[Len(frames) - 1].id = caller.id,
           gs[Len(frames) - 1].since = SinceAfter(Top, caller)
    PROVE  CfpPlaced(gs, Len(frames) - 1, CfpAfter(Top, caller))
<1> DEFINE n == Len(frames)
           c == CfpAfter(Top, caller)
           c2 == gs[n - 1]
<1> SUFFICES CfpPlaced(gs, n - 1, c) OBVIOUS
<1>1. /\ n \in Nat /\ n > 1 /\ DOMAIN frames = 1..n /\ Top = frames[n]
      /\ n - 1 \in 1..n /\ n - 1 \in Nat
      /\ \A i \in 1..n : frames[i] \in Frames
  BY DEF FramesInv, Top
<1>2. Top \in Frames /\ caller \in Frames BY <1>1
<1>3. Placed(frames, n) /\ Placed(frames, n - 1) /\ CfpPlaced(frames, n, cfp)
  BY <1>1 DEF FramesInv
<1>4. /\ \A i \in 1..(n - 2) : gs[i] = frames[i]
      /\ c2.id = caller.id /\ c2.since = SinceAfter(Top, caller) /\ caller = frames[n - 1]
  OBVIOUS
<1> HIDE DEF n
<1>5. \A k \in 1..(n - 2) : gs[k].id # c2.id
  <2>1. \A k \in 1..((n - 1) - 1) : frames[k].id # frames[n - 1].id BY <1>3 DEF Placed
  <2> QED BY <1>1, <1>4, <2>1
<1>6. caller.id \in Ids /\ caller.id \in Somewhere BY <1>2, FrameTypes DEF Somewhere
<1>7. \A k \in 1..(n - 1) : gs[k].id = frames[k].id BY <1>1, <1>4
<1>8. /\ cfp = Top.id <=> LinkedFrame(Top)
      /\ ~Pending(Top) => \A k \in 1..(n - 1) : cfp # frames[k].id
      /\ cfp \in Somewhere /\ (Pointed(Top) => cfp \in Ids)
  <2>1. \A k \in (n + 1)..n : Pending(frames[k]) BY <1>1
  <2>2. n \in 1..n BY <1>1
  <2> QED BY <1>1, <1>3, <2>1, <2>2 DEF CfpPlaced
<1>9. ASSUME ~Pending(c2), NEW d \in Somewhere, d = c2.id <=> LinkedFrame(c2),
             \A k \in 1..(n - 2) : d # gs[k].id, Pointed(c2) => d \in Ids
      PROVE  CfpPlaced(gs, n - 1, d)
  <2> SUFFICES ASSUME NEW i \in 1..(n - 1), \A k \in (i + 1)..(n - 1) : Pending(gs[k])
               PROVE  /\ d = gs[i].id <=> LinkedFrame(gs[i])
                      /\ ~Pending(gs[i]) => \A k \in 1..(i - 1) : d # gs[k].id
    BY <1>9 DEF CfpPlaced
  <2>1. i = n - 1 BY <1>1, <1>9
  <2>2. (n - 1) - 1 = n - 2 BY <1>1
  <2> QED BY <1>9, <2>1, <2>2
<1>10. CASE Top.kind = "main"
  <2>1. c = NoFrame /\ c2.since = "require" BY <1>4, <1>10 DEF CfpAfter, SinceAfter
  <2>2. \A k \in 1..(n - 1) : gs[k].id # NoFrame
    <3>1. \A k \in 1..(n - 1) : frames[k].id \in Ids BY <1>1, FrameTypes
    <3> QED BY <1>7, <3>1, Bounds
  <2>3. ~Pending(c2) /\ ~LinkedFrame(c2) /\ ~Pointed(c2)
    BY <2>1 DEF Pending, LinkedFrame, Pointed
  <2>4. NoFrame \in Somewhere BY DEF Somewhere
  <2>5. NoFrame # c2.id /\ \A k \in 1..(n - 2) : NoFrame # gs[k].id BY <1>1, <2>2
  <2>6. CfpPlaced(gs, n - 1, NoFrame) BY <1>9, <2>3, <2>4, <2>5
  <2> QED BY <2>1, <2>6
<1>11. CASE Top.kind = "class" /\ Top.since = "entry"
  <2>1. c = cfp /\ c2.since = caller.since BY <1>4, <1>11 DEF CfpAfter, SinceAfter
  <2>2. \A k \in 1..(n - 1) : gs[k].since = frames[k].since BY <1>1, <1>4, <2>1
  <2>3. CfpPlaced(frames, n - 1, cfp)
    <3> SUFFICES ASSUME NEW i \in 1..(n - 1), \A k \in (i + 1)..(n - 1) : Pending(frames[k])
                 PROVE  /\ cfp = frames[i].id <=> LinkedFrame(frames[i])
                        /\ ~Pending(frames[i]) => \A k \in 1..(i - 1) : cfp # frames[k].id
      BY <1>8, <1>11 DEF CfpPlaced, Pointed
    <3>1. Pending(frames[n]) BY <1>1, <1>11 DEF Pending
    <3>2. i \in 1..n /\ \A k \in (i + 1)..n : Pending(frames[k]) BY <1>1, <3>1
    <3> QED BY <1>3, <3>2 DEF CfpPlaced
  <2>4. CfpPlaced(gs, n - 1, cfp) BY <1>1, <1>7, <2>2, <2>3, CfpPlacedKept
  <2> QED BY <2>1, <2>4
<1>12. CASE Top.kind = "class" /\ Top.since # "entry"
  <2>1. c = cfp BY <1>12 DEF CfpAfter
  <2>2. /\ Top.since = "call" => c2.since = "class"
        /\ Top.since # "call" => c2.since = Top.since
    BY <1>4, <1>12 DEF SinceAfter
  <2>3. /\ ~Pending(c2) /\ ~LinkedFrame(c2) /\ (Pointed(c2) => Pointed(Top)) /\ ~Pending(Top)
    BY <1>12, <2>2 DEF Pending, LinkedFrame, Pointed
  <2>4. \A k \in 1..(n - 1) : cfp # gs[k].id BY <1>7, <1>8, <2>3
  <2>5. cfp # c2.id /\ \A k \in 1..(n - 2) : cfp # gs[k].id BY <1>1, <2>4
  <2>6. CfpPlaced(gs, n - 1, cfp) BY <1>8, <1>9, <2>3, <2>5
  <2> QED BY <2>1, <2>6
<1>13. CASE Top.kind \notin {"main", "class"} /\ Top.invoked
  <2>1. c = Top.prev /\ c2.since = caller.since BY <1>4, <1>13 DEF CfpAfter, SinceAfter
  <2>2. \A k \in 1..(n - 1) : gs[k].since = frames[k].since BY <1>1, <1>4, <2>1
  <2>3. CfpPlaced(frames, n - 1, Top.prev) BY <1>1, <1>3, <1>13 DEF Placed
  <2>4. CfpPlaced(gs, n - 1, Top.prev) BY <1>1, <1>7, <2>2, <2>3, CfpPlacedKept
  <2> QED BY <2>1, <2>4
<1>14. CASE Top.kind \notin {"main", "class"} /\ ~Top.invoked
  <2>1. c = caller.id /\ c2.since = "call" BY <1>4, <1>14 DEF CfpAfter, SinceAfter
  <2>2. ~Pending(c2) /\ LinkedFrame(c2) BY <2>1 DEF Pending, LinkedFrame
  <2>3. \A k \in 1..(n - 2) : caller.id # gs[k].id BY <1>4, <1>5
  <2>4. CfpPlaced(gs, n - 1, caller.id) BY <1>4, <1>6, <1>9, <2>2, <2>3
  <2> QED BY <2>1, <2>4
<1> QED BY <1>10, <1>11, <1>12, <1>13, <1>14

LEMMA SinceType ==
    ASSUME NEW f \in Frames, NEW g \in Frames
    PROVE  SinceAfter(f, g) \in {"entry", "call", "class", "accessor", "require"}
<1>1. /\ f.since \in {"entry", "call", "class", "accessor", "require"}
      /\ g.since \in {"entry", "call", "class", "accessor", "require"}
      /\ f.kind \in {"main", "method", "block", "class", "native"} /\ f.invoked \in BOOLEAN
  BY FrameTypes
<1>2. CASE f.kind = "main" BY <1>2 DEF SinceAfter
<1>3. CASE f.kind = "class" BY <1>1, <1>3 DEF SinceAfter
<1>4. CASE f.kind \notin {"main", "class"} /\ f.invoked BY <1>1, <1>4 DEF SinceAfter
<1>5. CASE f.kind \notin {"main", "class"} /\ ~f.invoked BY <1>5 DEF SinceAfter
<1> QED BY <1>2, <1>3, <1>4, <1>5

LEMMA Popped ==
    ASSUME FramesInv, frames # <<>>, Pop
    PROVE  FramesInv'
<1> DEFINE n == Len(frames)
           caller == frames[n - 1]
           since == SinceAfter(Top, caller)
           c2 == [caller EXCEPT !.since = since]
           gs == Append(SubSeq(frames, 1, n - 2), c2)
<1>1. /\ n \in Nat /\ n # 0 /\ n <= MaxDepth /\ DOMAIN frames = 1..n /\ Top = frames[n]
      /\ frames \in Seq(Frames) /\ \A i \in 1..n : frames[i] \in Frames
  BY DEF FramesInv, Top
<1>2. CASE n = 1
  <2>1. frames' = <<>> /\ cfp' = NoFrame BY <1>2 DEF Pop
  <2>2. <<>> \in Seq(Frames) /\ Len(<<>>) = 0 /\ DOMAIN <<>> = {} OBVIOUS
  <2>3. NoFrame \in Somewhere BY DEF Somewhere
  <2> QED BY <2>1, <2>2, <2>3, Bounds DEF FramesInv, CfpPlaced
<1>3. CASE n # 1
  <2>1. n > 1 /\ n - 1 \in 1..n /\ n - 1 \in Nat BY <1>1, <1>3
  <2>2. frames' = gs /\ cfp' = CfpAfter(Top, caller) BY <1>3 DEF Pop
  <2>3. caller \in Frames /\ Top \in Frames BY <1>1, <2>1
  <2>4. since \in {"entry", "call", "class", "accessor", "require"} BY <2>3, SinceType
  <2>5. since = SinceAfter(Top, caller) OBVIOUS
  <2> HIDE DEF since
  <2>6. c2 \in Frames /\ c2.since = since /\ Alike(caller, c2) BY <2>3, <2>4 DEF Frames, Alike
  <2> HIDE DEF c2
  <2>7. /\ gs \in Seq(Frames) /\ Len(gs) = n - 1 /\ DOMAIN gs = 1..(n - 1)
        /\ gs[n - 1] = c2 /\ \A i \in 1..(n - 2) : gs[i] = frames[i]
    <3> DEFINE below == SubSeq(frames, 1, n - 2)
    <3>1. n - 2 \in Nat /\ n - 2 <= n BY <1>1, <2>1
    <3>2. /\ below \in Seq(Frames) /\ Len(below) = n - 2
          /\ \A i \in 1..(n - 2) : below[i] = frames[i]
      BY <1>1, <3>1
    <3>3. gs = Append(below, c2) BY DEF gs
    <3> HIDE DEF below, gs, n
    <3>4. gs \in Seq(Frames) /\ Len(gs) = (n - 2) + 1 /\ gs[(n - 2) + 1] = c2 BY <2>6, <3>1, <3>2, <3>3
    <3>5. (n - 2) + 1 = n - 1 BY <1>1
    <3>6. \A i \in 1..(n - 2) : gs[i] = below[i] BY <2>6, <3>1, <3>2, <3>3
    <3>7. DOMAIN gs = 1..(n - 1) BY <3>4, <3>5
    <3> QED BY <3>2, <3>4, <3>5, <3>6, <3>7
  <2> HIDE DEF gs
  <2>8. \A i \in 1..(n - 1) : Placed(gs, i)
    <3> SUFFICES ASSUME NEW i \in 1..(n - 1) PROVE Placed(gs, i) OBVIOUS
    <3>1. \A j \in 1..i : Alike(frames[j], gs[j]) BY <2>1, <2>6, <2>7 DEF Alike
    <3>2. \A j \in 1..(i - 1) : frames[j].since = gs[j].since BY <2>1, <2>7
    <3>3. i \in Nat \ {0} /\ Placed(frames, i) BY <1>1, <2>1 DEF FramesInv
    <3> QED BY <3>1, <3>2, <3>3, PlacedKept
  <2>9. CfpPlaced(gs, n - 1, cfp')
    <3>1. gs[n - 1].id = caller.id /\ gs[n - 1].since = SinceAfter(Top, caller)
      BY <2>5, <2>6, <2>7 DEF Alike
    <3> QED BY <2>1, <2>2, <2>7, <3>1, Returned DEF n
  <2>10. frames' # <<>> /\ Len(frames') <= MaxDepth BY <1>1, <2>1, <2>2, <2>7, Bounds
  <2> QED BY <2>2, <2>7, <2>8, <2>9, <2>10 DEF FramesInv
<1> QED BY <1>2, <1>3

(* cfp while a function runs. *)
LEMMA TopFrame ==
    ASSUME FramesInv, frames # <<>>
    PROVE  /\ Top = frames[Len(frames)] /\ Len(frames) \in DOMAIN frames /\ Top \in Frames
           /\ Len(frames) \in Nat \ {0} /\ DOMAIN frames = 1..Len(frames)
           /\ cfp \in Somewhere /\ (Pointed(Top) => cfp \in Ids)
           /\ cfp = Top.id <=> LinkedFrame(Top)
           /\ Linked <=> LinkedFrame(Top)
<1>1. /\ Len(frames) \in Nat \ {0} /\ DOMAIN frames = 1..Len(frames)
      /\ Top = frames[Len(frames)] /\ Top \in Frames
  BY DEF FramesInv, Top
<1>2. \A k \in (Len(frames) + 1)..Len(frames) : Pending(frames[k]) BY <1>1
<1>3. CfpPlaced(frames, Len(frames), cfp) BY DEF FramesInv
<1>4. cfp = Top.id <=> LinkedFrame(Top) BY <1>1, <1>2, <1>3 DEF CfpPlaced
<1>5. cfp \in Somewhere /\ (Pointed(Top) => cfp \in Ids) BY <1>1, <1>3 DEF CfpPlaced
<1>6. Linked <=> LinkedFrame(Top) BY DEF Linked, LinkedFrame
<1> QED BY <1>1, <1>4, <1>5, <1>6

(* What becomes of a word that is passed on or yielded to. *)
LEMMA HandedWord ==
    ASSUME NEW w \in Words
    PROVE  /\ Handed(w) \in Words /\ Handed(w).depth = w.depth /\ Handed(w).by = w.by
           /\ Linked => Handed(w).via = w.via
           /\ ~Linked => Handed(w).via = "none"
<1>1. CASE Linked BY <1>1 DEF Handed
<1>2. CASE ~Linked
  <2>1. Handed(w) = [w EXCEPT !.via = "none"] BY <1>2 DEF Handed
  <2> QED BY <1>2, <2>1 DEF Words
<1> QED BY <1>1, <1>2

(* The walk of a word goes down the frames that passed the block on and     *)
(* ends where it was written.                                               *)
LEMMA WalkEnds ==
    ASSUME FramesInv, frames # <<>>, Top.block # NoWord
    PROVE  /\ Walk(Top.block) \in Somewhere
           /\ Handed(Top.block).via # "none" => Walk(Top.block) \in Ids
           /\ \E j \in DOMAIN frames :
                 /\ Top.block.by = frames[j].id
                 /\ Handed(Top.block).via = "frame" => Walk(Top.block) = frames[j].id
<1> DEFINE n == Len(frames)
           w == Top.block
           d == w.depth
           known == Handed(w).via # "none"
           at == Along(NextCfp, cfp)
           On(k) == k < d => /\ n - k \in 1..n
                             /\ frames[n - k].block.depth = d - k
                             /\ frames[n - k].block.by = w.by
                             /\ known => /\ at[k] = frames[n - k].id
                                         /\ frames[n - k].block.via = w.via
<1>1. /\ n \in Nat \ {0} /\ DOMAIN frames = 1..n /\ Top = frames[n] /\ Top \in Frames
      /\ cfp \in Somewhere /\ (Linked => cfp = Top.id)
  BY TopFrame
<1>2. WordPlaced(frames, n) BY <1>1 DEF FramesInv, Placed
<1>3. /\ Top.kind \in {"method", "native"} /\ d \in Nat /\ d >= 1 /\ w \in Words
  BY <1>1, <1>2, FrameTypes DEF WordPlaced, Words
<1>4. /\ known => Linked /\ w.via # "none"
      /\ Handed(w).via = "frame" => known /\ w.via = "frame"
  BY <1>3, HandedWord
<1>5. /\ at[0] = cfp
      /\ \A k \in Nat : at[k + 1] = NextCfp[at[k]]
      /\ \A k \in Nat : at[k] \in Somewhere
  <2>1. NextCfp \in [Somewhere -> Somewhere]
    <3>1. \A id \in Somewhere : id \in Live => FrameOf(id).prev \in Somewhere
      <4> SUFFICES ASSUME NEW i \in DOMAIN frames PROVE FrameOf(frames[i].id).prev \in Somewhere
        BY DEF Live
      <4>1. FrameOf(frames[i].id) = frames[i] /\ frames[i] \in Frames BY Found DEF FramesInv
      <4> QED BY <4>1, FrameTypes
    <3> QED BY <3>1 DEF NextCfp, Somewhere
  <2>2. \A id \in Somewhere : NextCfp[id] \in Somewhere BY <2>1
  <2> QED BY <1>1, <2>2, AlongDef
<1>6. \A i \in DOMAIN frames : NextCfp[frames[i].id] = frames[i].prev
  <2> SUFFICES ASSUME NEW i \in DOMAIN frames PROVE NextCfp[frames[i].id] = frames[i].prev OBVIOUS
  <2>1. frames[i].id \in Live /\ FrameOf(frames[i].id) = frames[i] BY Found
  <2>2. frames[i].id \in Somewhere BY FrameTypes DEF FramesInv, Somewhere
  <2> QED BY <2>1, <2>2 DEF NextCfp
<1>7. w = Top.block /\ d = w.depth /\ Walk(w) = at[d] BY DEF Walk
<1> HIDE DEF at, d, w, n, known
<1>8. \A i \in 1..n : WordPlaced(frames, i)
  BY <1>1 DEF FramesInv, Placed
<1>9. On(0)
  <2>1. n - 0 = n /\ d - 0 = d /\ n \in 1..n BY <1>1, <1>3
  <2>2. known => at[0] = frames[n].id BY <1>1, <1>4, <1>5
  <2>3. frames[n].block = w /\ w.depth = d BY <1>1, <1>7
  <2> QED BY <2>1, <2>2, <2>3
<1>10. ASSUME NEW k \in Nat, On(k), k < d
       PROVE  LET i == n - k
              IN  /\ i \in 1..n /\ i > 1 /\ (known => at[k + 1] = frames[i].prev)
                  /\ \/ /\ frames[i].block.depth = 1 /\ w.by = frames[i - 1].id
                        /\ known /\ w.via = "frame" => frames[i].prev = frames[i - 1].id
                        /\ known => frames[i].prev \in Ids
                     \/ /\ frames[i].block.depth > 1 /\ On(k + 1)
  <2> DEFINE i == n - k
  <2>1. /\ i \in 1..n /\ frames[i].block.depth = d - k /\ frames[i].block.by = w.by
        /\ known => at[k] = frames[i].id /\ frames[i].block.via = w.via /\ w.via # "none"
    BY <1>4, <1>10
  <2>2. frames[i].block # NoWord BY <1>3, <1>10, <2>1 DEF NoWord
  <2>3. WordPlaced(frames, i) BY <1>8, <2>1
  <2>4. i > 1 BY <2>2, <2>3 DEF WordPlaced
  <2>5. known => at[k + 1] = frames[i].prev BY <1>1, <1>5, <1>6, <2>1
  <2>6. CASE /\ frames[i].block.depth = 1 /\ frames[i].block.by = frames[i - 1].id
             /\ frames[i].block.via = "frame" => frames[i].prev = frames[i - 1].id
             /\ frames[i].block.via # "none" => frames[i].prev \in Ids
    BY <2>1, <2>4, <2>5, <2>6
  <2>7. CASE /\ frames[i].block.depth > 1
             /\ frames[i - 1].block.depth = frames[i].block.depth - 1
             /\ frames[i - 1].block.by = frames[i].block.by
             /\ frames[i].block.via # "none" =>
                   frames[i].prev = frames[i - 1].id /\ frames[i - 1].block.via = frames[i].block.via
    <3>1. i - 1 = n - (k + 1) /\ i - 1 \in 1..n /\ (d - k) - 1 = d - (k + 1)
      <4>1. n \in Nat /\ d \in Nat /\ k \in Nat /\ i \in 1..n /\ i > 1 BY <1>1, <1>3, <2>1, <2>4
      <4> QED BY ONLY <4>1
    <3>2. On(k + 1) BY <2>1, <2>5, <2>7, <3>1
    <3> HIDE DEF On
    <3> QED BY <2>1, <2>4, <2>5, <2>7, <3>2
  <2> QED BY <2>2, <2>3, <2>6, <2>7 DEF WordPlaced
<1>11. \A k \in Nat : On(k)
  <2> DEFINE T == {k \in Nat : ~On(k)}
  <2> HIDE DEF On
  <2> SUFFICES ASSUME T # {} PROVE FALSE OBVIOUS
  <2>1. PICK m \in T : \A k \in T : m <= k BY Least
  <2>2. m # 0 BY <1>9, <2>1
  <2>3. m \in Nat /\ m - 1 \in Nat /\ On(m - 1) /\ (m - 1) + 1 = m BY <2>1, <2>2
  <2>4. m < d BY <2>1 DEF On
  <2>5. m - 1 < d /\ d - (m - 1) > 1 BY <1>3, <2>3, <2>4
  <2>6. frames[n - (m - 1)].block.depth = d - (m - 1) BY <2>3, <2>5 DEF On
  <2>7. On((m - 1) + 1) BY <1>10, <2>3, <2>5, <2>6
  <2> QED BY <2>1, <2>3, <2>7
<1>12. d - 1 \in Nat /\ d - 1 < d /\ (d - 1) + 1 = d BY <1>3
<1>13. frames[n - (d - 1)].block.depth = 1 /\ n - (d - 1) \in 1..n
  BY <1>3, <1>11, <1>12
<1> DEFINE i == n - (d - 1)
<1>14. /\ i \in 1..n /\ i > 1 /\ w.by = frames[i - 1].id
       /\ known => at[d] = frames[i].prev /\ frames[i].prev \in Ids
       /\ known /\ w.via = "frame" => frames[i].prev = frames[i - 1].id
  BY <1>10, <1>11, <1>12, <1>13
<1>15. i - 1 \in DOMAIN frames /\ at[d] \in Somewhere
  <2>1. n \in Nat /\ d \in Nat /\ i \in 1..n /\ i > 1 BY <1>1, <1>3, <1>14
  <2>2. i - 1 \in 1..n BY ONLY <2>1
  <2> QED BY <1>1, <1>5, <2>1, <2>2
<1>16. /\ known <=> Handed(w).via # "none"
       /\ Handed(w).via = "frame" => at[d] = frames[i - 1].id
  BY <1>4, <1>14 DEF known
<1>17. /\ Walk(w) \in Somewhere
       /\ Handed(w).via # "none" => Walk(w) \in Ids
       /\ w.by = frames[i - 1].id /\ (Handed(w).via = "frame" => Walk(w) = frames[i - 1].id)
  BY <1>7, <1>14, <1>15, <1>16
<1> QED BY <1>7, <1>15, <1>17
-----------------------------------------------------------------------------
(* The actions.                                                             *)

LEMMA NewFrame ==
    ASSUME FramesInv, Len(frames) < MaxDepth,
           NEW kind \in {"main", "method", "block", "class", "native"},
           NEW outer \in Somewhere, NEW self \in Somewhere, NEW word \in Words, NEW from \in Words,
           NEW proxies \in BOOLEAN, NEW invoked \in BOOLEAN,
           NEW f, f = Frame(kind, outer, self, word, from, proxies, invoked)
    PROVE  /\ f \in Frames /\ f.id = NewId /\ f.kind = kind /\ f.prev = cfp /\ f.outer = outer
           /\ f.self = self /\ f.block = word /\ f.from = from /\ f.since = "call"
<1>1. NewId \in Ids BY Fresh
<1>2. cfp \in Somewhere BY DEF FramesInv, CfpPlaced
<1> QED BY <1>1, <1>2 DEF Frame, Frames

LEMMA NoWordType == NoWord \in Words
BY Bounds DEF NoWord, Words

LEMMA EntryPointStep ==
    ASSUME FramesInv, EntryPoint
    PROVE  FramesInv'
<1> DEFINE n == Len(frames)
           no == FALSE
           e == Frame("main", NoFrame, NewId, NoWord, NoWord, FALSE, FALSE)
           f == [e EXCEPT !.prev = NoFrame]
           gs == Append(frames, f)
<1>1. n \in Nat /\ n < MaxDepth /\ frames' = gs /\ cfp' = NewId BY DEF EntryPoint, FramesInv
<1>2. /\ NewId \in Ids /\ NoFrame \in Somewhere /\ NewId \in Somewhere
      /\ \A i \in DOMAIN frames : frames[i].id # NewId
  BY <1>1, Fresh DEF Somewhere, Mentioned
<1>3. /\ f \in Frames /\ f.id = NewId /\ f.kind = "main" /\ f.block = NoWord /\ f.since = "call"
  <2>1. e = Frame("main", NoFrame, NewId, NoWord, NoWord, no, no) /\ no \in BOOLEAN OBVIOUS
  <2> HIDE DEF e, no
  <2>2. /\ e \in Frames /\ e.id = NewId /\ e.kind = "main" /\ e.block = NoWord /\ e.since = "call"
    BY <2>1, <1>1, <1>2, NoWordType, NewFrame
  <2> QED BY <1>2, <2>2 DEF Frames
<1> HIDE DEF f
<1>4. gs[n + 1] = f BY DEF FramesInv
<1> HIDE DEF gs
<1>5. WordPlaced(gs, n + 1) /\ BlockPlaced(gs, n + 1)
  BY <1>3, <1>4 DEF WordPlaced, BlockPlaced
<1> QED BY <1>1, <1>2, <1>3, <1>5, Pushed DEF gs, n

LEMMA PushFrameStep ==
    ASSUME FramesInv, frames # <<>>, Top.since # "require", NEW kind \in {"method", "native"},
           NEW word, NEW proxies \in BOOLEAN, NEW invoked \in BOOLEAN,
           word = NoWord \/ word \in BlockOperands,
           PushFrame(kind, word, proxies, invoked)
    PROVE  FramesInv'
<1> DEFINE n == Len(frames)
           f == Frame(kind, NoFrame, NewId, word, NoWord, proxies, invoked)
           gs == Append(frames, f)
<1>1. /\ n \in Nat \ {0} /\ DOMAIN frames = 1..n /\ Top = frames[n] /\ Top \in Frames
      /\ Linked => cfp = Top.id
      /\ Top.since # "accessor" => cfp \in Ids
      /\ n \in DOMAIN frames
  BY TopFrame DEF Pointed
<1>2. n < MaxDepth /\ frames' = gs /\ cfp' = NewId BY DEF PushFrame
<1>3. /\ NewId \in Ids /\ NoFrame \in Somewhere /\ NewId \in Somewhere /\ NewId # cfp
      /\ \A i \in DOMAIN frames : frames[i].id # NewId
  BY <1>2, Fresh DEF Somewhere, Mentioned
<1>4. WordPlaced(frames, n) BY <1>1 DEF FramesInv, Placed
<1>5. /\ word \in Words
      /\ word # NoWord =>
            /\ word.depth < n + 1
            /\ \/ /\ word.depth = 1 /\ word.by = Top.id
                  /\ word.via = "frame" => cfp = Top.id
                  /\ word.via # "none" => cfp \in Ids
               \/ /\ word.depth > 1 /\ Top.block.depth = word.depth - 1
                  /\ Top.block.by = word.by
                  /\ word.via # "none" => cfp = Top.id /\ Top.block.via = word.via
  <2>1. CASE word = NoWord BY <2>1, NoWordType
  <2>2. CASE word = Literal
    <3>1. Literal.depth = 1 /\ Literal.by = Top.id /\ Literal.via = Via
      BY DEF Literal
    <3>2. /\ Via \in {"frame", "class", "none"}
          /\ Via = "frame" => Linked
          /\ Via # "none" => Top.since # "accessor"
      BY DEF Via, Linked
    <3>3. Literal \in Words
      <4>1. 1 \in 0..MaxDepth /\ Top.id \in Ids BY <1>1, Bounds, FrameTypes
      <4> QED BY <3>2, <4>1 DEF Literal, Words
    <3> QED BY <1>1, <2>2, <3>1, <3>2, <3>3
  <2>3. CASE word = Proxy /\ Top.block # NoWord
    <3> DEFINE h == Handed(Top.block)
    <3>1. Top.block \in Words BY <1>1, FrameTypes
    <3>2. Top.block.depth < n /\ Top.block.depth >= 1 /\ Top.block.depth \in Nat
      BY <1>1, <1>4, <2>3, <3>1 DEF WordPlaced, Words
    <3>3. /\ h \in Words /\ h.depth = Top.block.depth /\ h.by = Top.block.by
          /\ h.via # "none" => Linked /\ h.via = Top.block.via
      BY <3>1, HandedWord
    <3>4. Proxy = [h EXCEPT !.depth = @ + 1] BY DEF Proxy
    <3> HIDE DEF h
    <3>5. Top.block.depth + 1 \in 0..MaxDepth BY <1>1, <1>2, <3>2, Bounds
    <3>6. /\ Proxy \in Words /\ Proxy.depth = Top.block.depth + 1 /\ Proxy.by = h.by
          /\ Proxy.via = h.via
      BY <3>3, <3>4, <3>5 DEF Words
    <3> QED BY <1>1, <2>3, <3>2, <3>3, <3>6
  <2> QED BY <2>1, <2>2, <2>3 DEF BlockOperands
<1>6. /\ f \in Frames /\ f.id = NewId /\ f.kind = kind /\ f.prev = cfp /\ f.block = word
      /\ f.since = "call"
  <2>1. f = Frame(kind, NoFrame, NewId, word, NoWord, proxies, invoked) OBVIOUS
  <2> HIDE DEF f
  <2> QED BY <2>1, <1>2, <1>3, <1>5, NoWordType, NewFrame
<1> HIDE DEF f
<1>7. /\ gs[n + 1] = f /\ \A i \in 1..n : gs[i] = frames[i]
  BY DEF FramesInv
<1> HIDE DEF gs
<1>8. WordPlaced(gs, n + 1)
  <2>1. gs[(n + 1) - 1] = Top /\ gs[n + 1] = f /\ n + 1 > 1 BY <1>1, <1>7
  <2> QED BY <1>5, <1>6, <2>1 DEF WordPlaced
<1>9. BlockPlaced(gs, n + 1) BY <1>6, <1>7 DEF BlockPlaced
<1> QED BY <1>2, <1>3, <1>6, <1>8, <1>9, Pushed DEF gs, n

LEMMA PushBlockStep ==
    ASSUME FramesInv, frames # <<>>, Top.block # NoWord,
           NEW proxies \in BOOLEAN, NEW invoked \in BOOLEAN,
           PushBlock(Walk(Top.block), Handed(Top.block), proxies, invoked)
    PROVE  FramesInv'
<1> DEFINE n == Len(frames)
           w == Handed(Top.block)
           outer == Walk(Top.block)
           self == IF outer \in Live THEN FrameOf(outer).self ELSE Lost
           f == Frame("block", outer, self, NoWord, w, proxies, invoked)
           gs == Append(frames, f)
<1>1. /\ n \in Nat \ {0} /\ DOMAIN frames = 1..n /\ Top = frames[n] /\ Top \in Frames
      /\ n \in DOMAIN frames
  BY TopFrame
<1>2. n < MaxDepth /\ frames' = gs /\ cfp' = NewId BY DEF PushBlock
<1>3. Top.block \in Words BY <1>1, FrameTypes
<1>4. w \in Words /\ w.by = Top.block.by BY <1>3, HandedWord
<1>5. /\ outer \in Somewhere /\ (w.via # "none" => outer \in Ids)
      /\ \E j \in DOMAIN frames : /\ Top.block.by = frames[j].id
                                  /\ w.via = "frame" => outer = frames[j].id
  BY WalkEnds
<1>6. PICK j \in DOMAIN frames : w.by = frames[j].id /\ (w.via = "frame" => outer = frames[j].id)
  BY <1>4, <1>5
<1>7. \A i \in DOMAIN frames : frames[i].id \in Live /\ FrameOf(frames[i].id) = frames[i]
  BY Found
<1>8. w.via = "frame" => self = frames[j].self BY <1>6, <1>7
<1>9. self \in Somewhere
  <2>1. CASE outer \in Live
    <3>1. PICK i \in DOMAIN frames : frames[i].id = outer BY <2>1 DEF Live
    <3>2. frames[i] \in Frames BY DEF FramesInv
    <3> QED BY <1>7, <2>1, <3>1, <3>2, FrameTypes
  <2>2. CASE outer \notin Live BY <2>2 DEF Somewhere
  <2> QED BY <2>1, <2>2
<1> HIDE DEF outer, self
<1>10. /\ NewId \in Ids /\ \A i \in DOMAIN frames : frames[i].id # NewId
  BY <1>2, Fresh DEF Mentioned
<1>11. /\ f \in Frames /\ f.id = NewId /\ f.kind = "block" /\ f.prev = cfp /\ f.outer = outer
       /\ f.self = self /\ f.block = NoWord /\ f.from = w /\ f.since = "call"
  <2>1. f = Frame("block", outer, self, NoWord, w, proxies, invoked) OBVIOUS
  <2> HIDE DEF f, w
  <2> QED BY <2>1, <1>2, <1>4, <1>5, <1>9, NoWordType, NewFrame
<1> HIDE DEF f, w
<1>12. /\ gs[n + 1] = f /\ \A i \in 1..n : gs[i] = frames[i]
  BY DEF FramesInv
<1> HIDE DEF gs
<1>13. BlockPlaced(gs, n + 1)
  <2>1. j \in 1..((n + 1) - 1) /\ gs[j] = frames[j] BY <1>1, <1>12
  <2> QED BY <1>5, <1>6, <1>8, <1>11, <1>12, <2>1 DEF BlockPlaced
<1>14. WordPlaced(gs, n + 1) BY <1>11, <1>12 DEF WordPlaced
<1> QED BY <1>2, <1>10, <1>11, <1>13, <1>14, Pushed DEF gs, n

LEMMA OpenClassStep ==
    ASSUME FramesInv, frames # <<>>, OpenClass
    PROVE  FramesInv'
<1> DEFINE n == Len(frames)
           no == FALSE
           e == Frame("class", NoFrame, NewId, NoWord, NoWord, FALSE, FALSE)
           since == IF Top.since = "accessor" THEN "accessor" ELSE "entry"
           f == [e EXCEPT !.prev = Lost, !.since = since]
           gs == Append(frames, f)
<1>1. /\ n \in Nat \ {0} /\ DOMAIN frames = 1..n /\ Top = frames[n] /\ n \in DOMAIN frames
  BY TopFrame
<1>2. /\ n < MaxDepth /\ frames' = gs /\ cfp' = cfp /\ Top.since # "require"
  BY DEF OpenClass, Ruby, Running
<1>3. /\ NewId \in Ids /\ NoFrame \in Somewhere /\ NewId \in Somewhere /\ NewId # cfp
      /\ \A i \in DOMAIN frames : frames[i].id # NewId
  BY <1>2, Fresh DEF Somewhere, Mentioned
<1>4. /\ f \in Frames /\ f.id = NewId /\ f.kind = "class" /\ f.block = NoWord
      /\ f.since = IF Top.since = "accessor" THEN "accessor" ELSE "entry"
  <2>1. e = Frame("class", NoFrame, NewId, NoWord, NoWord, no, no) /\ no \in BOOLEAN OBVIOUS
  <2> HIDE DEF e, no
  <2>2. /\ e \in Frames /\ e.id = NewId /\ e.kind = "class" /\ e.block = NoWord /\ e.since = "call"
    BY <1>2, <1>3, <2>1, NoWordType, NewFrame
  <2>3. Lost \in Somewhere BY DEF Somewhere
  <2>4. since \in {"entry", "call", "class", "accessor", "require"} OBVIOUS
  <2> QED BY <2>2, <2>3, <2>4 DEF Frames
<1> HIDE DEF f, since
<1>5. gs[n + 1] = f BY DEF FramesInv
<1> HIDE DEF gs
<1>6. WordPlaced(gs, n + 1) /\ BlockPlaced(gs, n + 1)
  BY <1>4, <1>5 DEF WordPlaced, BlockPlaced
<1> QED BY <1>2, <1>3, <1>4, <1>6, Pushed DEF gs, n

LEMMA AccessorStep ==
    ASSUME FramesInv, frames # <<>>, InvokeAccessor
    PROVE  FramesInv' /\ frames' # <<>>
<1> DEFINE n == Len(frames)
           f == [frames[n] EXCEPT !.since = "accessor"]
           gs == [frames EXCEPT ![n].since = "accessor"]
<1>1. /\ n \in Nat \ {0} /\ DOMAIN frames = 1..n /\ frames[n] \in Frames /\ frames \in Seq(Frames)
      /\ n <= MaxDepth /\ \A i \in 1..n : frames[i] \in Frames /\ Placed(frames, i)
  BY TopFrame DEF FramesInv
<1>2. frames' = gs /\ cfp' = Lost BY DEF InvokeAccessor
<1>3. f \in Frames /\ f.since = "accessor" /\ Alike(frames[n], f) BY <1>1 DEF Frames, Alike
<1>4. gs = [frames EXCEPT ![n] = f] /\ n = Len(frames) OBVIOUS
<1> HIDE DEF f, gs, n
<1>5. /\ gs \in Seq(Frames) /\ Len(gs) = n /\ DOMAIN gs = 1..n /\ gs[n] = f
      /\ \A i \in 1..(n - 1) : gs[i] = frames[i]
  <2>1. gs = [i \in 1..n |-> IF i = n THEN f ELSE frames[i]] BY ONLY <1>1, <1>4
  <2>2. \A i \in 1..n : gs[i] \in Frames BY <1>1, <1>3, <2>1
  <2>3. gs \in [1..n -> Frames] BY <2>1, <2>2
  <2>4. gs \in Seq(Frames) /\ DOMAIN gs = 1..n BY <1>1, <2>3
  <2>5. Len(gs) = n BY <1>1, <2>4
  <2> QED BY <1>1, <2>1, <2>4, <2>5
<1>6. ASSUME NEW i \in 1..n PROVE Placed(gs, i)
  <2>1. \A j \in 1..i : Alike(frames[j], gs[j])
    <3> SUFFICES ASSUME NEW j \in 1..i PROVE Alike(frames[j], gs[j]) OBVIOUS
    <3>1. CASE j = n BY <1>3, <1>5, <3>1
    <3>2. CASE j # n BY <1>1, <1>5, <3>2 DEF Alike
    <3> QED BY <3>1, <3>2
  <2>2. \A j \in 1..(i - 1) : frames[j].since = gs[j].since BY <1>1, <1>5
  <2>3. i \in Nat \ {0} /\ Placed(frames, i) BY <1>1
  <2> QED BY <2>1, <2>2, <2>3, PlacedKept
<1>7. CfpPlaced(gs, n, Lost)
  <2>1. ~Pending(gs[n]) /\ ~LinkedFrame(gs[n]) /\ ~Pointed(gs[n])
    BY <1>3, <1>5 DEF Pending, LinkedFrame, Pointed
  <2>2. \A i \in 1..n : gs[i].id # Lost
    <3>1. \A i \in 1..n : gs[i] \in Frames BY <1>5
    <3>2. \A i \in 1..n : gs[i].id \in Ids BY <3>1, FrameTypes
    <3> QED BY <3>2, Bounds
  <2>3. Lost \in Somewhere BY DEF Somewhere
  <2>4. ASSUME NEW i \in 1..n, \A k \in (i + 1)..n : Pending(gs[k])
        PROVE  /\ Lost = gs[i].id <=> LinkedFrame(gs[i])
               /\ ~Pending(gs[i]) => \A k \in 1..(i - 1) : Lost # gs[k].id
    <3>1. i = n BY <1>1, <2>1, <2>4
    <3> QED BY <1>1, <2>1, <2>2, <3>1
  <2> QED BY <2>1, <2>3, <2>4 DEF CfpPlaced
<1>8. gs # <<>> BY <1>1, <1>5
<1> QED BY <1>1, <1>2, <1>5, <1>6, <1>7, <1>8 DEF FramesInv, n

StatusInv ==
    /\ status \in {"running", "entering", "error", "idle", "dead"}
    /\ status = "entering" <=> entered # <<>>
    /\ frames = <<>> <=> status = "idle"

StackInv == FramesInv /\ StatusInv

(* Neither frames nor cfp is touched. *)
LEMMA FramesKept ==
    ASSUME FramesInv, UNCHANGED <<frames, cfp>>
    PROVE  FramesInv'
<1>1. \A i \in DOMAIN frames : Placed(frames, i)' <=> Placed(frames, i)
  BY DEF Placed, CfpPlaced, WordPlaced, BlockPlaced
<1>2. CfpPlaced(frames, Len(frames), cfp)' <=> CfpPlaced(frames, Len(frames), cfp)
  BY DEF CfpPlaced
<1> QED BY <1>1, <1>2 DEF FramesInv

LEMMA FunctionTypes == Deep \subseteq Functions /\ \A f \in Functions : f.block \in BOOLEAN
BY CallFramesAssumption DEF WellFormed

(* A function of the right kind is called. *)
LEMMA CalledFunctions ==
    ASSUME NEW is_block, NEW f \in Callable(is_block)
    PROVE  f.block \in BOOLEAN
BY FunctionTypes DEF Callable

LEMMA EntersSomething ==
    ASSUME NEW tier, NEW f, NEW args, NEW word, Enters(tier, f, args, word)
    PROVE  status' = "entering" /\ entered' # <<>>
<1> DEFINE b == IF word = NoWord THEN NoBlock ELSE <<"block">>
           e == [tier |-> tier, f |-> f, args |-> args, block |-> b,
                 params |-> Enter(tier, f, args, b)]
<1>1. status' = "entering" /\ entered' = e BY DEF Enters
<1>2. DOMAIN e # {} /\ DOMAIN <<>> = {}
  <2>1. "tier" \in DOMAIN e OBVIOUS
  <2> QED BY <2>1
<1> QED BY <1>1, <1>2

LEMMA StackStep == StackInv /\ [Next]_vars => StackInv'
<1> SUFFICES ASSUME StackInv, [Next]_vars PROVE StackInv' OBVIOUS
<1> USE DEF StackInv
<1>1. ASSUME FramesInv', frames # <<>>, frames' # <<>>, status' \notin {"idle", "entering"},
             status' \in {"running", "error", "dead"}, entered' = <<>>
      PROVE  StackInv'
  BY <1>1 DEF StatusInv
<1>2. ASSUME FramesInv', frames' # <<>>, status' = "entering", entered' # <<>> PROVE StackInv'
  BY <1>2 DEF StatusInv
<1>3. \A f : Append(frames, f) # <<>>
  <2> SUFFICES ASSUME NEW f PROVE Append(frames, f) # <<>> OBVIOUS
  <2>1. frames \in Seq(Frames) BY DEF FramesInv
  <2>2. Len(Append(frames, f)) = Len(frames) + 1 /\ Len(frames) \in Nat /\ Len(<<>>) = 0 BY <2>1
  <2> QED BY <2>2
<1>4. status \in {"running", "error"} => frames # <<>> /\ entered = <<>>
  BY DEF StatusInv
<1> DEFINE no == FALSE
           yes == TRUE
<1>5. CASE Eval \/ Require
  <2>1. entered = <<>> /\ entered' = <<>> /\ status' = "running" /\ EntryPoint
    BY <1>4, <1>5 DEF Eval, Require, Running, StatusInv
  <2>2. FramesInv' BY <2>1, EntryPointStep
  <2>3. frames' # <<>> BY <1>3, <2>1 DEF EntryPoint
  <2> QED BY <2>1, <2>2, <2>3 DEF StatusInv
<1>6. CASE CallMethod
  <2>1. frames # <<>> /\ Top.since # "require" /\ entered = <<>>
    BY <1>4, <1>6 DEF CallMethod, Ruby, Running
  <2>2. PICK word \in BlockOperands, f \in Callable(FALSE), args \in Arguable(FALSE),
             tier \in Tiers(FALSE) :
          IF CheckArg(f, Len(args))
          THEN PushFrame("method", word, f.block, FALSE) /\ Enters(tier, f, args, word)
          ELSE status' = "error" /\ UNCHANGED <<frames, cfp, entered>>
    BY <1>6 DEF CallMethod
  <2>3. CASE PushFrame("method", word, f.block, no) /\ Enters(tier, f, args, word)
    <3>1. f.block \in BOOLEAN /\ no \in BOOLEAN BY CalledFunctions
    <3> HIDE DEF no
    <3>2. FramesInv' BY <2>1, <2>3, <3>1, PushFrameStep
    <3>3. frames' # <<>> BY <1>3, <2>3 DEF PushFrame
    <3> QED BY <1>2, <2>3, <3>2, <3>3, EntersSomething
  <2>4. CASE status' = "error" /\ UNCHANGED <<frames, cfp, entered>>
    BY <1>1, <2>1, <2>4, FramesKept
  <2> QED BY <2>2, <2>3, <2>4
<1>7. CASE CallNative
  <2>1. frames # <<>> /\ Top.since # "require" /\ entered' = <<>> /\ status' = "running"
    BY <1>4, <1>7 DEF CallNative, Ruby, Running
  <2>2. PICK word \in BlockOperands : PushFrame("native", word, no, no) BY <1>7 DEF CallNative
  <2>3. no \in BOOLEAN OBVIOUS
  <2> HIDE DEF no
  <2>4. FramesInv' BY <2>1, <2>2, <2>3, PushFrameStep
  <2>5. frames' # <<>> BY <1>3, <2>2 DEF PushFrame
  <2> QED BY <1>1, <2>1, <2>4, <2>5
<1>8. CASE Invoke
  <2>1. frames # <<>> /\ Top.since # "require" BY <1>4, <1>8 DEF Invoke, Running
  <2>2. PICK f \in Callable(FALSE), args \in Arguable(FALSE), tier \in Tiers(FALSE) :
          PushFrame("method", NoWord, f.block, yes) /\ Enters(tier, f, args, NoWord)
    BY <1>8 DEF Invoke
  <2>3. f.block \in BOOLEAN /\ yes \in BOOLEAN BY CalledFunctions
  <2> HIDE DEF yes
  <2>4. FramesInv' BY <2>1, <2>2, <2>3, PushFrameStep
  <2>5. frames' # <<>> BY <1>3, <2>2 DEF PushFrame
  <2> QED BY <1>2, <2>2, <2>4, <2>5, EntersSomething
<1>9. CASE InvokeNative
  <2>1. /\ frames # <<>> /\ Top.since # "require" /\ entered' = <<>> /\ status' = "running"
        /\ PushFrame("native", NoWord, no, yes)
    BY <1>4, <1>9 DEF InvokeNative, Running
  <2>2. no \in BOOLEAN /\ yes \in BOOLEAN OBVIOUS
  <2> HIDE DEF no, yes
  <2>3. FramesInv' BY <2>1, <2>2, PushFrameStep
  <2>4. frames' # <<>> BY <1>3, <2>1 DEF PushFrame
  <2> QED BY <1>1, <2>1, <2>3, <2>4
<1>10. CASE InvokeAccessor
  <2>1. frames # <<>> /\ entered' = <<>> /\ status' \in {"running", "error"}
    BY <1>4, <1>10 DEF InvokeAccessor, Running
  <2> QED BY <1>1, <1>10, <2>1, AccessorStep
<1>18. CASE YieldTo
  <2>1. frames # <<>> /\ Top.block # NoWord BY <1>4, <1>18 DEF YieldTo, Running
  <2> DEFINE native == Top.kind = "native"
  <2>2. PICK f \in Callable(TRUE), args \in Arguable(TRUE), tier \in Tiers(TRUE) :
          /\ PushBlock(Walk(Top.block), Handed(Top.block), f.block, native)
          /\ Enters(tier, f, args, NoWord)
    BY <1>18 DEF YieldTo
  <2>3. f.block \in BOOLEAN /\ native \in BOOLEAN BY CalledFunctions
  <2> HIDE DEF native
  <2>4. FramesInv' BY <2>1, <2>2, <2>3, PushBlockStep
  <2>5. frames' # <<>> BY <1>3, <2>2 DEF PushBlock
  <2> QED BY <1>2, <2>2, <2>4, <2>5, EntersSomething
<1>19. CASE YieldNowhere
  BY <1>1, <1>4, <1>19, FramesKept DEF YieldNowhere, Running
<1>11. CASE Start
  <2>1. /\ UNCHANGED <<frames, cfp>> /\ entered' = <<>> /\ frames # <<>>
        /\ status' \in {"dead", "error", "running"}
    BY <1>11 DEF Start, StatusInv
  <2> QED BY <1>1, <2>1, FramesKept
<1>12. CASE OpenClass
  <2>1. frames # <<>> /\ entered' = <<>> /\ status' = "running"
    BY <1>4, <1>12 DEF OpenClass, Ruby, Running
  <2>2. FramesInv' BY <1>12, <2>1, OpenClassStep
  <2>3. frames' # <<>> BY <1>3, <1>12 DEF OpenClass
  <2> QED BY <1>1, <2>1, <2>2, <2>3
<1>13. ASSUME status \in {"running", "error"}, Pop, status' \in {"idle", "running", "error"},
              status' = "idle" <=> Len(frames) = 1, UNCHANGED entered
       PROVE  StackInv'
  <2>1. frames # <<>> /\ entered = <<>> BY <1>4, <1>13
  <2>2. FramesInv' BY <1>13, <2>1, Popped
  <2>3. frames' = <<>> <=> Len(frames) = 1
    <3>1. CASE Len(frames) = 1 BY <1>13, <3>1 DEF Pop
    <3>2. CASE Len(frames) # 1
      <4>1. PICK c : frames' = Append(SubSeq(frames, 1, Len(frames) - 2), c)
        BY <1>13, <3>2 DEF Pop
      <4>2. /\ Len(frames) \in Nat /\ Len(frames) - 2 \in Nat /\ frames \in Seq(Frames)
        BY <2>1, <3>2 DEF FramesInv
      <4>3. SubSeq(frames, 1, Len(frames) - 2) \in Seq(Frames) BY <4>2
      <4>4. Len(frames') = Len(SubSeq(frames, 1, Len(frames) - 2)) + 1 BY <4>1, <4>3
      <4>5. Len(frames') # 0 /\ Len(<<>>) = 0 BY <4>3, <4>4
      <4> QED BY <3>2, <4>5
    <3> QED BY <3>1, <3>2
  <2> QED BY <1>13, <2>1, <2>2, <2>3 DEF StatusInv
<1>14. CASE Return BY <1>13, <1>14 DEF Return
<1>15. CASE Raise BY <1>1, <1>4, <1>15, FramesKept DEF Raise, Running
<1>16. CASE Unwind BY <1>13, <1>16 DEF Unwind
<1>17. CASE UNCHANGED vars BY <1>17, FramesKept DEF vars, StatusInv
<1> QED
  BY <1>5, <1>6, <1>7, <1>8, <1>9, <1>10, <1>11, <1>12, <1>14, <1>15, <1>16, <1>17, <1>18, <1>19
  DEF Next

LEMMA StackInit == Init => StackInv
<1> SUFFICES ASSUME Init PROVE StackInv OBVIOUS
<1>1. frames = <<>> /\ cfp = NoFrame /\ status = "idle" /\ entered = <<>> BY DEF Init
<1>2. <<>> \in Seq(Frames) /\ Len(<<>>) = 0 /\ DOMAIN <<>> = {} OBVIOUS
<1>3. NoFrame \in Somewhere BY DEF Somewhere
<1>4. FramesInv BY <1>1, <1>2, <1>3, Bounds DEF FramesInv, CfpPlaced
<1> QED BY <1>1, <1>4 DEF StackInv, StatusInv
-----------------------------------------------------------------------------
(* What the invariant says.                                                 *)

LEMMA InvTypeOK == StackInv => TypeOK
BY DEF StackInv, FramesInv, StatusInv, TypeOK, CfpPlaced

LEMMA InvCfp == StackInv => CfpIsTheRunningFrame
<1> SUFFICES ASSUME StackInv, frames # <<>> PROVE cfp = Top.id <=> Linked
  BY DEF CfpIsTheRunningFrame
<1> QED BY TopFrame DEF StackInv

LEMMA InvWalks == StackInv => WalksEndAtFrames
BY DEF StackInv, FramesInv, Placed, BlockPlaced, WalksEndAtFrames

LEMMA InvBlocks == StackInv => BlocksRunWhereWritten
<1> SUFFICES ASSUME StackInv, NEW i \in DOMAIN frames,
                    \A m \in Levels(frames[i]) : FrameOf(Scope(frames[i])[m - 1]).from.via = "frame",
                    NEW n \in Levels(frames[i])
             PROVE  /\ Scope(frames[i])[n] \in Live
                    /\ OuterAt(frames[i], n) = Scope(frames[i])[n]
                    /\ frames[i].self = FrameOf(Scope(frames[i])[n]).self
  BY DEF BlocksRunWhereWritten
<1> DEFINE f == frames[i]
           scope == Along(Writer, f.id)
           out == Along(Outer, f.id)
           Meets(m) == m <= n => \E j \in DOMAIN frames :
                           /\ scope[m] = frames[j].id /\ out[m] = frames[j].id
                           /\ frames[j].self = f.self
<1>1. FramesInv /\ DOMAIN frames = 1..Len(frames) /\ Len(frames) \in Nat
      /\ \A j \in DOMAIN frames : frames[j] \in Frames
  BY DEF StackInv, FramesInv
<1>2. \A j \in DOMAIN frames : frames[j].id \in Live /\ FrameOf(frames[j].id) = frames[j]
  BY <1>1, Found
<1>3. \A j \in DOMAIN frames : /\ frames[j].id \in Somewhere /\ frames[j].outer \in Somewhere
                               /\ frames[j].from.by \in Somewhere
  <2> SUFFICES ASSUME NEW j \in DOMAIN frames
               PROVE  /\ frames[j].id \in Somewhere /\ frames[j].outer \in Somewhere
                      /\ frames[j].from.by \in Somewhere
    OBVIOUS
  <2>1. frames[j] \in Frames BY <1>1
  <2> QED BY <2>1, FrameTypes DEF Words, Somewhere
<1>4. \A id \in Live : \E j \in DOMAIN frames : id = frames[j].id BY DEF Live
<1>5. \A id \in Somewhere : Writer[id] \in Somewhere /\ Outer[id] \in Somewhere
  BY <1>2, <1>3, <1>4 DEF Writer, Outer, Somewhere
<1>6. \A j \in DOMAIN frames : /\ Writer[frames[j].id] = frames[j].from.by
                               /\ Outer[frames[j].id] = frames[j].outer
  BY <1>2, <1>3 DEF Writer, Outer
<1>7. f.id \in Somewhere BY <1>3
<1>8. scope[0] = f.id /\ \A m \in Nat : scope[m + 1] = Writer[scope[m]]
  BY <1>5, <1>7, AlongDef
<1>9. out[0] = f.id /\ \A m \in Nat : out[m + 1] = Outer[out[m]]
  BY <1>5, <1>7, AlongDef
<1>10. Scope(f) = scope /\ OuterAt(f, n) = out[n] BY DEF Scope, OuterAt
<1> HIDE DEF scope, out
<1>11. /\ n \in 1..Len(frames)
       /\ \A k \in 0..(n - 1) : scope[k] \in Live /\ FrameOf(scope[k]).kind = "block"
  BY <1>10 DEF Levels
<1>12. \A m \in 1..n : m \in Levels(f) BY <1>1, <1>10, <1>11 DEF Levels
<1>13. Meets(0) BY <1>8, <1>9
<1>14. ASSUME NEW m \in Nat, Meets(m) PROVE Meets(m + 1)
  <2> SUFFICES ASSUME m + 1 <= n PROVE Meets(m + 1) OBVIOUS
  <2>1. n \in Nat /\ m <= n /\ m \in 0..(n - 1) /\ m + 1 \in 1..n BY <1>1, <1>11
  <2>2. PICK j \in DOMAIN frames : /\ scope[m] = frames[j].id /\ out[m] = frames[j].id
                                   /\ frames[j].self = f.self
    BY <1>14, <2>1
  <2>3. frames[j].kind = "block" BY <1>2, <1>11, <2>1, <2>2
  <2>4. frames[j].from.via = "frame"
    <3>1. FrameOf(scope[(m + 1) - 1]).from.via = "frame" BY <1>10, <1>12, <2>1
    <3>2. (m + 1) - 1 = m OBVIOUS
    <3> QED BY <1>2, <2>2, <3>1, <3>2
  <2>5. PICK q \in 1..(j - 1) : /\ frames[j].from.by = frames[q].id
                                /\ frames[j].outer = frames[q].id /\ frames[j].self = frames[q].self
    BY <1>1, <2>3, <2>4 DEF FramesInv, Placed, BlockPlaced
  <2>6. q \in DOMAIN frames BY <1>1
  <2>7. scope[m + 1] = frames[q].id /\ out[m + 1] = frames[q].id
    BY <1>6, <1>8, <1>9, <2>2, <2>5
  <2> QED BY <2>2, <2>5, <2>6, <2>7
<1>15. \A m \in Nat : Meets(m)
  <2> DEFINE T == {m \in Nat : ~Meets(m)}
  <2> HIDE DEF Meets
  <2> SUFFICES ASSUME T # {} PROVE FALSE OBVIOUS
  <2>1. PICK m \in T : \A k \in T : m <= k BY Least
  <2>2. m # 0 BY <1>13, <2>1
  <2>3. m \in Nat /\ m - 1 \in Nat /\ Meets(m - 1) /\ (m - 1) + 1 = m BY <2>1, <2>2
  <2>4. Meets((m - 1) + 1) BY <1>14, <2>3
  <2> QED BY <2>1, <2>3, <2>4
<1>16. PICK j \in DOMAIN frames : /\ scope[n] = frames[j].id /\ out[n] = frames[j].id
                                  /\ frames[j].self = f.self
  BY <1>1, <1>11, <1>15
<1> QED BY <1>2, <1>10, <1>16
-----------------------------------------------------------------------------
(* The call that is being entered got past the check of its arguments, and  *)
(* what its parameters become is what its prologue computes.                *)

Checked(e) ==
    /\ e.f \in Functions /\ e.args \in Seq(Objects) /\ e.tier \in {"vm", "jit"}
    /\ e.f.is_block \/ CheckArg(e.f, Len(e.args))
    /\ e.params = Enter(e.tier, e.f, e.args, e.block)
EnteredInv == entered # <<>> => Checked(entered)

LEMMA EntersChecked ==
    ASSUME NEW is_block, NEW f \in Callable(is_block), NEW args \in Arguable(is_block),
           NEW tier \in Tiers(is_block),
           NEW word, is_block \/ CheckArg(f, Len(args)), is_block => f.is_block,
           Enters(tier, f, args, word)
    PROVE  EnteredInv'
<1>1. f \in Functions BY FunctionTypes DEF Callable
<1>2. args \in Seq(Objects)
  <2>1. <<>> \in Seq(Objects) /\ ArgLists \subseteq Seq(Objects) BY CallFramesAssumption
  <2> QED BY <2>1 DEF Arguable
<1>6. tier \in {"vm", "jit"} BY DEF Tiers
<1> DEFINE b == IF word = NoWord THEN NoBlock ELSE <<"block">>
           e == [tier |-> tier, f |-> f, args |-> args, block |-> b,
                 params |-> Enter(tier, f, args, b)]
<1>3. entered' = e BY DEF Enters
<1>4. /\ e.f = f /\ e.args = args /\ e.tier = tier /\ e.block = b
      /\ e.params = Enter(tier, f, args, b)
  OBVIOUS
<1> HIDE DEF e
<1>5. Checked(e) BY <1>1, <1>2, <1>4, <1>6 DEF Checked
<1> QED BY <1>3, <1>5 DEF EnteredInv

LEMMA EnteredStep == EnteredInv /\ [Next]_vars => EnteredInv'
<1> SUFFICES ASSUME EnteredInv, [Next]_vars PROVE EnteredInv' OBVIOUS
<1>1. entered' = entered => EnteredInv' BY DEF EnteredInv
<1>2. entered' = <<>> => EnteredInv' BY DEF EnteredInv
<1> DEFINE no == FALSE
           yes == TRUE
<1>3. (no <=> FALSE) /\ (yes <=> TRUE) OBVIOUS
<1>4. CASE CallMethod
  <2>1. PICK word \in BlockOperands, f \in Callable(no), args \in Arguable(no), tier \in Tiers(no) :
          IF CheckArg(f, Len(args))
          THEN PushFrame("method", word, f.block, FALSE) /\ Enters(tier, f, args, word)
          ELSE status' = "error" /\ UNCHANGED <<frames, cfp, entered>>
    BY <1>4 DEF CallMethod
  <2> HIDE DEF no
  <2>2. CASE CheckArg(f, Len(args)) BY <1>3, <2>1, <2>2, EntersChecked
  <2>3. CASE ~CheckArg(f, Len(args)) BY <1>1, <2>1, <2>3
  <2> QED BY <2>2, <2>3
<1>5. CASE Invoke
  <2>1. PICK f \in Callable(no), args \in Arguable(no), tier \in Tiers(no) :
          CheckArg(f, Len(args)) /\ Enters(tier, f, args, NoWord)
    BY <1>5 DEF Invoke
  <2> HIDE DEF no
  <2> QED BY <1>3, <2>1, EntersChecked
<1>6. CASE YieldTo
  <2>1. PICK f \in Callable(yes), args \in Arguable(yes), tier \in Tiers(yes) :
          Enters(tier, f, args, NoWord)
    BY <1>6 DEF YieldTo
  <2>2. f.is_block BY DEF Callable
  <2> HIDE DEF yes
  <2> QED BY <1>3, <2>1, <2>2, EntersChecked
<1>7. CASE \/ Eval \/ Require \/ CallNative \/ InvokeNative \/ InvokeAccessor \/ YieldNowhere
           \/ OpenClass \/ Return \/ Raise \/ Unwind \/ UNCHANGED vars
  BY <1>1, <1>7 DEF Eval, Require, CallNative, InvokeNative, InvokeAccessor, YieldNowhere,
                    OpenClass, Return, Raise, Unwind, vars
<1>8. CASE Start BY <1>2, <1>8 DEF Start
<1> QED BY <1>4, <1>5, <1>6, <1>7, <1>8 DEF Next

LEMMA InvBinds == EnteredInv => BindsLikeRuby
<1> SUFFICES ASSUME EnteredInv, entered # <<>>,
                    ~Divergent(entered.tier, entered.f, entered.args, entered.block)
             PROVE  entered.params = RubyEnter(entered.f, entered.args, entered.block)
  BY DEF BindsLikeRuby
<1> DEFINE f == entered.f
           args == entered.args
           tier == entered.tier
           block == entered.block
<1>1. /\ f \in Functions /\ args \in Seq(Objects) /\ tier \in {"vm", "jit"}
      /\ f.is_block \/ CheckArg(f, Len(args))
      /\ entered.params = Enter(tier, f, args, block)
  BY DEF EnteredInv, Checked
<1>2. /\ WellFormed(f) /\ Accepted(f) /\ MaxSlot \in Nat /\ RegNum(f) <= MaxSlot /\ Room(f) <= MaxSlot
      /\ Passable(Objects)
  BY <1>1, CallFramesAssumption
<1> HIDE DEF f, args, tier, block
<1>3. ~Divergent(tier, f, args, block) BY DEF tier, f, args, block
<1>4. Enter(tier, f, args, block) = RubyEnter(f, args, block)
  BY <1>1, <1>2, <1>3, CallsBindLikeRuby
<1> QED BY <1>1, <1>4 DEF f, args, tier, block
-----------------------------------------------------------------------------
(* The theorems.                                                            *)

(* No word of a frame is ever out of its range: a block's depth stays below *)
(* the depth of the stack however often BlockArgProxy passes it on, and a   *)
(* new frame is never taken for one that a word still names.                *)
THEOREM FramesTypeCorrect == Spec => []TypeOK
<1>1. Init => StackInv BY StackInit
<1>2. StackInv /\ [Next]_vars => StackInv' BY StackStep
<1>3. StackInv => TypeOK BY InvTypeOK
<1> QED BY <1>1, <1>2, <1>3, PTL DEF Spec

(* push_frame, pop_frame, the epilogue of the invokers and the entry point  *)
(* keep cfp right over every sequence of calls from Ruby and from Rust,     *)
(* blocks, class bodies, required files, returns and errors; and where they *)
(* do not (next to a class body, after an accessor that an invoker called,  *)
(* in require after its file) it is not the running frame, and becomes it   *)
(* again with the next call.                                                *)
THEOREM CfpStaysTheRunningFrame == Spec => []CfpIsTheRunningFrame
<1>1. Init => StackInv BY StackInit
<1>2. StackInv /\ [Next]_vars => StackInv' BY StackStep
<1>3. StackInv => CfpIsTheRunningFrame BY InvCfp
<1> QED BY <1>1, <1>2, <1>3, PTL DEF Spec

(* get_block_data's walk stays inside the list of frames, unless one of the *)
(* calls that passed the block on was made while cfp was none.              *)
THEOREM WalksStayInFrames == Spec => []WalksEndAtFrames
<1>1. Init => StackInv BY StackInit
<1>2. StackInv /\ [Next]_vars => StackInv' BY StackStep
<1>3. StackInv => WalksEndAtFrames BY InvWalks
<1> QED BY <1>1, <1>2, <1>3, PTL DEF Spec

(* A block, however it was passed on and however deep it is nested, runs    *)
(* with the self and the variables of the scopes it was written in, if cfp  *)
(* was the running frame at every call that passed it on.                   *)
THEOREM BlocksStayWhereWritten == Spec => []BlocksRunWhereWritten
<1>1. Init => StackInv BY StackInit
<1>2. StackInv /\ [Next]_vars => StackInv' BY StackStep
<1>3. StackInv => BlocksRunWhereWritten BY InvBlocks
<1> QED BY <1>1, <1>2, <1>3, PTL DEF Spec

(* Whatever was called before, the parameters of every function that starts *)
(* are bound as in Ruby, but for the calls that Divergent names.            *)
THEOREM ParametersBindLikeRuby == Spec => []BindsLikeRuby
<1>1. Init => EnteredInv BY DEF Init, EnteredInv
<1>2. EnteredInv /\ [Next]_vars => EnteredInv' BY EnteredStep
<1>3. EnteredInv => BindsLikeRuby BY InvBinds
<1> QED BY <1>1, <1>2, <1>3, PTL DEF Spec
=============================================================================
