---------------------------- MODULE JitLoopsProofs ----------------------------
(***************************************************************************)
(* For every bytecode whose loops are nested the analysis of loops is      *)
(* right: no slot that it finds not needed is read before it is set.  And   *)
(* the compiler meets a branch to every block and around every loop, but    *)
(* for code that never runs.                                                *)
(***************************************************************************)
EXTENDS JitLoops, FiniteSetTheorems, WellFoundedInduction, TLAPS

(* A non-empty set of natural numbers has a least element. *)
LEMMA Least == ASSUME NEW S \in SUBSET Nat, S # {} PROVE \E m \in S : \A k \in S : m <= k
<1> DEFINE R == {ss \in Nat \X Nat : ss[1] < ss[2]}
<1>1. IsWellFoundedOn(R, Nat) BY NatLessThanWellFounded DEF OpToRel
<1>2. \A a, b \in Nat : <<a, b>> \notin R => b <= a OBVIOUS
<1> HIDE DEF R
<1>3. PICK m \in S : \A k \in S : ~(<<k, m>> \in R) BY <1>1, WFMin
<1> QED BY <1>2, <1>3

-----------------------------------------------------------------------------
(* Tables that are filled step by step, as a scan and a set of ways are.   *)

Filled(t, base, step, lo, hi) ==
    t[lo] = base /\ \A j \in (lo + 1)..hi : t[j] = step[j][t[j - 1]]

LEMMA TablesExist ==
    ASSUME NEW T, NEW lo \in Nat, NEW hi \in Nat, lo <= hi, NEW base \in T, NEW step,
           \A j \in (lo + 1)..hi : \A t \in T : step[j][t] \in T
    PROVE  \E t \in [lo..hi -> T] : Filled(t, base, step, lo, hi)
<1> SUFFICES ASSUME ~\E t \in [lo..hi -> T] : Filled(t, base, step, lo, hi) PROVE FALSE
  OBVIOUS
<1> DEFINE Q == {n \in Nat : /\ lo <= n /\ n <= hi
                             /\ ~\E t \in [lo..n -> T] : Filled(t, base, step, lo, n)}
<1>1. Q \in SUBSET Nat /\ Q # {}
  <2>1. hi \in Q OBVIOUS
  <2>2. Q \subseteq Nat OBVIOUS
  <2> QED BY <2>1, <2>2
<1>2. PICK m \in Q : \A k \in Q : m <= k BY <1>1, Least
<1>3. m # lo
  <2> DEFINE t == [k \in lo..lo |-> base]
  <2>1. t \in [lo..lo -> T] /\ Filled(t, base, step, lo, lo) BY DEF Filled
  <2> QED BY <2>1
<1>4. m \in Nat /\ lo <= m - 1 /\ m - 1 \in Nat /\ m - 1 \notin Q /\ m <= hi BY <1>1, <1>2, <1>3
<1>5. PICK t \in [lo..(m - 1) -> T] : Filled(t, base, step, lo, m - 1) BY <1>4
<1>6. t[m - 1] \in T /\ m \in (lo + 1)..hi BY <1>4
<1>7. step[m][t[m - 1]] \in T BY <1>6
<1> DEFINE g == [k \in lo..m |-> IF k = m THEN step[m][t[m - 1]] ELSE t[k]]
<1>8. g \in [lo..m -> T] BY <1>4, <1>5, <1>7
<1>9. \A k \in lo..m : g[k] = IF k = m THEN step[m][t[m - 1]] ELSE t[k] OBVIOUS
<1> HIDE DEF g
<1>10. \A j \in (lo + 1)..m : g[j] = step[j][g[j - 1]]
  <2> SUFFICES ASSUME NEW j \in (lo + 1)..m PROVE g[j] = step[j][g[j - 1]] OBVIOUS
  <2>1. CASE j = m BY <1>4, <1>9, <2>1
  <2>2. CASE j # m
    <3>1. j \in (lo + 1)..(m - 1) BY <1>4, <2>2
    <3>2. t[j] = step[j][t[j - 1]] BY <1>5, <3>1 DEF Filled
    <3>3. j \in lo..m /\ j - 1 \in lo..m /\ j - 1 # m BY <1>4, <3>1
    <3> QED BY <1>9, <2>2, <3>2, <3>3
  <2> QED BY <2>1, <2>2
<1>11. g[lo] = base BY <1>3, <1>4, <1>5, <1>9 DEF Filled
<1>12. Filled(g, base, step, lo, m) BY <1>10, <1>11 DEF Filled
<1> QED BY <1>2, <1>8, <1>12

(* Ways stay in every set that has their starts and is closed under steps.  *)
LEMMA WaysStayIn ==
    ASSUME Size \in Nat, NEW S, NEW stops, NEW step, NEW F, S \subseteq F,
           \A j \in F : j \notin stops => step[j] \subseteq F
    PROVE  Ways(S, stops, step) \subseteq F
<1> DEFINE More(t) == t \cup UNION {step[j] : j \in t \ stops}
           Body(w) == [n \in 0..Size |-> IF n = 0 THEN S ELSE More(w[n - 1])]
           ways == CHOOSE w : w = Body(w)
           table == [n \in 1..Size |-> [t \in SUBSET F |-> More(t)]]
<1>1. \A t \in SUBSET F : More(t) \in SUBSET F OBVIOUS
<1>2. Ways(S, stops, step) = ways[Size] BY DEF Ways
<1> HIDE DEF More
<1>3. \A n \in 1..Size : \A t \in SUBSET F : table[n][t] = More(t) OBVIOUS
<1> HIDE DEF table
<1>4. PICK g \in [0..Size -> SUBSET F] : Filled(g, S, table, 0, Size)
  <2>1. \A n \in (0 + 1)..Size : \A t \in SUBSET F : table[n][t] \in SUBSET F BY <1>1, <1>3
  <2>2. S \in SUBSET F /\ 0 \in Nat /\ Size \in Nat /\ 0 <= Size OBVIOUS
  <2> QED BY ONLY <2>1, <2>2, TablesExist
<1>5. \A n \in 0..Size : g[n] = IF n = 0 THEN S ELSE More(g[n - 1])
  <2> SUFFICES ASSUME NEW n \in 0..Size, n # 0 PROVE g[n] = More(g[n - 1])
    BY <1>4 DEF Filled
  <2>1. n \in (0 + 1)..Size /\ n \in 1..Size /\ n - 1 \in 0..Size OBVIOUS
  <2>2. g[n] = table[n][g[n - 1]] BY <1>4, <2>1 DEF Filled
  <2>3. g[n - 1] \in SUBSET F BY <1>4, <2>1
  <2> QED BY <1>3, <2>1, <2>2, <2>3
<1>6. g = Body(g) BY <1>4, <1>5
<1>7. ways = Body(ways) BY <1>6
<1> HIDE DEF ways
<1>8. \A n \in 0..Size : ways[n] = IF n = 0 THEN S ELSE More(ways[n - 1]) BY <1>7
<1> DEFINE Q == {n \in Nat : n <= Size /\ ~(ways[n] \subseteq F)}
<1>9. Q = {}
  <2> SUFFICES ASSUME Q # {} PROVE FALSE OBVIOUS
  <2>1. PICK m \in Q : \A k \in Q : m <= k BY Least
  <2>2. m # 0 BY <1>8, <2>1
  <2>3. m \in 0..Size /\ m - 1 \in Nat /\ m - 1 <= Size /\ m - 1 \notin Q
    BY <2>1, <2>2
  <2>4. ways[m - 1] \in SUBSET F BY <2>3
  <2>5. ways[m] = More(ways[m - 1]) BY <1>8, <2>2, <2>3
  <2> QED BY <1>1, <2>1, <2>4, <2>5
<1> QED BY <1>2, <1>9

-----------------------------------------------------------------------------
(* How many loops are open.                                                *)

Count(W, h, j) == Cardinality(W \cap (h..j))
Kind(op) == {i \in Insts : Op(i) = op}

LEMMA CountIsNat ==
    ASSUME NEW W, NEW h \in Nat, NEW j \in Int
    PROVE  IsFiniteSet(W \cap (h..j)) /\ Count(W, h, j) \in Nat
<1>1. IsFiniteSet(h..j) BY FS_Interval
<1>2. IsFiniteSet(W \cap (h..j)) BY <1>1, FS_Subset
<1> QED BY <1>2, FS_CardinalityType DEF Count

LEMMA CountNone ==
    ASSUME NEW W, NEW h \in Nat
    PROVE  Count(W, h, h - 1) = 0
<1>1. W \cap (h..(h - 1)) = {} OBVIOUS
<1> QED BY <1>1, FS_EmptySet DEF Count

LEMMA CountStep ==
    ASSUME NEW W, NEW h \in Nat, NEW j \in Nat, h <= j
    PROVE  Count(W, h, j) = IF j \in W THEN Count(W, h, j - 1) + 1 ELSE Count(W, h, j - 1)
<1> DEFINE A == W \cap (h..(j - 1))
<1>1. IsFiniteSet(A)
  <2>1. j - 1 \in Int OBVIOUS
  <2> QED BY <2>1, CountIsNat
<1>2. j \notin A OBVIOUS
<1>3. CASE j \in W
  <2>1. W \cap (h..j) = A \cup {j} BY <1>3
  <2> HIDE DEF A
  <2>2. Cardinality(A \cup {j}) = Cardinality(A) + 1 BY <1>1, <1>2, FS_AddElement
  <2> QED BY <1>3, <2>1, <2>2 DEF Count, A
<1>4. CASE j \notin W
  <2>1. W \cap (h..j) = A BY <1>4
  <2> QED BY <1>4, <2>1 DEF Count
<1> QED BY <1>3, <1>4

LEMMA CountSplit ==
    ASSUME NEW W, NEW b \in Nat, NEW h \in Nat, NEW j \in Int, b <= h, h <= j + 1
    PROVE  Count(W, b, j) = Count(W, b, h - 1) + Count(W, h, j)
<1> DEFINE A == W \cap (b..(h - 1))
           B == W \cap (h..j)
<1>1. IsFiniteSet(A) /\ IsFiniteSet(B)
  <2>1. h - 1 \in Int OBVIOUS
  <2> QED BY <2>1, CountIsNat
<1>2. A \cap B = {} OBVIOUS
<1>3. W \cap (b..j) = A \cup B OBVIOUS
<1> HIDE DEF A, B
<1>4. Cardinality(A \cup B) = Cardinality(A) + Cardinality(B)
  <2>1. Cardinality(A \cup B) = Cardinality(A) + Cardinality(B) - Cardinality(A \cap B)
    BY <1>1, FS_Union
  <2>2. Cardinality(A \cap B) = 0 BY <1>2, FS_EmptySet
  <2>3. Cardinality(A) \in Nat /\ Cardinality(B) \in Nat BY <1>1, FS_CardinalityType
  <2> QED BY <2>1, <2>2, <2>3
<1> QED BY <1>3, <1>4 DEF Count, A, B

LEMMA LevelIs ==
    ASSUME NEW h \in Nat, NEW j \in Int
    PROVE  /\ Level(h, j) = Count(Kind("LoopStart"), h, j) - Count(Kind("LoopEnd"), h, j)
           /\ Level(h, j) \in Int
<1>1. {i \in Insts \cap (h..j) : Op(i) = "LoopStart"} = Kind("LoopStart") \cap (h..j) BY DEF Kind
<1>2. {i \in Insts \cap (h..j) : Op(i) = "LoopEnd"} = Kind("LoopEnd") \cap (h..j) BY DEF Kind
<1> DEFINE x == Count(Kind("LoopStart"), h, j)
           y == Count(Kind("LoopEnd"), h, j)
<1>3. x \in Nat /\ y \in Nat BY CountIsNat
<1>4. Level(h, j) = x - y BY <1>1, <1>2 DEF Level, Count
<1> HIDE DEF x, y
<1>5. x - y \in Int BY <1>3
<1> QED BY <1>4, <1>5 DEF x, y

LEMMA LevelNone == ASSUME NEW h \in Nat PROVE Level(h, h - 1) = 0
<1>1. h - 1 \in Int OBVIOUS
<1> QED BY <1>1, LevelIs, CountNone

LEMMA LevelStep ==
    ASSUME NEW h \in Nat, NEW j \in Nat, h <= j
    PROVE  /\ j \in Insts /\ Op(j) = "LoopStart" => Level(h, j) = Level(h, j - 1) + 1
           /\ j \in Insts /\ Op(j) = "LoopEnd" => Level(h, j) = Level(h, j - 1) - 1
           /\ j \notin Insts \/ Op(j) \notin {"LoopStart", "LoopEnd"} =>
                Level(h, j) = Level(h, j - 1)
<1> DEFINE S == Kind("LoopStart")
           E == Kind("LoopEnd")
<1>1. /\ Count(S, h, j) = IF j \in S THEN Count(S, h, j - 1) + 1 ELSE Count(S, h, j - 1)
      /\ Count(E, h, j) = IF j \in E THEN Count(E, h, j - 1) + 1 ELSE Count(E, h, j - 1)
  BY CountStep
<1>2. j - 1 \in Int OBVIOUS
<1>3. Count(S, h, j - 1) \in Nat /\ Count(E, h, j - 1) \in Nat BY <1>2, CountIsNat
<1>4. /\ Level(h, j) = Count(S, h, j) - Count(E, h, j)
      /\ Level(h, j - 1) = Count(S, h, j - 1) - Count(E, h, j - 1)
  BY <1>2, LevelIs
<1>5. /\ j \in S <=> j \in Insts /\ Op(j) = "LoopStart"
      /\ j \in E <=> j \in Insts /\ Op(j) = "LoopEnd"
  BY DEF Kind
<1> HIDE DEF S, E
<1> QED BY <1>1, <1>3, <1>4, <1>5

LEMMA LevelSplit ==
    ASSUME NEW b \in Nat, NEW h \in Nat, NEW j \in Int, b <= h, h <= j + 1
    PROVE  Level(b, j) = Level(b, h - 1) + Level(h, j)
<1> DEFINE S == Kind("LoopStart")
           E == Kind("LoopEnd")
<1>1. /\ Count(S, b, j) = Count(S, b, h - 1) + Count(S, h, j)
      /\ Count(E, b, j) = Count(E, b, h - 1) + Count(E, h, j)
  BY CountSplit
<1>2. h - 1 \in Int OBVIOUS
<1>3. /\ Count(S, b, h - 1) \in Nat /\ Count(E, b, h - 1) \in Nat
      /\ Count(S, h, j) \in Nat /\ Count(E, h, j) \in Nat
  BY <1>2, CountIsNat
<1>4. /\ Level(b, j) = Count(S, b, j) - Count(E, b, j)
      /\ Level(b, h - 1) = Count(S, b, h - 1) - Count(E, b, h - 1)
      /\ Level(h, j) = Count(S, h, j) - Count(E, h, j)
  BY <1>2, LevelIs
<1> HIDE DEF S, E
<1> QED BY <1>1, <1>3, <1>4

-----------------------------------------------------------------------------
(* The infos and the records of a scan.                                    *)

Infos == [Slots -> {"ND", "Used", "NotUsed"}]
Scans == [into : [Positions -> SUBSET Infos], info : Infos, live : BOOLEAN, level : Int,
          back : SUBSET Infos, returns : SUBSET Infos, exit : SUBSET Infos]

LEMMA TouchMarks ==
    ASSUME NEW info \in Infos, NEW j
    PROVE  /\ Touch(info, j) \in Infos
           /\ \A s \in Slots :
                /\ info[s] = "Used" => Touch(info, j)[s] = "Used"
                /\ Touch(info, j)[s] = "NotUsed" => info[s] = "NotUsed" \/ s \in DefSlots(j)
                /\ info[s] = "ND" /\ s \in UsedSlots(j) /\ ~(DefinesFirst(j) /\ s \in DefSlots(j)) =>
                     Touch(info, j)[s] = "Used"
BY DEF Touch, Infos

LEMMA MergeType == ASSUME NEW infos PROVE MergeInfos(infos) \in Infos
BY DEF MergeInfos, Infos

LEMMA MergeMarks ==
    ASSUME NEW infos, NEW s \in Slots
    PROVE  /\ \A i \in infos : i[s] = "Used" => MergeInfos(infos)[s] = "Used"
           /\ MergeInfos(infos)[s] = "NotUsed" => infos # {} /\ \A i \in infos : i[s] = "NotUsed"
BY DEF MergeInfos

LEMMA NewScanType == NewScan \in Scans
BY DEF NewScan, Scans, Infos, NoInfo

LEMMA BlockType ==
    ASSUME NEW k \in Scans, NEW j \in Positions
    PROVE  /\ AtBlock(k, j) \in Scans
           /\ AtBlock(k, j).into = k.into /\ AtBlock(k, j).level = k.level
           /\ AtBlock(k, j).back = k.back /\ AtBlock(k, j).returns = k.returns
           /\ AtBlock(k, j).exit = k.exit
           /\ j \in Starts => AtBlock(k, j).live /\ AtBlock(k, j).info = MergeInfos(k.into[j])
           /\ j \notin Starts => AtBlock(k, j) = k
BY MergeType DEF AtBlock, Scans

LEMMA MarkType ==
    ASSUME NEW k \in Scans, NEW j \in Positions
    PROVE  /\ AtMark(k, j) \in Scans
           /\ AtMark(k, j).into = k.into /\ AtMark(k, j).back = k.back
           /\ Op(j) = "Ret" => ~AtMark(k, j).live
           /\ Op(j) # "Ret" => AtMark(k, j).live = k.live
<1>1. CASE Op(j) = "LoopStart" BY <1>1 DEF AtMark, Scans
<1>2. CASE Op(j) = "LoopEnd" /\ k.level = 1
  <2>1. AtMark(k, j) = [k EXCEPT !.level = 0, !.exit = {k.info}] BY <1>2 DEF AtMark
  <2>2. {k.info} \in SUBSET Infos /\ 0 \in Int BY DEF Scans
  <2> QED BY <1>2, <2>1, <2>2 DEF Scans
<1>3. CASE Op(j) = "LoopEnd" /\ k.level # 1 BY <1>3 DEF AtMark, Scans
<1>4. CASE Op(j) = "Ret" BY <1>4 DEF AtMark, Scans
<1>5. CASE Op(j) \notin {"LoopStart", "LoopEnd", "Ret"}
  <2>1. k.info \in Infos BY DEF Scans
  <2>2. Touch(k.info, j) \in Infos BY ONLY <2>1, TouchMarks
  <2>3. AtMark(k, j) = [k EXCEPT !.info = Touch(k.info, j)] BY <1>5 DEF AtMark
  <2> QED BY <1>5, <2>2, <2>3 DEF Scans
<1> QED BY <1>1, <1>2, <1>3, <1>4, <1>5

LEMMA MarkLevels ==
    ASSUME NEW k \in Scans, NEW j \in Positions
    PROVE  /\ Op(j) = "LoopStart" => AtMark(k, j).level = k.level + 1
           /\ Op(j) = "LoopEnd" => AtMark(k, j).level = k.level - 1
           /\ Op(j) \notin {"LoopStart", "LoopEnd"} => AtMark(k, j).level = k.level
           /\ Op(j) = "LoopEnd" /\ k.level = 1 => AtMark(k, j).exit = {k.info}
           /\ Op(j) # "LoopEnd" \/ k.level # 1 => AtMark(k, j).exit = k.exit
BY DEF AtMark, Scans

LEMMA MarkInfos ==
    ASSUME NEW k \in Scans, NEW j \in Positions
    PROVE  /\ Op(j) = "Ret" => AtMark(k, j).returns = k.returns \cup {k.info}
           /\ Op(j) # "Ret" => AtMark(k, j).returns = k.returns
           /\ Op(j) \in {"LoopStart", "LoopEnd", "Ret"} => AtMark(k, j).info = k.info
           /\ Op(j) \notin {"LoopStart", "LoopEnd", "Ret"} =>
                AtMark(k, j).info = Touch(k.info, j)
BY DEF AtMark, Scans

LEMMA BranchType ==
    ASSUME NEW k \in Scans, NEW j \in Positions
    PROVE  /\ AtBranch(k, j) \in Scans
           /\ AtBranch(k, j).info = k.info /\ AtBranch(k, j).live = k.live
           /\ AtBranch(k, j).level = k.level /\ AtBranch(k, j).exit = k.exit
           /\ AtBranch(k, j).returns = k.returns
BY DEF AtBranch, Scans

LEMMA EndType ==
    ASSUME NEW k \in Scans, NEW j \in Positions
    PROVE  /\ AtEnd(k, j) \in Scans
           /\ AtEnd(k, j).info = k.info /\ AtEnd(k, j).back = k.back
           /\ AtEnd(k, j).level = k.level /\ AtEnd(k, j).exit = k.exit
           /\ AtEnd(k, j).returns = k.returns
BY DEF AtEnd, Scans

(* Infos of branches ahead are collected, and never dropped. *)
LEMMA BranchInto ==
    ASSUME NEW k \in Scans, NEW j \in Positions
    PROVE  /\ \A i \in Positions : k.into[i] \subseteq AtBranch(k, j).into[i]
           /\ Op(j) \in Branches /\ Dest(j) > j /\ Dest(j) \in Positions =>
                k.info \in AtBranch(k, j).into[Dest(j)]
           /\ k.back \subseteq AtBranch(k, j).back
           /\ Op(j) \in Branches /\ ~(Dest(j) > j) /\ k.level = 1 => k.info \in AtBranch(k, j).back
BY DEF AtBranch, Scans

LEMMA EndInto ==
    ASSUME NEW k \in Scans, NEW j \in Positions
    PROVE  /\ \A i \in Positions : k.into[i] \subseteq AtEnd(k, j).into[i]
           /\ Op(j) # "Br" /\ k.live /\ Follow(j) \in Starts /\ Follow(j) \in Positions =>
                k.info \in AtEnd(k, j).into[Follow(j)]
           /\ Op(j) # "Br" /\ k.live /\ Follow(j) \notin Starts => AtEnd(k, j).live
BY DEF AtEnd, Scans

LEMMA NextType ==
    ASSUME NEW k \in Scans, NEW j \in Positions
    PROVE  /\ ScanNext(k, j) \in Scans
           /\ \A i \in Positions : k.into[i] \subseteq ScanNext(k, j).into[i]
           /\ k.back \subseteq ScanNext(k, j).back
           /\ k.returns \subseteq ScanNext(k, j).returns
           /\ k.exit # {} \/ j \notin Insts => ScanNext(k, j) = k
<1> DEFINE b == AtBlock(k, j)
           m == AtMark(b, j)
           r == AtBranch(m, j)
           e == AtEnd(r, j)
<1>1. CASE k.exit # {} \/ j \notin Insts BY <1>1 DEF ScanNext
<1>2. CASE ~(k.exit # {} \/ j \notin Insts)
  <2>1. /\ b \in Scans /\ b.into = k.into /\ b.back = k.back /\ b.returns = k.returns
    BY BlockType
  <2> HIDE DEF b
  <2>2. /\ m \in Scans /\ m.into = b.into /\ m.back = b.back /\ b.returns \subseteq m.returns
    BY <2>1, MarkType, MarkInfos
  <2> HIDE DEF m
  <2>3. /\ r \in Scans /\ r.returns = m.returns /\ m.back \subseteq r.back
        /\ \A i \in Positions : m.into[i] \subseteq r.into[i]
    BY <2>2, BranchType, BranchInto
  <2> HIDE DEF r
  <2>4. /\ e \in Scans /\ e.returns = r.returns /\ e.back = r.back
        /\ \A i \in Positions : r.into[i] \subseteq e.into[i]
    BY <2>3, EndType, EndInto
  <2>5. ScanNext(k, j) = e \/ ScanNext(k, j) = b
    BY <1>2 DEF ScanNext, ScanInst, b, m, r
  <2> HIDE DEF e
  <2> QED BY <1>2, <2>1, <2>2, <2>3, <2>4, <2>5
<1> QED BY <1>1, <1>2

(* What is known of the scan of a loop. *)
IsScan(h, scan) ==
    /\ scan \in [(h - 1)..Size -> Scans]
    /\ scan[h - 1] = NewScan
    /\ \A j \in h..Size : scan[j] = ScanNext(scan[j - 1], j)

LEMMA ScanIsScan ==
    ASSUME Size \in Nat, NEW h \in Positions
    PROVE  IsScan(h, ScanFrom(h))
<1> DEFINE Body(w) == [j \in (h - 1)..Size |-> IF j = h - 1 THEN NewScan ELSE ScanNext(w[j - 1], j)]
           scan == CHOOSE w : w = Body(w)
           table == [j \in h..Size |-> [k \in Scans |-> ScanNext(k, j)]]
<1>1. ScanFrom(h) = scan BY DEF ScanFrom
<1>2. h - 1 \in Nat /\ h \in Nat /\ Size \in Nat /\ h <= Size /\ (h - 1) + 1 = h /\ h - 1 <= Size
  BY DEF Positions
<1>3. \A j \in h..Size : j \in Positions /\ \A k \in Scans : table[j][k] = ScanNext(k, j)
  BY <1>2 DEF Positions
<1> HIDE DEF table
<1>4. PICK g \in [(h - 1)..Size -> Scans] : Filled(g, NewScan, table, h - 1, Size)
  <2> DEFINE lo == h - 1
  <2>1. \A j \in (lo + 1)..Size : \A k \in Scans : table[j][k] \in Scans
    BY <1>2, <1>3, NextType
  <2>2. NewScan \in Scans /\ lo \in Nat /\ Size \in Nat /\ lo <= Size BY <1>2, NewScanType
  <2> HIDE DEF lo
  <2>3. \E g \in [lo..Size -> Scans] : Filled(g, NewScan, table, lo, Size)
    BY ONLY <2>1, <2>2, TablesExist
  <2> QED BY <2>3 DEF lo
<1>5. \A j \in h..Size : g[j] = ScanNext(g[j - 1], j) /\ j # h - 1 /\ j - 1 \in (h - 1)..Size
  <2> SUFFICES ASSUME NEW j \in h..Size
               PROVE  g[j] = ScanNext(g[j - 1], j) /\ j # h - 1 /\ j - 1 \in (h - 1)..Size
    OBVIOUS
  <2>1. j \in ((h - 1) + 1)..Size /\ j # h - 1 /\ j - 1 \in (h - 1)..Size BY <1>2
  <2>2. g[j] = table[j][g[j - 1]] BY <1>4, <2>1 DEF Filled
  <2>3. g[j - 1] \in Scans BY <1>4, <2>1
  <2> QED BY <1>3, <2>1, <2>2, <2>3
<1>6. g[h - 1] = NewScan BY <1>4 DEF Filled
<1>7. g = Body(g)
  <2>1. \A j \in (h - 1)..Size : g[j] = IF j = h - 1 THEN NewScan ELSE ScanNext(g[j - 1], j)
    <3> SUFFICES ASSUME NEW j \in (h - 1)..Size, j # h - 1 PROVE g[j] = ScanNext(g[j - 1], j)
      BY <1>6
    <3>1. j \in h..Size BY <1>2
    <3> QED BY <1>5, <3>1
  <2> QED BY <1>4, <2>1
<1>8. scan = Body(scan) BY <1>7
<1> HIDE DEF scan
<1>9. /\ scan[h - 1] = NewScan
      /\ \A j \in h..Size : scan[j] = ScanNext(scan[j - 1], j)
  <2>1. \A j \in (h - 1)..Size :
          scan[j] = IF j = h - 1 THEN NewScan ELSE ScanNext(scan[j - 1], j)
    BY <1>8
  <2>2. h - 1 \in (h - 1)..Size BY <1>2
  <2>3. \A j \in h..Size : j \in (h - 1)..Size /\ j # h - 1 BY <1>2
  <2> QED BY <2>1, <2>2, <2>3
<1> DEFINE Q == {n \in Nat : h - 1 <= n /\ n <= Size /\ scan[n] \notin Scans}
<1>10. Q = {}
  <2> SUFFICES ASSUME Q # {} PROVE FALSE OBVIOUS
  <2>1. PICK n \in Q : \A i \in Q : n <= i BY Least
  <2>2. n # h - 1 BY <1>9, <2>1, NewScanType
  <2>3. n - 1 \in Nat /\ n - 1 \notin Q /\ h - 1 <= n - 1 /\ n \in h..Size BY <1>2, <2>1, <2>2
  <2>4. n - 1 <= Size /\ n - 1 \in Nat /\ h - 1 <= n - 1 BY <1>2, <2>1, <2>3
  <2>5. scan[n - 1] \in Scans BY <2>3, <2>4
  <2> QED BY <1>3, <1>9, <2>1, <2>3, <2>5, NextType
<1>11. scan = [j \in (h - 1)..Size |-> scan[j]] BY <1>8
<1>12. scan \in [(h - 1)..Size -> Scans]
  <2>1. \A j \in (h - 1)..Size : scan[j] \in Scans BY <1>2, <1>10
  <2> QED BY <1>11, <2>1
<1> QED BY <1>1, <1>9, <1>12 DEF IsScan

-----------------------------------------------------------------------------
(* What the scan does at an instruction that it looks at.                  *)

(* The info in front of instruction j and behind it, with k before it.      *)
In(k, j) == AtBlock(k, j).info
Out(k, j) == AtMark(AtBlock(k, j), j).info
Looks(k, j) == k.exit = {} /\ AtBlock(k, j).live

LEMMA InfosPass ==
    ASSUME NEW k \in Scans, NEW j \in Positions, NEW s \in Slots
    PROVE  /\ In(k, j) \in Infos /\ Out(k, j) \in Infos
           /\ Op(j) \in {"LoopStart", "LoopEnd", "Ret"} => Out(k, j) = In(k, j)
           /\ In(k, j)[s] = "Used" => Out(k, j)[s] = "Used"
           /\ Out(k, j)[s] = "NotUsed" => In(k, j)[s] = "NotUsed" \/ s \in DefSlots(j)
           /\ /\ In(k, j)[s] = "ND" /\ Op(j) \notin {"LoopStart", "LoopEnd", "Ret"}
              /\ s \in UsedSlots(j) /\ ~(DefinesFirst(j) /\ s \in DefSlots(j))
              => Out(k, j)[s] = "Used"
<1> DEFINE b == AtBlock(k, j)
           m == AtMark(b, j)
<1>1. b \in Scans BY BlockType
<1> HIDE DEF b
<1>2. m \in Scans BY <1>1, MarkType
<1>3. /\ Op(j) \in {"LoopStart", "LoopEnd", "Ret"} => m.info = b.info
      /\ Op(j) \notin {"LoopStart", "LoopEnd", "Ret"} => m.info = Touch(b.info, j)
  BY <1>1, MarkInfos
<1> HIDE DEF m
<1>4. b.info \in Infos /\ m.info \in Infos BY <1>1, <1>2 DEF Scans
<1>5. In(k, j) = b.info /\ Out(k, j) = m.info BY DEF In, Out, b, m
<1>6. /\ b.info[s] = "Used" => Touch(b.info, j)[s] = "Used"
      /\ Touch(b.info, j)[s] = "NotUsed" => b.info[s] = "NotUsed" \/ s \in DefSlots(j)
      /\ b.info[s] = "ND" /\ s \in UsedSlots(j) /\ ~(DefinesFirst(j) /\ s \in DefSlots(j)) =>
           Touch(b.info, j)[s] = "Used"
  BY <1>4, TouchMarks
<1> QED BY <1>3, <1>4, <1>5, <1>6

LEMMA LookLevels ==
    ASSUME NEW k \in Scans, NEW j \in Positions, j \in Insts, Looks(k, j)
    PROVE  /\ Op(j) = "LoopStart" => ScanNext(k, j).level = k.level + 1
           /\ Op(j) = "LoopEnd" => ScanNext(k, j).level = k.level - 1
           /\ Op(j) \notin {"LoopStart", "LoopEnd"} => ScanNext(k, j).level = k.level
           /\ Op(j) = "LoopEnd" /\ k.level = 1 => ScanNext(k, j).exit = {In(k, j)}
           /\ Op(j) # "LoopEnd" \/ k.level # 1 => ScanNext(k, j).exit = {}
<1> DEFINE b == AtBlock(k, j)
           m == AtMark(b, j)
           r == AtBranch(m, j)
           e == AtEnd(r, j)
<1>1. b \in Scans /\ b.level = k.level /\ b.exit = k.exit BY BlockType
<1> HIDE DEF b
<1>2. m \in Scans BY <1>1, MarkType
<1>3. /\ Op(j) = "LoopStart" => m.level = b.level + 1
      /\ Op(j) = "LoopEnd" => m.level = b.level - 1
      /\ Op(j) \notin {"LoopStart", "LoopEnd"} => m.level = b.level
      /\ Op(j) = "LoopEnd" /\ b.level = 1 => m.exit = {b.info}
      /\ Op(j) # "LoopEnd" \/ b.level # 1 => m.exit = b.exit
  BY <1>1, MarkLevels
<1> HIDE DEF m
<1>4. r \in Scans /\ r.level = m.level /\ r.exit = m.exit BY <1>2, BranchType
<1> HIDE DEF r
<1>5. e.level = r.level /\ e.exit = r.exit BY <1>4, EndType
<1>6. ScanNext(k, j) = e BY DEF ScanNext, ScanInst, Looks, b, m, r
<1> HIDE DEF e
<1> QED BY <1>1, <1>3, <1>4, <1>5, <1>6 DEF In, Looks, b

LEMMA LookPasses ==
    ASSUME NEW k \in Scans, NEW j \in Positions, j \in Insts, Looks(k, j)
    PROVE  /\ Op(j) = "Ret" => In(k, j) \in ScanNext(k, j).returns
           /\ Op(j) \in Branches /\ Dest(j) > j /\ Dest(j) \in Positions =>
                Out(k, j) \in ScanNext(k, j).into[Dest(j)]
           /\ Op(j) \in Branches /\ ~(Dest(j) > j) /\ ScanNext(k, j).level = 1 =>
                Out(k, j) \in ScanNext(k, j).back
           /\ Op(j) \notin {"Br", "Ret"} /\ Follow(j) \in Starts /\ Follow(j) \in Positions =>
                Out(k, j) \in ScanNext(k, j).into[Follow(j)]
           /\ Op(j) \notin {"Br", "Ret"} /\ Follow(j) \notin Starts =>
                ScanNext(k, j).live /\ ScanNext(k, j).info = Out(k, j)
<1> DEFINE b == AtBlock(k, j)
           m == AtMark(b, j)
           r == AtBranch(m, j)
           e == AtEnd(r, j)
<1>1. b \in Scans BY BlockType
<1> HIDE DEF b
<1>2. /\ m \in Scans
      /\ Op(j) # "Ret" => m.live = b.live
      /\ Op(j) = "Ret" => m.returns = b.returns \cup {b.info}
  BY <1>1, MarkType, MarkInfos
<1> HIDE DEF m
<1>3. r \in Scans /\ r.info = m.info /\ r.live = m.live /\ r.level = m.level /\ r.returns = m.returns
  BY <1>2, BranchType
<1>4. /\ Op(j) \in Branches /\ Dest(j) > j /\ Dest(j) \in Positions => m.info \in r.into[Dest(j)]
      /\ Op(j) \in Branches /\ ~(Dest(j) > j) /\ m.level = 1 => m.info \in r.back
  BY <1>2, BranchInto
<1> HIDE DEF r
<1>5. /\ e.info = r.info /\ e.back = r.back /\ e.level = r.level /\ e.returns = r.returns
      /\ \A i \in Positions : r.into[i] \subseteq e.into[i]
      /\ Op(j) # "Br" /\ r.live /\ Follow(j) \in Starts /\ Follow(j) \in Positions =>
           r.info \in e.into[Follow(j)]
      /\ Op(j) # "Br" /\ r.live /\ Follow(j) \notin Starts => e.live
  BY <1>3, EndType, EndInto
<1>6. ScanNext(k, j) = e BY DEF ScanNext, ScanInst, Looks, b, m, r
<1>7. In(k, j) = b.info /\ Out(k, j) = m.info /\ b.live BY DEF In, Out, Looks, b, m
<1> HIDE DEF e
<1> QED BY <1>2, <1>3, <1>4, <1>5, <1>6, <1>7

LEMMA PassesOver ==
    ASSUME NEW k \in Scans, NEW j \in Positions, k.exit = {}, ~Looks(k, j)
    PROVE  ScanNext(k, j).level = k.level /\ ScanNext(k, j).exit = {}
<1> DEFINE b == AtBlock(k, j)
<1>1. b.level = k.level /\ b.exit = k.exit /\ ~b.live BY BlockType DEF Looks
<1>2. ScanNext(k, j) = b \/ ScanNext(k, j) = k BY <1>1 DEF ScanNext, ScanInst
<1> HIDE DEF b
<1> QED BY <1>1, <1>2

-----------------------------------------------------------------------------
(* The scan of a loop, from its header on.                                 *)

LEMMA ScanGrows ==
    ASSUME Size \in Nat, NEW h \in Positions, NEW scan, IsScan(h, scan),
           NEW i \in (h - 1)..Size, NEW j \in (h - 1)..Size, i <= j
    PROVE  /\ \A p \in Positions : scan[i].into[p] \subseteq scan[j].into[p]
           /\ scan[i].back \subseteq scan[j].back /\ scan[i].returns \subseteq scan[j].returns
           /\ scan[i].exit # {} => scan[j] = scan[i]
<1> DEFINE P(n) == /\ \A p \in Positions : scan[i].into[p] \subseteq scan[n].into[p]
                   /\ scan[i].back \subseteq scan[n].back
                   /\ scan[i].returns \subseteq scan[n].returns
                   /\ scan[i].exit # {} => scan[n] = scan[i]
           Q == {n \in Nat : i <= n /\ n <= Size /\ ~P(n)}
<1>1. h \in Nat /\ h >= 1 /\ Size \in Nat /\ i \in Nat /\ j \in Nat BY DEF Positions
<1>2. SUFFICES Q = {}
  <2>1. j \in Nat /\ i <= j /\ j <= Size BY <1>1
  <2> HIDE DEF P
  <2>2. Q = {} => P(j) BY <2>1
  <2> USE DEF P
  <2> QED BY <2>2
<1>3. SUFFICES ASSUME Q # {} PROVE FALSE OBVIOUS
<1>4. PICK n \in Q : \A m \in Q : n <= m
  <2>1. Q \in SUBSET Nat /\ Q # {} BY <1>3
  <2> HIDE DEF Q
  <2> QED BY <2>1, Least
<1>5. P(i) OBVIOUS
<1>6. n # i BY <1>4, <1>5
<1>7. n - 1 \in Nat /\ n - 1 \notin Q /\ i <= n - 1 /\ n \in h..Size /\ n - 1 \in (h - 1)..Size
  BY <1>1, <1>4, <1>6
<1>8. P(n - 1) BY <1>1, <1>4, <1>7
<1>9. n \in Positions /\ scan[n - 1] \in Scans /\ scan[n] = ScanNext(scan[n - 1], n)
  BY <1>1, <1>7 DEF IsScan, Positions
<1>10. /\ \A p \in Positions : scan[n - 1].into[p] \subseteq scan[n].into[p]
       /\ scan[n - 1].back \subseteq scan[n].back
       /\ scan[n - 1].returns \subseteq scan[n].returns
       /\ scan[n - 1].exit # {} => scan[n] = scan[n - 1]
  BY <1>9, NextType
<1>11. P(n) BY <1>8, <1>10
<1> QED BY <1>4, <1>11

(* Words that are no instructions change nothing. *)
LEMMA ScanSkips ==
    ASSUME Size \in Nat, NEW h \in Positions, NEW scan, IsScan(h, scan),
           NEW i \in (h - 1)..Size, NEW j \in (h - 1)..Size, i <= j,
           \A w \in Insts : ~(i < w /\ w <= j)
    PROVE  scan[j] = scan[i]
<1> DEFINE Q == {n \in Nat : i <= n /\ n <= j /\ scan[n] # scan[i]}
<1>1. h \in Nat /\ h >= 1 /\ Size \in Nat /\ i \in Nat /\ j \in Nat BY DEF Positions
<1>2. SUFFICES Q = {} BY <1>1
<1>3. SUFFICES ASSUME Q # {} PROVE FALSE OBVIOUS
<1>4. PICK n \in Q : \A m \in Q : n <= m
  <2>1. Q \in SUBSET Nat /\ Q # {} BY <1>3
  <2> HIDE DEF Q
  <2> QED BY <2>1, Least
<1>5. n # i BY <1>4
<1>6. n - 1 \in Nat /\ n - 1 \notin Q /\ i <= n - 1 /\ n \in h..Size /\ n - 1 \in (h - 1)..Size
  BY <1>1, <1>4, <1>5
<1>7. scan[n - 1] = scan[i] BY <1>1, <1>4, <1>6
<1>8. n \in Positions /\ scan[n - 1] \in Scans /\ scan[n] = ScanNext(scan[n - 1], n)
  BY <1>1, <1>6 DEF IsScan, Positions
<1>9. n \notin Insts BY <1>1, <1>4, <1>6
<1>10. scan[n] = scan[n - 1] BY <1>8, <1>9, NextType
<1> QED BY <1>4, <1>7, <1>10

(* A loop of code whose loops are nested, and its scan. *)
Scanned(h, scan) == NestedLoops /\ h \in Headers /\ IsScan(h, scan)

LEMMA ScannedTypes ==
    ASSUME NEW h, NEW scan, Scanned(h, scan)
    PROVE  /\ h \in Positions /\ h \in Insts /\ h \in Nat /\ h >= 1 /\ Size \in Nat
           /\ Insts \subseteq Positions /\ Positions \subseteq Nat
           /\ \A j \in Positions : j <= Size
           /\ \A j \in h..Size : /\ j \in Positions /\ j \in (h - 1)..Size /\ j - 1 \in (h - 1)..Size
                                 /\ scan[j - 1] \in Scans /\ scan[j] \in Scans
                                 /\ scan[j] = ScanNext(scan[j - 1], j)
<1>1. /\ h \in Positions /\ h \in Insts /\ h \in Nat /\ h >= 1 /\ Size \in Nat
      /\ Insts \subseteq Positions /\ Positions \subseteq Nat
      /\ \A j \in Positions : j <= Size
  BY DEF Scanned, NestedLoops, WaysGoOn, Headers, Positions
<1>2. \A j \in h..Size : j \in Positions /\ j \in (h - 1)..Size /\ j - 1 \in (h - 1)..Size
  BY <1>1 DEF Positions
<1> QED BY <1>1, <1>2 DEF Scanned, IsScan

(* A scan that is live looks at all that is not behind a jump or a return. *)
Open(scan, m) ==
    \/ scan[m].live
    \/ \E f \in Insts \cap Starts : f > m /\ \A w \in Insts : ~(m < w /\ w < f)

LEMMA StaysOpen ==
    ASSUME NEW h, NEW scan, Scanned(h, scan),
           NEW i \in Insts \cap Starts, NEW j \in Insts, h <= i, i <= j, scan[j - 1].exit = {},
           \A w \in Insts : i <= w /\ w < j => Op(w) \notin {"Br", "Ret"}
    PROVE  \A m \in i..(j - 1) : Open(scan, m)
<1> DEFINE Q == {n \in Nat : i <= n /\ n <= j - 1 /\ ~Open(scan, n)}
<1>1. /\ h \in Positions /\ h \in Nat /\ h >= 1 /\ Size \in Nat /\ Insts \subseteq Positions
      /\ i \in Nat /\ j \in Nat /\ j <= Size /\ IsScan(h, scan)
  BY ScannedTypes DEF Scanned
<1>2. SUFFICES Q = {} BY <1>1
<1>3. SUFFICES ASSUME Q # {} PROVE FALSE OBVIOUS
<1>4. PICK n \in Q : \A m \in Q : n <= m
  <2>1. Q \in SUBSET Nat /\ Q # {} BY <1>3
  <2> HIDE DEF Q
  <2> QED BY <2>1, Least
<1>5. n \in h..Size /\ n \in Nat /\ i <= n /\ n <= j - 1 /\ ~Open(scan, n) BY <1>1, <1>4
<1>6. /\ n \in Positions /\ n - 1 \in (h - 1)..Size /\ scan[n - 1] \in Scans
      /\ scan[n] = ScanNext(scan[n - 1], n)
  BY <1>5, ScannedTypes
<1>7. scan[n - 1].exit = {}
  <2>1. j - 1 \in (h - 1)..Size /\ n - 1 <= j - 1 BY <1>1, <1>5
  <2> QED BY <1>1, <1>6, <2>1, ScanGrows
<1>8. n > i => Open(scan, n - 1)
  <2> SUFFICES ASSUME n > i PROVE Open(scan, n - 1) OBVIOUS
  <2>1. n - 1 \in Nat /\ i <= n - 1 /\ n - 1 <= j - 1 /\ n - 1 \notin Q BY <1>1, <1>4, <1>5
  <2> QED BY <2>1
<1>9. n \in Insts => n \in Starts \/ scan[n - 1].live
  <2> SUFFICES ASSUME n \in Insts, n > i PROVE n \in Starts \/ scan[n - 1].live BY <1>5, <1>1
  <2>1. CASE scan[n - 1].live BY <2>1
  <2>2. CASE \E f \in Insts \cap Starts : f > n - 1 /\ \A w \in Insts : ~(n - 1 < w /\ w < f)
    <3>1. PICK f \in Insts \cap Starts : f > n - 1 /\ \A w \in Insts : ~(n - 1 < w /\ w < f) BY <2>2
    <3>2. f \in Nat BY <1>1 DEF Positions
    <3>3. f = n BY <1>5, <3>1, <3>2
    <3> QED BY <3>3
  <2> QED BY <1>8, <2>1, <2>2 DEF Open
<1>10. n \notin Insts => Open(scan, n)
  <2> SUFFICES ASSUME n \notin Insts PROVE Open(scan, n) OBVIOUS
  <2>1. n > i BY <1>1, <1>5
  <2>2. scan[n] = scan[n - 1] BY <1>6, NextType
  <2>3. CASE scan[n - 1].live BY <2>2, <2>3 DEF Open
  <2>4. CASE \E f \in Insts \cap Starts : f > n - 1 /\ \A w \in Insts : ~(n - 1 < w /\ w < f)
    <3>1. PICK f \in Insts \cap Starts : f > n - 1 /\ \A w \in Insts : ~(n - 1 < w /\ w < f) BY <2>4
    <3>2. f \in Nat /\ f # n BY <1>1 DEF Positions
    <3>3. f > n /\ \A w \in Insts : ~(n < w /\ w < f)
      <4>1. f > n BY <1>5, <3>1, <3>2
      <4>2. \A w \in Insts : w \in Nat BY <1>1 DEF Positions
      <4> QED BY <1>5, <3>1, <3>2, <4>1, <4>2
    <3> QED BY <3>3 DEF Open
  <2> QED BY <1>8, <2>1, <2>3, <2>4 DEF Open
<1>11. n \in Insts => Open(scan, n)
  <2> SUFFICES ASSUME n \in Insts PROVE Open(scan, n) OBVIOUS
  <2>1. AtBlock(scan[n - 1], n).live BY <1>6, <1>9, BlockType
  <2>2. Looks(scan[n - 1], n) BY <1>7, <2>1 DEF Looks
  <2>3. Op(n) \notin {"Br", "Ret"} BY <1>1, <1>5
  <2>4. Follow(n) \notin Starts => scan[n].live BY <1>6, <2>2, <2>3, LookPasses
  <2>5. Follow(n) \in Follows[n] BY <2>3 DEF Follows
  <2>6. /\ Follow(n) \in Insts /\ Follow(n) > n
        /\ \A w \in Insts : ~(n < w /\ w < Follow(n))
    BY <2>3, <2>5 DEF Scanned, NestedLoops, WaysGoOn
  <2> QED BY <2>4, <2>6 DEF Open
<1> QED BY <1>5, <1>10, <1>11

LEMMA MarksAreLookedAt ==
    ASSUME NEW h, NEW scan, Scanned(h, scan),
           NEW j \in Insts, h <= j, Op(j) \in {"LoopStart", "LoopEnd"}, scan[j - 1].exit = {}
    PROVE  Looks(scan[j - 1], j)
<1>1. /\ h \in Positions /\ h \in Insts /\ h \in Nat /\ h >= 1 /\ Size \in Nat /\ Insts \subseteq Positions
      /\ j \in Nat /\ j <= Size /\ h \in Starts
  BY ScannedTypes DEF Scanned, Headers
<1>2. PICK i \in Insts \cap Starts :
        h <= i /\ i <= j /\ \A w \in Insts : i <= w /\ w < j => Op(w) \notin {"Br", "Ret"}
  <2>1. PICK i \in Starts \cap Insts :
          i <= j /\ \A w \in Insts : i <= w /\ w < j => Op(w) \notin {"Br", "Ret"}
    BY DEF Scanned, NestedLoops, MarksAreScanned
  <2>2. \A w \in Insts : w \in Nat BY <1>1 DEF Positions
  <2>3. CASE h <= i BY <2>1, <2>3
  <2>4. CASE ~(h <= i)
    <3>1. \A w \in Insts : h <= w /\ w < j => Op(w) \notin {"Br", "Ret"} BY <1>1, <2>1, <2>2, <2>4
    <3> QED BY <1>1, <3>1
  <2> QED BY <2>3, <2>4
<1>3. i \in Nat /\ j \in h..Size BY <1>1, <1>2 DEF Positions
<1>4. j \in Positions /\ scan[j - 1] \in Scans BY <1>3, ScannedTypes
<1>5. j \in Starts \/ scan[j - 1].live
  <2> SUFFICES ASSUME i # j PROVE j \in Starts \/ scan[j - 1].live BY <1>2
  <2>1. j - 1 \in i..(j - 1) BY <1>1, <1>2, <1>3
  <2>2. Open(scan, j - 1) BY <1>2, <2>1, StaysOpen
  <2> SUFFICES ASSUME NEW f \in Insts \cap Starts, f > j - 1,
                      \A w \in Insts : ~(j - 1 < w /\ w < f)
               PROVE  j \in Starts
    BY <2>2 DEF Open
  <2>3. f \in Nat BY <1>1 DEF Positions
  <2>4. f = j BY <1>1, <2>3
  <2> QED BY <2>4
<1> QED BY <1>4, <1>5, BlockType DEF Looks

(* The level of a scan is how many loops are open, until it has seen the end *)
(* of its loop.                                                             *)
Levelled(h, scan, n) ==
    scan[n].exit = {} =>
        /\ scan[n].level = Level(h, n)
        /\ \A i \in Insts \cap (h..n) : Level(h, i) > 0
        /\ n >= h => Level(h, n) > 0

LEMMA LevelsAgree ==
    ASSUME NEW h, NEW scan, Scanned(h, scan)
    PROVE  \A j \in (h - 1)..Size : Levelled(h, scan, j)
<1> DEFINE Q == {n \in Nat : h - 1 <= n /\ n <= Size /\ ~Levelled(h, scan, n)}
<1>1. /\ h \in Positions /\ h \in Insts /\ h \in Nat /\ h >= 1 /\ Size \in Nat /\ Insts \subseteq Positions
      /\ h \in Starts /\ Op(h) = "LoopStart" /\ IsScan(h, scan)
  BY ScannedTypes DEF Scanned, Headers
<1>2. SUFFICES Q = {} BY <1>1
<1>3. SUFFICES ASSUME Q # {} PROVE FALSE OBVIOUS
<1>4. PICK n \in Q : \A m \in Q : n <= m
  <2>1. Q \in SUBSET Nat /\ Q # {} BY <1>3
  <2> HIDE DEF Q
  <2> QED BY <2>1, Least
<1>5. n # h - 1
  <2>1. Level(h, h - 1) = 0 BY <1>1, LevelNone
  <2>2. scan[h - 1].level = 0 BY <1>1 DEF IsScan, NewScan
  <2>3. Levelled(h, scan, h - 1) BY <1>1, <2>1, <2>2 DEF Levelled
  <2> QED BY <1>4, <2>3
<1>6. n \in h..Size /\ n \in Nat /\ h <= n /\ ~Levelled(h, scan, n) /\ Levelled(h, scan, n - 1)
  BY <1>1, <1>4, <1>5
<1>7. /\ n \in Positions /\ n - 1 \in (h - 1)..Size /\ n \in (h - 1)..Size
      /\ scan[n - 1] \in Scans /\ scan[n] = ScanNext(scan[n - 1], n)
  BY <1>6, ScannedTypes
<1>8. scan[n].exit = {} BY <1>6 DEF Levelled
<1>9. scan[n - 1].exit = {} BY <1>7, <1>8, NextType
<1>10. /\ scan[n - 1].level = Level(h, n - 1) /\ Level(h, n - 1) \in Int /\ Level(h, n) \in Int
       /\ \A i \in Insts \cap (h..(n - 1)) : Level(h, i) > 0
       /\ n > h => Level(h, n - 1) > 0
       /\ n = h => Level(h, n - 1) = 0
  <2>1. n - 1 \in Int /\ n \in Int BY <1>6
  <2>2. Level(h, n - 1) \in Int /\ Level(h, n) \in Int BY <1>1, <2>1, LevelIs
  <2>3. n = h => Level(h, n - 1) = 0 BY <1>1, LevelNone
  <2> QED BY <1>1, <1>6, <1>9, <2>2, <2>3 DEF Levelled
<1>11. /\ n \in Insts /\ Op(n) = "LoopStart" => Level(h, n) = Level(h, n - 1) + 1
       /\ n \in Insts /\ Op(n) = "LoopEnd" => Level(h, n) = Level(h, n - 1) - 1
       /\ n \notin Insts \/ Op(n) \notin {"LoopStart", "LoopEnd"} => Level(h, n) = Level(h, n - 1)
  BY <1>1, <1>6, LevelStep
<1>12. scan[n].level = Level(h, n) /\ Level(h, n) > 0
  <2>1. CASE n \notin Insts
    <3>1. scan[n] = scan[n - 1] BY <1>7, <2>1, NextType
    <3> QED BY <1>1, <1>6, <1>10, <1>11, <2>1, <3>1
  <2>2. CASE n \in Insts /\ ~Looks(scan[n - 1], n)
    <3>1. Op(n) \notin {"LoopStart", "LoopEnd"} BY <1>6, <1>9, <2>2, MarksAreLookedAt
    <3>2. scan[n].level = scan[n - 1].level BY <1>7, <1>9, <2>2, PassesOver
    <3> QED BY <1>1, <1>6, <1>10, <1>11, <3>1, <3>2
  <2>3. CASE n \in Insts /\ Looks(scan[n - 1], n)
    <3>1. /\ Op(n) = "LoopStart" => scan[n].level = scan[n - 1].level + 1
          /\ Op(n) = "LoopEnd" => scan[n].level = scan[n - 1].level - 1
          /\ Op(n) \notin {"LoopStart", "LoopEnd"} => scan[n].level = scan[n - 1].level
          /\ Op(n) = "LoopEnd" /\ scan[n - 1].level = 1 => scan[n].exit = {In(scan[n - 1], n)}
      BY <1>7, <2>3, LookLevels
    <3>2. CASE Op(n) = "LoopStart" BY <1>1, <1>6, <1>10, <1>11, <2>3, <3>1, <3>2
    <3>3. CASE Op(n) = "LoopEnd"
      <4>1. scan[n - 1].level # 1 /\ n > h BY <1>1, <1>6, <1>8, <3>1, <3>3
      <4> QED BY <1>10, <1>11, <2>3, <3>1, <3>3, <4>1
    <3>4. CASE Op(n) \notin {"LoopStart", "LoopEnd"} BY <1>1, <1>6, <1>10, <1>11, <2>3, <3>1, <3>4
    <3> QED BY <3>2, <3>3, <3>4
  <2> QED BY <2>1, <2>2, <2>3
<1>13. \A i \in Insts \cap (h..n) : Level(h, i) > 0
  <2> SUFFICES ASSUME NEW i \in Insts \cap (h..n), i # n PROVE Level(h, i) > 0 BY <1>12
  <2>1. i \in h..(n - 1) BY <1>1, <1>6
  <2> QED BY <1>10, <2>1
<1> QED BY <1>6, <1>12, <1>13 DEF Levelled

(* The scan ends where the loop is closed, with the info there.             *)
LEMMA EndsAtClose ==
    ASSUME NEW h, NEW scan, Scanned(h, scan), NEW j \in (h - 1)..Size, scan[j].exit # {}
    PROVE  \E c \in Insts \cap (h..j) : /\ Closes(h, c) /\ Looks(scan[c - 1], c)
                                       /\ scan[c].exit = {In(scan[c - 1], c)} /\ scan[j] = scan[c]
<1> DEFINE Q == {n \in Nat : h - 1 <= n /\ n <= j /\ scan[n].exit # {}}
<1>1. /\ h \in Positions /\ h \in Insts /\ h \in Nat /\ h >= 1 /\ Size \in Nat /\ Insts \subseteq Positions
      /\ h \in Starts /\ Op(h) = "LoopStart" /\ IsScan(h, scan) /\ j \in Nat
  BY ScannedTypes DEF Scanned, Headers
<1>2. j \in Q BY <1>1
<1>4. PICK n \in Q : \A m \in Q : n <= m
  <2>1. Q \in SUBSET Nat /\ Q # {} BY <1>2
  <2> HIDE DEF Q
  <2> QED BY <2>1, Least
<1>5. n # h - 1 BY <1>1, <1>4 DEF IsScan, NewScan
<1>6. n \in h..Size /\ n \in Nat /\ h <= n /\ n <= j /\ scan[n].exit # {} /\ scan[n - 1].exit = {}
  BY <1>1, <1>4, <1>5
<1>7. /\ n \in Positions /\ n - 1 \in (h - 1)..Size /\ n \in (h - 1)..Size
      /\ scan[n - 1] \in Scans /\ scan[n] = ScanNext(scan[n - 1], n)
  BY <1>6, ScannedTypes
<1>8. n \in Insts /\ Looks(scan[n - 1], n)
  <2>1. n \in Insts BY <1>6, <1>7, NextType
  <2> QED BY <1>6, <1>7, <2>1, PassesOver
<1>9. Op(n) = "LoopEnd" /\ scan[n - 1].level = 1 /\ scan[n].exit = {In(scan[n - 1], n)}
  BY <1>6, <1>7, <1>8, LookLevels
<1>10. Levelled(h, scan, n - 1) BY <1>7, LevelsAgree
<1>11. Level(h, n - 1) = 1 /\ \A i \in Insts \cap (h..(n - 1)) : Level(h, i) > 0
  BY <1>6, <1>9, <1>10 DEF Levelled
<1>12. Level(h, n) = 0
  <2>1. Level(h, n) = Level(h, n - 1) - 1 BY <1>1, <1>6, <1>8, <1>9, LevelStep
  <2> QED BY <1>11, <2>1
<1>13. Closes(h, n) BY <1>1, <1>6, <1>9, <1>11, <1>12 DEF Closes
<1>14. scan[j] = scan[n] BY <1>1, <1>6, <1>7, ScanGrows
<1> QED BY <1>6, <1>8, <1>9, <1>13, <1>14

(* What the scan looks at is in the loop, or closes it.                     *)
LEMMA LooksInside ==
    ASSUME NEW h, NEW scan, Scanned(h, scan), NEW j \in Insts, h <= j, Looks(scan[j - 1], j)
    PROVE  /\ j \in h..Size /\ scan[j - 1].exit = {}
           /\ Closes(h, j) => scan[j].exit = {In(scan[j - 1], j)}
           /\ ~Closes(h, j) => Within(h, j) /\ scan[j].level = Level(h, j)
<1>1. /\ h \in Positions /\ h \in Insts /\ h \in Nat /\ h >= 1 /\ Size \in Nat /\ Insts \subseteq Positions
      /\ h \in Starts /\ Op(h) = "LoopStart" /\ j \in Nat /\ j \in h..Size
  BY ScannedTypes DEF Scanned, Headers
<1>2. scan[j - 1].exit = {} BY DEF Looks
<1>3. /\ j \in Positions /\ j - 1 \in (h - 1)..Size /\ j \in (h - 1)..Size
      /\ scan[j - 1] \in Scans /\ scan[j] = ScanNext(scan[j - 1], j)
  BY <1>1, ScannedTypes
<1>4. Levelled(h, scan, j - 1) /\ Levelled(h, scan, j) BY <1>3, LevelsAgree
<1>5. /\ scan[j - 1].level = Level(h, j - 1) /\ Level(h, j - 1) \in Int
      /\ \A i \in Insts \cap (h..(j - 1)) : Level(h, i) > 0
  <2>1. j - 1 \in Int BY <1>1
  <2> QED BY <1>1, <1>2, <1>4, <2>1, LevelIs DEF Levelled
<1>6. CASE Closes(h, j)
  <2>1. Op(j) = "LoopEnd" /\ Level(h, j) = 0 BY <1>6 DEF Closes
  <2>2. Level(h, j) = Level(h, j - 1) - 1 BY <1>1, <2>1, LevelStep
  <2>3. scan[j - 1].level = 1 BY <1>5, <2>1, <2>2
  <2> QED BY <1>1, <1>2, <1>3, <1>6, <2>1, <2>3, LookLevels
<1>7. CASE ~Closes(h, j)
  <2>1. scan[j].exit = {}
    <3> SUFFICES ASSUME scan[j].exit # {} PROVE FALSE OBVIOUS
    <3>1. Op(j) = "LoopEnd" /\ scan[j - 1].level = 1 BY <1>3, LookLevels
    <3>2. Level(h, j) = 0
      <4>1. Level(h, j) = Level(h, j - 1) - 1 BY <1>1, <3>1, LevelStep
      <4> QED BY <1>5, <3>1, <4>1
    <3>3. h < j BY <1>1, <3>1
    <3> QED BY <1>5, <1>7, <3>1, <3>2, <3>3 DEF Closes
  <2> QED BY <1>1, <1>2, <1>4, <1>7, <2>1 DEF Levelled, Within
<1> QED BY <1>6, <1>7

(* A way on stays looked at, and carries what is known of the slots.        *)
LEMMA WaysAreLookedAt ==
    ASSUME NEW h, NEW scan, Scanned(h, scan), NEW a \in Insts, h <= a, Looks(scan[a - 1], a),
           ~Closes(h, a), NEW b \in Onward[a]
    PROVE  /\ b \in Insts /\ a < b /\ Looks(scan[b - 1], b)
           /\ \A s \in Slots :
                /\ Out(scan[a - 1], a)[s] = "Used" => In(scan[b - 1], b)[s] = "Used"
                /\ In(scan[b - 1], b)[s] = "NotUsed" => Out(scan[a - 1], a)[s] = "NotUsed"
<1>1. /\ h \in Positions /\ h \in Insts /\ h \in Nat /\ h >= 1 /\ Size \in Nat /\ Insts \subseteq Positions
      /\ Op(h) = "LoopStart" /\ IsScan(h, scan)
  BY ScannedTypes DEF Scanned, Headers
<1>2. b \in Follows[a] /\ b > a BY DEF Onward
<1>3. b \in Insts BY <1>2 DEF Scanned, NestedLoops, WaysGoOn
<1>4. a \in Nat /\ b \in Nat /\ b \in Positions /\ a \in h..Size /\ b \in h..Size /\ a <= b - 1
  BY <1>1, <1>2, <1>3 DEF Positions
<1>5. Within(h, a) BY LooksInside
<1>6. Within(h, b) \/ Closes(h, b)
  <2>1. h \in {i \in Insts : Op(i) = "LoopStart"} BY <1>1
  <2> QED BY <1>3, <1>5, <2>1 DEF Scanned, NestedLoops, EntersAtHeader
<1>7. \A i \in Insts \cap (h..(b - 1)) : Level(h, i) > 0
  <2>1. h..(b - 1) \subseteq h..b BY <1>4
  <2> QED BY <1>6, <2>1 DEF Within, Closes
<1>8. /\ b - 1 \in (h - 1)..Size /\ a \in (h - 1)..Size /\ scan[b - 1] \in Scans
      /\ a \in Positions /\ scan[a - 1] \in Scans /\ scan[a] = ScanNext(scan[a - 1], a)
      /\ scan[a] \in Scans
  BY <1>4, ScannedTypes
<1>9. scan[b - 1].exit = {}
  <2> SUFFICES ASSUME scan[b - 1].exit # {} PROVE FALSE OBVIOUS
  <2>1. PICK c \in Insts \cap (h..(b - 1)) : Closes(h, c) BY <1>8, EndsAtClose
  <2>2. Level(h, c) = 0 BY <2>1 DEF Closes
  <2> QED BY <1>7, <2>1, <2>2
<1> DEFINE o == Out(scan[a - 1], a)
<1>10. \/ o \in scan[a].into[b] /\ b \in Starts
       \/ /\ scan[a].live /\ scan[a].info = o /\ b \notin Starts
          /\ b = Follow(a) /\ Op(a) \notin {"Br", "Ret"}
  <2>1. CASE b \in BranchesTo(a)
    <3>1. Op(a) \in Branches /\ b = Dest(a) BY <2>1 DEF BranchesTo
    <3>2. b \in Starts BY <2>1 DEF Starts
    <3>3. o \in scan[a].into[b] BY <1>2, <1>4, <1>8, <3>1, LookPasses
    <3> QED BY <3>2, <3>3
  <2>2. CASE Op(a) \notin {"Br", "Ret"} /\ b = Follow(a) BY <1>4, <1>8, <2>2, LookPasses
  <2> QED BY <1>2, <2>1, <2>2 DEF Follows
<1> HIDE DEF o
<1>11. CASE o \in scan[a].into[b] /\ b \in Starts
  <2>1. o \in scan[b - 1].into[b] BY <1>1, <1>4, <1>8, <1>11, ScanGrows
  <2>2. AtBlock(scan[b - 1], b).live /\ AtBlock(scan[b - 1], b).info = MergeInfos(scan[b - 1].into[b])
    BY <1>4, <1>8, <1>11, BlockType
  <2>3. Looks(scan[b - 1], b) BY <1>9, <2>2 DEF Looks
  <2>4. In(scan[b - 1], b) = MergeInfos(scan[b - 1].into[b]) BY <2>2 DEF In
  <2> DEFINE infos == scan[b - 1].into[b]
  <2>5. o \in infos /\ In(scan[b - 1], b) = MergeInfos(infos) BY <2>1, <2>4
  <2> HIDE DEF infos
  <2>6. ASSUME NEW s \in Slots
        PROVE  /\ o[s] = "Used" => In(scan[b - 1], b)[s] = "Used"
               /\ In(scan[b - 1], b)[s] = "NotUsed" => o[s] = "NotUsed"
    BY <2>5, MergeMarks
  <2> QED BY <1>3, <1>2, <2>3, <2>6 DEF o
<1>12. CASE /\ scan[a].live /\ scan[a].info = o /\ b \notin Starts
            /\ b = Follow(a) /\ Op(a) \notin {"Br", "Ret"}
  <2>1. \A w \in Insts : ~(a < w /\ w < b)
    BY <1>12 DEF Scanned, NestedLoops, WaysGoOn
  <2>2. \A w \in Insts : ~(a < w /\ w <= b - 1)
    <3>1. \A w \in Insts : w \in Nat BY <1>1 DEF Positions
    <3> QED BY <1>4, <2>1, <3>1
  <2>3. scan[b - 1] = scan[a] BY <1>1, <1>4, <1>8, <2>2, ScanSkips
  <2>4. AtBlock(scan[b - 1], b) = scan[b - 1] BY <1>4, <1>8, <1>12, BlockType
  <2>5. Looks(scan[b - 1], b) /\ In(scan[b - 1], b) = o BY <1>9, <1>12, <2>3, <2>4 DEF Looks, In
  <2> QED BY <1>2, <1>3, <2>5 DEF o
<1> QED BY <1>10, <1>11, <1>12

(* A slot that is not needed has no use where a way through the loop ends.  *)
LEMMA EndsAreNotUsed ==
    ASSUME NEW h, NEW scan, Scanned(h, scan), NEW s \in Slots, s \in Unneeded(scan[Size]),
           NEW x \in Insts, h <= x, Looks(scan[x - 1], x), x \in Ends(h)
    PROVE  Out(scan[x - 1], x)[s] = "NotUsed"
<1>1. /\ h \in Positions /\ h \in Insts /\ h \in Nat /\ h >= 1 /\ Size \in Nat /\ IsScan(h, scan)
      /\ x \in h..Size
  BY ScannedTypes, LooksInside DEF Scanned
<1>2. /\ x \in Positions /\ scan[x - 1] \in Scans /\ scan[x] = ScanNext(scan[x - 1], x)
      /\ x \in (h - 1)..Size /\ Size \in (h - 1)..Size /\ x <= Size
  BY <1>1, ScannedTypes
<1> DEFINE k == scan[Size]
           exit == IF k.exit = {} THEN {NoInfo} ELSE k.exit
           returns == IF k.returns = {} THEN {} ELSE {MergeInfos(k.returns)}
           back == {MergeInfos(k.back)}
           all == exit \cup back \cup returns
<1>3. /\ scan[x].back \subseteq k.back /\ scan[x].returns \subseteq k.returns
      /\ scan[x].exit # {} => k = scan[x]
  BY <1>1, <1>2, ScanGrows
<1>4. \A i \in all : i[s] = "NotUsed"
  <2>1. MergeInfos(all)[s] = "NotUsed" BY DEF Unneeded
  <2> HIDE DEF all
  <2> QED BY <2>1, MergeMarks
<1>5. \A i \in k.exit : i[s] = "NotUsed"
  <2>1. k.exit \subseteq all OBVIOUS
  <2> HIDE DEF all, k
  <2> QED BY <1>4, <2>1
<1>6. \A i \in k.back : i[s] = "NotUsed"
  <2>1. MergeInfos(k.back) \in all OBVIOUS
  <2> HIDE DEF all, k
  <2>2. MergeInfos(k.back)[s] = "NotUsed" BY <1>4, <2>1
  <2> QED BY <2>2, MergeMarks
<1>7. \A i \in k.returns : i[s] = "NotUsed"
  <2>1. k.returns # {} => MergeInfos(k.returns) \in all OBVIOUS
  <2> HIDE DEF all, k
  <2>2. k.returns # {} => MergeInfos(k.returns)[s] = "NotUsed" BY <1>4, <2>1
  <2> QED BY <2>2, MergeMarks
<1> HIDE DEF k
<1>8. CASE Closes(h, x)
  <2>1. Op(x) = "LoopEnd" BY <1>8 DEF Closes
  <2>2. Out(scan[x - 1], x) = In(scan[x - 1], x) BY <1>2, <2>1, InfosPass
  <2>3. scan[x].exit = {In(scan[x - 1], x)} BY <1>8, LooksInside
  <2> QED BY <1>3, <1>5, <2>2, <2>3
<1>9. CASE h \in BranchesTo(x)
  <2>1. Op(x) \in Branches /\ Dest(x) = h BY <1>9 DEF BranchesTo
  <2>2. ~Closes(h, x) BY <2>1 DEF Closes, Branches
  <2>3. Level(h, x) = 1 BY <1>9 DEF Scanned, NestedLoops, BackToHeader
  <2>4. scan[x].level = 1 BY <2>2, <2>3, LooksInside
  <2>5. ~(Dest(x) > x) BY <1>1, <2>1
  <2>6. Out(scan[x - 1], x) \in scan[x].back BY <1>2, <2>1, <2>4, <2>5, LookPasses
  <2> QED BY <1>3, <1>6, <2>6
<1>10. CASE Op(x) = "Ret"
  <2>1. Out(scan[x - 1], x) = In(scan[x - 1], x) BY <1>2, <1>10, InfosPass
  <2>2. In(scan[x - 1], x) \in scan[x].returns BY <1>2, <1>10, LookPasses
  <2> QED BY <1>3, <1>7, <2>1, <2>2
<1> QED BY <1>8, <1>9, <1>10 DEF Ends

(* Nothing is known at the header, where the scan starts.                   *)
LEMMA StartsAtHeader ==
    ASSUME NEW h, NEW scan, Scanned(h, scan), NEW s \in Slots
    PROVE  Looks(scan[h - 1], h) /\ In(scan[h - 1], h)[s] # "NotUsed"
<1>1. h \in Positions /\ h \in Starts /\ scan[h - 1] = NewScan
  BY ScannedTypes DEF Scanned, Headers, IsScan
<1> DEFINE k == NewScan
<1>2. k \in Scans /\ k.into[h] = {} /\ k.exit = {} /\ scan[h - 1] = k
  BY <1>1, NewScanType DEF NewScan
<1> HIDE DEF k
<1> DEFINE infos == k.into[h]
<1>3. AtBlock(k, h).live /\ AtBlock(k, h).info = MergeInfos(infos) BY <1>1, <1>2, BlockType
<1>4. infos = {} BY <1>2
<1> HIDE DEF infos
<1>5. MergeInfos(infos)[s] # "NotUsed" BY <1>4, MergeMarks
<1> QED BY <1>2, <1>3, <1>5 DEF Looks, In

-----------------------------------------------------------------------------
(* The ways on from a header on which a slot is not set.                    *)

Onwards(X, stops) == \A a \in X : a \notin stops => Onward[a] \subseteq X
Reach(h, stops) ==
    {x \in Insts : \A X \in SUBSET Insts : h \in X /\ Onwards(X, stops) => x \in X}

LEMMA ReachIsLeast ==
    ASSUME WaysGoOn, NEW h \in Insts, NEW stops
    PROVE  /\ h \in Reach(h, stops) /\ Reach(h, stops) \in SUBSET Insts
           /\ Onwards(Reach(h, stops), stops)
           /\ \A X \in SUBSET Insts : h \in X /\ Onwards(X, stops) => Reach(h, stops) \subseteq X
<1>1. h \in Reach(h, stops) /\ Reach(h, stops) \in SUBSET Insts BY DEF Reach
<1>2. \A X \in SUBSET Insts : h \in X /\ Onwards(X, stops) => Reach(h, stops) \subseteq X
  BY DEF Reach
<1>3. ASSUME NEW a \in Reach(h, stops), a \notin stops, NEW b \in Onward[a]
      PROVE  b \in Reach(h, stops)
  <2>1. a \in Insts BY DEF Reach
  <2>2. b \in Insts BY <2>1 DEF WaysGoOn, Onward
  <2>3. ASSUME NEW X \in SUBSET Insts, h \in X, Onwards(X, stops) PROVE b \in X
    <3>1. a \in X BY <2>3 DEF Reach
    <3> QED BY <1>3, <2>3, <3>1 DEF Onwards
  <2> QED BY <2>2, <2>3 DEF Reach
<1> QED BY <1>1, <1>2, <1>3 DEF Onwards

(* Ways on from a header on which s is not set stay in the loop, and are    *)
(* looked at: s is never marked as not used on them.                        *)
LEMMA ReachIsLookedAt ==
    ASSUME NEW h, NEW scan, Scanned(h, scan), NEW s \in Slots, s \in Unneeded(scan[Size]),
           NEW x \in Reach(h, {i \in Insts : s \in DefSlots(i)})
    PROVE  /\ x \in Insts /\ h <= x /\ Looks(scan[x - 1], x) /\ In(scan[x - 1], x)[s] # "NotUsed"
           /\ Op(x) # "Ret" /\ ~Closes(h, x)
           /\ s \notin DefSlots(x) => h \notin BranchesTo(x)
<1> DEFINE stops == {i \in Insts : s \in DefSlots(i)}
           Good(a) == h <= a /\ Looks(scan[a - 1], a) /\ In(scan[a - 1], a)[s] # "NotUsed"
           G == {a \in Insts : Good(a)}
<1>1. WaysGoOn /\ h \in Insts /\ h \in Nat /\ Insts \subseteq Positions /\ Positions \subseteq Nat
  BY ScannedTypes DEF Scanned, NestedLoops
<1>2. ASSUME NEW a \in G
      PROVE  /\ Op(a) # "Ret" /\ ~Closes(h, a)
             /\ s \notin DefSlots(a) => h \notin BranchesTo(a)
  <2>1. a \in Insts /\ h <= a /\ Looks(scan[a - 1], a) /\ In(scan[a - 1], a)[s] # "NotUsed" OBVIOUS
  <2>2. a \in h..Size /\ a \in Positions /\ scan[a - 1] \in Scans
    <3>1. a \in h..Size BY <2>1, LooksInside
    <3> QED BY <3>1, ScannedTypes
  <2>3. a \in Ends(h) => Out(scan[a - 1], a)[s] = "NotUsed" BY <2>1, EndsAreNotUsed
  <2>4. Op(a) \in {"LoopStart", "LoopEnd", "Ret"} => Out(scan[a - 1], a) = In(scan[a - 1], a)
    BY <2>2, InfosPass
  <2>5. Out(scan[a - 1], a)[s] = "NotUsed" => s \in DefSlots(a) BY <2>1, <2>2, InfosPass
  <2>6. Op(a) = "Ret" \/ Closes(h, a) => Op(a) \in {"Ret", "LoopEnd"} /\ a \in Ends(h)
    BY <2>1 DEF Ends, Closes
  <2>7. h \in BranchesTo(a) => a \in Ends(h) BY <2>1 DEF Ends
  <2> QED BY <2>1, <2>3, <2>4, <2>5, <2>6, <2>7
<1>3. Onwards(G, stops)
  <2> SUFFICES ASSUME NEW a \in G, a \notin stops, NEW b \in Onward[a] PROVE b \in G
    BY DEF Onwards
  <2>1. a \in Insts /\ h <= a /\ Looks(scan[a - 1], a) /\ In(scan[a - 1], a)[s] # "NotUsed"
        /\ s \notin DefSlots(a) /\ ~Closes(h, a)
    BY <1>2
  <2>2. a \in h..Size /\ a \in Positions /\ scan[a - 1] \in Scans
    <3>1. a \in h..Size BY <2>1, LooksInside
    <3> QED BY <3>1, ScannedTypes
  <2>3. /\ b \in Insts /\ a < b /\ Looks(scan[b - 1], b)
        /\ In(scan[b - 1], b)[s] = "NotUsed" => Out(scan[a - 1], a)[s] = "NotUsed"
    BY <2>1, WaysAreLookedAt
  <2>4. Out(scan[a - 1], a)[s] # "NotUsed" BY <2>1, <2>2, InfosPass
  <2>5. a \in Nat /\ b \in Nat BY <1>1, <2>1, <2>3
  <2>6. h <= b BY <1>1, <2>1, <2>3, <2>5
  <2> QED BY <2>3, <2>4, <2>6
<1>4. h \in G
  <2>1. Looks(scan[h - 1], h) /\ In(scan[h - 1], h)[s] # "NotUsed" BY StartsAtHeader
  <2> QED BY <1>1, <2>1
<1>5. Reach(h, stops) \subseteq G
  <2>1. G \in SUBSET Insts OBVIOUS
  <2> HIDE DEF G, stops
  <2> QED BY <1>1, <1>3, <1>4, <2>1, ReachIsLeast
<1>6. x \in G BY <1>5
<1> QED BY <1>2, <1>6

(* Ways on enter an inner loop at its header only: a branch back to it leads *)
(* where they have been.                                                     *)
LEMMA HeadersAreReached ==
    ASSUME WaysGoOn, EntersAtHeader, NEW h \in Insts, NEW stops, Insts \subseteq Nat,
           NEW b \in Insts, Op(b) = "LoopStart", h < b, NEW a \in Reach(h, stops), Within(b, a)
    PROVE  b \in Reach(h, stops)
<1> SUFFICES ASSUME b \notin Reach(h, stops) PROVE FALSE OBVIOUS
<1> DEFINE R == Reach(h, stops)
           X == {x \in R : ~Within(b, x)}
<1>1. /\ h \in R /\ R \in SUBSET Insts /\ Onwards(R, stops)
      /\ \A Y \in SUBSET Insts : h \in Y /\ Onwards(Y, stops) => R \subseteq Y
  BY ReachIsLeast
<1>2. b \notin R /\ a \in R OBVIOUS
<1> HIDE DEF R
<1>3. h \in X
  <2>1. ~Within(b, h) BY DEF Within
  <2> QED BY <1>1, <2>1
<1>4. ASSUME NEW x \in X, x \notin stops, NEW y \in Onward[x] PROVE y \in X
  <2>1. x \in Insts /\ x \in R /\ ~Within(b, x) BY <1>1
  <2>2. y \in R BY <1>1, <1>4, <2>1 DEF Onwards
  <2>3. y \in Insts /\ y > x BY <1>1, <2>1, <2>2 DEF Onward
  <2> SUFFICES ASSUME Within(b, y) PROVE FALSE BY <2>2
  <2>4. ~(x < b)
    <3> SUFFICES ASSUME x < b PROVE FALSE OBVIOUS
    <3>1. b \in {i \in Insts : Op(i) = "LoopStart"} OBVIOUS
    <3>2. y = b BY <2>1, <2>3, <3>1 DEF EntersAtHeader
    <3> QED BY <1>2, <2>2, <3>2
  <2>5. Within(b, x)
    <3>1. b \in Nat /\ x \in Nat /\ y \in Nat BY <2>1, <2>3
    <3>2. b..x \subseteq b..y BY <2>3, <3>1
    <3> QED BY <2>4, <3>1, <3>2 DEF Within
  <2> QED BY <2>1, <2>5
<1>5. Onwards(X, stops) BY <1>4 DEF Onwards
<1>6. a \in X
  <2>1. X \in SUBSET Insts BY <1>1
  <2> HIDE DEF X
  <2> QED BY <1>1, <1>2, <1>3, <1>5, <2>1
<1> QED BY <1>6

(* A branch back in a loop does not leave it.                                *)
LEMMA BranchesStayInside ==
    ASSUME NestedLoops, NEW h \in Insts, Op(h) = "LoopStart",
           NEW a \in Insts, Within(h, a), NEW b \in BranchesTo(a), b <= a
    PROVE  h <= b
<1>1. /\ WaysGoOn /\ BackToHeader /\ Insts \subseteq Nat
  BY DEF NestedLoops, WaysGoOn, Positions
<1>2. b \in Insts
  <2>1. b \in Follows[a] BY DEF Follows
  <2> QED BY <1>1, <2>1 DEF WaysGoOn
<1>3. a \in Nat /\ b \in Nat /\ h \in Nat /\ h <= a BY <1>1, <1>2 DEF Within
<1>4. Within(b, a) /\ Level(b, a) = 1 BY <1>1 DEF BackToHeader
<1> SUFFICES ASSUME b < h PROVE FALSE BY <1>3
<1>5. Level(b, a) = Level(b, h - 1) + Level(h, a) BY <1>3, LevelSplit
<1>6. Level(h, a) > 0 BY <1>3 DEF Within
<1>7. Level(b, h - 1) > 0
  <2> DEFINE Q == {n \in Nat : b <= n /\ n < h /\ ~(Level(b, n) > 0)}
  <2>1. Q = {}
    <3> SUFFICES ASSUME Q # {} PROVE FALSE OBVIOUS
    <3>1. PICK n \in Q : \A m \in Q : n <= m
      <4>1. Q \in SUBSET Nat /\ Q # {} OBVIOUS
      <4> HIDE DEF Q
      <4> QED BY <4>1, Least
    <3>2. \A i \in Insts \cap (b..a) : Level(b, i) > 0 BY <1>4 DEF Within
    <3>3. n \notin Insts
      <4>1. n \in b..a BY <1>3, <3>1
      <4> QED BY <3>1, <3>2, <4>1
    <3>4. Level(b, n) = Level(b, n - 1) BY <1>3, <3>1, <3>3, LevelStep
    <3>5. n # b BY <1>2, <3>3
    <3>6. n - 1 \in Q
      <4>1. n \in Nat /\ b <= n /\ n < h /\ ~(Level(b, n) > 0) BY <3>1
      <4>2. n - 1 \in Nat /\ b <= n - 1 /\ n - 1 < h BY <1>3, <3>5, <4>1
      <4> QED BY <3>4, <4>1, <4>2
    <3> QED BY <3>1, <3>6
  <2>2. h - 1 \in Nat /\ b <= h - 1 /\ h - 1 < h BY <1>3
  <2> QED BY <2>1, <2>2
<1>8. Level(b, h - 1) \in Int /\ Level(h, a) \in Int
  <2>1. h - 1 \in Int /\ a \in Int BY <1>3
  <2> QED BY <1>3, <2>1, LevelIs
<1> QED BY <1>4, <1>5, <1>6, <1>7, <1>8

(* All paths from the header on which s is not set are such ways.           *)
LEMMA PathsAreWaysOn ==
    ASSUME NEW h, NEW scan, Scanned(h, scan), NEW s \in Slots, s \in Unneeded(scan[Size])
    PROVE  LET stops == {i \in Insts : s \in DefSlots(i)}
           IN Ways({h}, stops, Follows) \subseteq Reach(h, stops)
<1> DEFINE stops == {i \in Insts : s \in DefSlots(i)}
           R == Reach(h, stops)
<1>1. /\ WaysGoOn /\ BackToHeader /\ EntersAtHeader /\ h \in Insts /\ h \in Nat
      /\ Insts \subseteq Positions /\ Positions \subseteq Nat /\ Insts \subseteq Nat
  BY ScannedTypes DEF Scanned, NestedLoops
<1>2. /\ h \in R /\ R \in SUBSET Insts /\ Onwards(R, stops)
  <2> HIDE DEF stops
  <2> QED BY <1>1, ReachIsLeast
<1>3. ASSUME NEW a \in R, a \notin stops, NEW b \in Follows[a] PROVE b \in R
  <2>1. /\ a \in Insts /\ h <= a /\ Looks(scan[a - 1], a) /\ ~Closes(h, a)
        /\ s \notin DefSlots(a) => h \notin BranchesTo(a)
    BY <1>3, ReachIsLookedAt
  <2>2. b \in Insts BY <1>1, <2>1 DEF WaysGoOn
  <2>3. a \in Nat /\ b \in Nat BY <1>1, <2>1, <2>2
  <2>4. CASE b > a
    <3>1. b \in Onward[a] BY <2>1, <2>4 DEF Onward
    <3> QED BY <1>2, <1>3, <3>1 DEF Onwards
  <2>5. CASE ~(b > a)
    <3>1. b \in BranchesTo(a) /\ b <= a
      <4>1. Op(a) \notin {"Br", "Ret"} => Follow(a) > a BY <1>1, <2>1 DEF WaysGoOn
      <4> QED BY <2>1, <2>3, <2>5, <4>1 DEF Follows
    <3>2. Op(b) = "LoopStart" /\ Within(b, a) /\ Level(b, a) = 1
      BY <1>1, <2>1, <3>1 DEF BackToHeader
    <3>3. b # h BY <1>3, <2>1, <3>1
    <3>4. ~(b < h)
      <4>1. Within(h, a) BY <2>1, LooksInside
      <4>2. h <= b BY <2>1, <3>1, <4>1, BranchesStayInside DEF Scanned, Headers
      <4> QED BY <1>1, <2>3, <4>2
    <3>5. h < b BY <1>1, <2>3, <3>3, <3>4
    <3> HIDE DEF stops
    <3> QED BY <1>1, <1>3, <2>2, <3>2, <3>5, HeadersAreReached
  <2> QED BY <2>4, <2>5
<1> HIDE DEF R, stops
<1>4. {h} \subseteq R /\ \A a \in R : a \notin stops => Follows[a] \subseteq R BY <1>2, <1>3
<1>5. Ways({h}, stops, Follows) \subseteq R BY <1>1, <1>4, WaysStayIn DEF WaysGoOn
<1> QED BY <1>5 DEF R, stops

-----------------------------------------------------------------------------
(* A read that scan_bb marks is seen at the header, unless every way on from *)
(* it goes around an inner loop.                                             *)
LEMMA UsesAreSeen ==
    ASSUME NEW h, NEW scan, Scanned(h, scan), NEW s \in Slots, s \in Unneeded(scan[Size]),
           NEW j \in Insts, h <= j, Looks(scan[j - 1], j), Out(scan[j - 1], j)[s] = "Used"
    PROVE  OnlyAround(h, j)
<1> DEFINE Good(x) == h <= x /\ Looks(scan[x - 1], x) /\ Out(scan[x - 1], x)[s] = "Used"
           G == {x \in Insts : Good(x)}
<1>1. ASSUME NEW a \in G PROVE a \notin Ends(h)
  <2>1. a \in Insts /\ h <= a /\ Looks(scan[a - 1], a) /\ Out(scan[a - 1], a)[s] = "Used" OBVIOUS
  <2> QED BY <2>1, EndsAreNotUsed
<1>2. ASSUME NEW a \in G, a \notin Ends(h) PROVE Onward[a] \subseteq G
  <2> SUFFICES ASSUME NEW b \in Onward[a] PROVE b \in G OBVIOUS
  <2>1. a \in Insts /\ h <= a /\ Looks(scan[a - 1], a) /\ Out(scan[a - 1], a)[s] = "Used" OBVIOUS
  <2>2. ~Closes(h, a) BY <1>2, <2>1 DEF Ends
  <2>3. /\ b \in Insts /\ a < b /\ Looks(scan[b - 1], b)
        /\ In(scan[b - 1], b)[s] = "Used"
    BY <2>1, <2>2, WaysAreLookedAt
  <2>4. h \in Nat /\ a \in Nat /\ b \in Nat /\ b \in Positions /\ b <= Size
    BY <2>1, <2>3, ScannedTypes
  <2>5. h <= b BY <2>1, <2>3, <2>4
  <2>6. b \in h..Size BY <2>3, <2>5, LooksInside
  <2>7. scan[b - 1] \in Scans BY <2>6, ScannedTypes
  <2>8. Out(scan[b - 1], b)[s] = "Used" BY <2>3, <2>4, <2>7, InfosPass
  <2> QED BY <2>3, <2>5, <2>8
<1>3. j \in G OBVIOUS
<1> HIDE DEF G
<1>4. Ways({j}, Ends(h), Onward) \subseteq G
  <2> DEFINE stops == Ends(h)
  <2>1. {j} \subseteq G /\ \A a \in G : a \notin stops => Onward[a] \subseteq G BY <1>2, <1>3
  <2> HIDE DEF stops
  <2>2. Size \in Nat BY ScannedTypes
  <2>3. Ways({j}, stops, Onward) \subseteq G BY ONLY <2>1, <2>2, WaysStayIn
  <2> QED BY <2>3 DEF stops
<1> QED BY <1>1, <1>4 DEF OnlyAround

(* No slot whose link the header of a loop drops is read before it is set,   *)
(* on any path from there: in all code whose loops are nested the analysis   *)
(* (analysis.rs:19) is right, but for the reads that it does not mark, and   *)
(* those in an inner loop that nothing but its branch back goes on from.     *)
THEOREM AnalysisIsSound == LoopsAreNested => UnneededAreDead
<1> SUFFICES ASSUME NestedLoops, NEW h \in Headers, NEW s \in Unneeded(Scan(h)),
                    NEW j \in Ways({h}, {i \in Insts : s \in DefSlots(i)}, Follows),
                    s \in ReadSlots(j), ~Unmarked(j)
             PROVE  OnlyAround(h, j)
  BY DEF UnneededAreDead, LoopsAreNested
<1> DEFINE scan == ScanFrom(h)
<1>1. Scanned(h, scan) /\ s \in Slots /\ s \in Unneeded(scan[Size])
  <2>1. Size \in Nat /\ h \in Positions BY DEF Headers, NestedLoops, WaysGoOn
  <2>2. IsScan(h, ScanFrom(h)) BY <2>1, ScanIsScan
  <2> QED BY <2>2 DEF Scanned, Scan, Unneeded
<1> HIDE DEF scan
<1>2. j \in Reach(h, {i \in Insts : s \in DefSlots(i)}) BY <1>1, PathsAreWaysOn
<1>3. /\ j \in Insts /\ h <= j /\ Looks(scan[j - 1], j) /\ In(scan[j - 1], j)[s] # "NotUsed"
      /\ Op(j) # "Ret"
  BY <1>1, <1>2, ReachIsLookedAt
<1>4. j \in Positions /\ scan[j - 1] \in Scans
  <2>1. j \in h..Size BY <1>1, <1>3, LooksInside
  <2> QED BY <1>1, <2>1, ScannedTypes
<1>5. /\ s \in UsedSlots(j) /\ Op(j) \notin {"LoopStart", "LoopEnd"}
      /\ ~(DefinesFirst(j) /\ s \in DefSlots(j))
  BY <1>3 DEF NestedLoops, ReadsAreMarked
<1>6. In(scan[j - 1], j)[s] \in {"ND", "Used", "NotUsed"} BY <1>1, <1>4, InfosPass DEF Infos
<1>7. Out(scan[j - 1], j)[s] = "Used" BY <1>1, <1>3, <1>4, <1>5, <1>6, InfosPass
<1> QED BY <1>1, <1>3, <1>7, UsesAreSeen

-----------------------------------------------------------------------------
(* Which blocks are compiled.                                              *)

Closers(h) == {c \in Insts : Closes(h, c)}

LEMMA ReachedFrom ==
    ASSUME WaysGoOn, NEW h \in Insts, NEW stops, NEW x \in Reach(h, stops)
    PROVE  x = h \/ \E a \in Reach(h, stops) : a \notin stops /\ x \in Onward[a]
<1> SUFFICES ASSUME x # h, \A a \in Reach(h, stops) : a \notin stops => x \notin Onward[a]
             PROVE  FALSE
  OBVIOUS
<1> DEFINE R == Reach(h, stops)
           X == R \ {x}
<1>1. /\ h \in R /\ R \in SUBSET Insts /\ Onwards(R, stops)
      /\ \A Y \in SUBSET Insts : h \in Y /\ Onwards(Y, stops) => R \subseteq Y
  BY ReachIsLeast
<1>2. x \in R /\ \A a \in R : a \notin stops => x \notin Onward[a] OBVIOUS
<1> HIDE DEF R
<1>3. Onwards(X, stops) BY <1>1, <1>2 DEF Onwards
<1>4. h \in X /\ X \in SUBSET Insts BY <1>1
<1> QED BY <1>1, <1>2, <1>3, <1>4

(* Every path from the start of the code is passed by ways on.              *)
LEMMA PathsFromStart ==
    ASSUME NestedLoops
    PROVE  Ways({1}, {}, Follows) \subseteq Reach(1, {})
<1> DEFINE R == Reach(1, {})
<1>1. /\ WaysGoOn /\ BackToHeader /\ EntersAtHeader /\ 1 \in Insts /\ Insts \subseteq Nat
      /\ Size \in Nat /\ \A b \in Insts : b >= 1
  BY DEF NestedLoops, WaysGoOn, Positions
<1>2. 1 \in R /\ R \in SUBSET Insts /\ Onwards(R, {}) BY <1>1, ReachIsLeast
<1>3. ASSUME NEW a \in R, NEW b \in Follows[a] PROVE b \in R
  <2>1. a \in Insts /\ b \in Insts BY <1>1, <1>2 DEF WaysGoOn
  <2>2. a \in Nat /\ b \in Nat /\ b >= 1 BY <1>1, <2>1
  <2>3. CASE b > a
    <3>1. b \in Onward[a] BY <2>1, <2>3 DEF Onward
    <3> QED BY <1>2, <3>1 DEF Onwards
  <2>4. CASE ~(b > a)
    <3>1. b \in BranchesTo(a) /\ b <= a
      <4>1. Op(a) \notin {"Br", "Ret"} => Follow(a) > a BY <1>1, <2>1 DEF WaysGoOn
      <4> QED BY <2>1, <2>2, <2>4, <4>1 DEF Follows
    <3>2. Op(b) = "LoopStart" /\ Within(b, a) BY <1>1, <2>1, <3>1 DEF BackToHeader
    <3>3. b # 1 => b \in R BY <1>1, <2>1, <2>2, <3>2, HeadersAreReached
    <3> QED BY <1>2, <3>3
  <2> QED BY <2>3, <2>4
<1> DEFINE stops == {}
<1>4. {1} \subseteq R /\ \A a \in R : a \notin stops => Follows[a] \subseteq R BY <1>2, <1>3
<1> HIDE DEF R, stops
<1>5. Ways({1}, stops, Follows) \subseteq R BY <1>1, <1>4, WaysStayIn
<1> QED BY <1>5 DEF R, stops

(* A loop is passed from its header on.                                     *)
LEMMA LoopIsReached ==
    ASSUME NestedLoops, NEW h \in Headers, NEW x \in Reach(1, {}),
           Within(h, x) \/ Closes(h, x)
    PROVE  x \in Reach(h, Closers(h))
<1> DEFINE R == Reach(1, {})
           L == Reach(h, Closers(h))
           Inside(y) == Within(h, y) \/ Closes(h, y)
           X == {y \in R : Inside(y) => y \in L}
<1>1. /\ WaysGoOn /\ EntersAtHeader /\ 1 \in Insts /\ Insts \subseteq Nat
      /\ h \in Insts /\ h \in Nat /\ h >= 1 /\ Op(h) = "LoopStart"
  BY DEF NestedLoops, WaysGoOn, Positions, Headers
<1>2. /\ 1 \in R /\ R \in SUBSET Insts /\ Onwards(R, {})
      /\ \A Y \in SUBSET Insts : 1 \in Y /\ Onwards(Y, {}) => R \subseteq Y
  BY <1>1, ReachIsLeast
<1>3. h \in L /\ L \in SUBSET Insts /\ Onwards(L, Closers(h)) BY <1>1, ReachIsLeast
<1> HIDE DEF R, L
<1>4. 1 \in X
  <2>1. Inside(1) => h = 1 BY <1>1 DEF Within, Closes
  <2> QED BY <1>2, <1>3, <2>1
<1>5. ASSUME NEW a \in X, NEW b \in Onward[a] PROVE b \in X
  <2>1. a \in R /\ a \in Insts BY <1>2
  <2>2. b \in R /\ b \in Insts /\ b > a BY <1>2, <2>1 DEF Onwards, Onward
  <2>3. a \in Nat /\ b \in Nat BY <1>1, <2>1, <2>2
  <2> SUFFICES ASSUME Inside(b) PROVE b \in L BY <2>2
  <2>4. CASE a < h
    <3>1. h \in {i \in Insts : Op(i) = "LoopStart"} BY <1>1
    <3>2. b = h BY <2>1, <2>2, <2>4, <3>1, <1>1 DEF EntersAtHeader
    <3> QED BY <1>3, <3>2
  <2>5. CASE ~(a < h)
    <3>1. h..a \subseteq h..(b - 1) /\ h..a \subseteq h..b BY <1>1, <2>2, <2>3
    <3>2. \A i \in Insts \cap (h..a) : Level(h, i) > 0 BY <3>1 DEF Within, Closes
    <3>3. a \in h..a /\ h <= a BY <1>1, <2>3, <2>5
    <3>4. Within(h, a) BY <3>2, <3>3 DEF Within
    <3>5. Level(h, a) > 0 BY <2>1, <3>2, <3>3
    <3>6. a \notin Closers(h) BY <3>5 DEF Closers, Closes
    <3>7. a \in L BY <3>4
    <3> QED BY <1>3, <3>6, <3>7 DEF Onwards
  <2> QED BY <2>4, <2>5
<1>6. x \in X
  <2>1. X \in SUBSET Insts /\ Onwards(X, {}) BY <1>2, <1>5 DEF Onwards
  <2>2. x \in R BY DEF R
  <2> HIDE DEF X
  <2> QED BY <1>2, <1>4, <2>1, <2>2
<1> QED BY <1>6 DEF L

LEMMA LoopIsLookedAt ==
    ASSUME NEW h, NEW scan, Scanned(h, scan), NEW x \in Reach(h, Closers(h))
    PROVE  x \in Insts /\ h <= x /\ Looks(scan[x - 1], x)
<1> DEFINE Good(a) == h <= a /\ Looks(scan[a - 1], a)
           G == {a \in Insts : Good(a)}
<1>1. WaysGoOn /\ h \in Insts /\ h \in Nat /\ Insts \subseteq Positions /\ Positions \subseteq Nat
  BY ScannedTypes DEF Scanned, NestedLoops
<1>2. Onwards(G, Closers(h))
  <2> SUFFICES ASSUME NEW a \in G, a \notin Closers(h), NEW b \in Onward[a] PROVE b \in G
    BY DEF Onwards
  <2>1. a \in Insts /\ h <= a /\ Looks(scan[a - 1], a) /\ ~Closes(h, a) BY DEF Closers
  <2>2. b \in Insts /\ a < b /\ Looks(scan[b - 1], b) BY <2>1, WaysAreLookedAt
  <2>3. a \in Nat /\ b \in Nat BY <1>1, <2>1, <2>2
  <2>4. h <= b BY <1>1, <2>1, <2>2, <2>3
  <2> QED BY <2>2, <2>4
<1>3. h \in G
  <2>1. h \in Positions /\ h \in Starts /\ scan[h - 1] = NewScan
    BY ScannedTypes DEF Scanned, Headers, IsScan
  <2> DEFINE k == NewScan
  <2>2. k \in Scans /\ k.exit = {} /\ scan[h - 1] = k BY <2>1, NewScanType DEF NewScan
  <2> HIDE DEF k
  <2>3. Looks(k, h) BY <2>1, <2>2, BlockType DEF Looks
  <2> QED BY <1>1, <2>2, <2>3
<1>4. x \in G
  <2>1. G \in SUBSET Insts OBVIOUS
  <2> HIDE DEF G
  <2> QED BY <1>1, <1>2, <1>3, <2>1, ReachIsLeast
<1> QED BY <1>4

(* A loop whose scan finds no branch back is not gone around.               *)
LEMMA ScanFindsBranchBack ==
    ASSUME NestedLoops, NEW h \in Headers, Scan(h).back = {}
    PROVE  h \in OnceLoops
<1> DEFINE scan == ScanFrom(h)
           L == Reach(h, Closers(h))
           X == L \ {h}
<1>1. /\ WaysGoOn /\ BackToHeader /\ EntersAtHeader /\ Insts \subseteq Nat /\ Size \in Nat
      /\ h \in Insts /\ h \in Nat /\ h \in Positions /\ Op(h) = "LoopStart"
  <2>1. WaysGoOn /\ BackToHeader /\ EntersAtHeader BY DEF NestedLoops
  <2>2. Size \in Nat /\ Insts \subseteq Positions BY <2>1 DEF WaysGoOn
  <2>3. Positions \subseteq Nat BY <2>2 DEF Positions
  <2>4. h \in Insts /\ Op(h) = "LoopStart" BY DEF Headers
  <2> QED BY <2>1, <2>2, <2>3, <2>4
<1>2. Scanned(h, scan) /\ scan[Size].back = {}
  <2>1. IsScan(h, ScanFrom(h)) BY <1>1, ScanIsScan
  <2> QED BY <2>1 DEF Scanned, Scan
<1> HIDE DEF scan
<1>3. h \in L /\ L \in SUBSET Insts /\ Onwards(L, Closers(h)) BY <1>1, ReachIsLeast
<1>4. ASSUME NEW a \in L PROVE h \notin BranchesTo(a)
  <2> SUFFICES ASSUME h \in BranchesTo(a) PROVE FALSE OBVIOUS
  <2>1. a \in Insts /\ h <= a /\ Looks(scan[a - 1], a) BY <1>2, LoopIsLookedAt
  <2>2. a \in h..Size /\ a \in Nat BY <1>1, <1>2, <2>1, LooksInside
  <2>3. /\ a \in Positions /\ scan[a - 1] \in Scans /\ scan[a] = ScanNext(scan[a - 1], a)
        /\ a \in (h - 1)..Size /\ Size \in (h - 1)..Size /\ a <= Size
    BY <1>1, <1>2, <2>2, ScannedTypes
  <2>4. Op(a) \in Branches /\ Dest(a) = h BY DEF BranchesTo
  <2>5. ~Closes(h, a) BY <2>4 DEF Closes, Branches
  <2>6. Level(h, a) = 1 BY <1>1, <2>1 DEF BackToHeader
  <2>7. scan[a].level = 1 BY <1>2, <2>1, <2>5, <2>6, LooksInside
  <2>8. ~(Dest(a) > a) BY <1>1, <2>1, <2>2, <2>4
  <2>9. Out(scan[a - 1], a) \in scan[a].back BY <2>1, <2>3, <2>4, <2>7, <2>8, LookPasses
  <2>10. IsScan(h, scan) BY <1>2 DEF Scanned
  <2>11. scan[a].back \subseteq scan[Size].back BY <1>1, <2>3, <2>10, ScanGrows
  <2> QED BY <1>2, <2>9, <2>11
<1>5. ASSUME NEW a \in L, a \notin Closers(h), NEW b \in Follows[a] PROVE b \in L
  <2>1. a \in Insts /\ h <= a /\ Looks(scan[a - 1], a) /\ ~Closes(h, a)
    BY <1>2, <1>5, LoopIsLookedAt DEF Closers
  <2>2. b \in Insts BY <1>1, <2>1 DEF WaysGoOn
  <2>3. a \in Nat /\ b \in Nat BY <1>1, <2>1, <2>2
  <2>4. CASE b > a
    <3>1. b \in Onward[a] BY <2>1, <2>4 DEF Onward
    <3> QED BY <1>3, <1>5, <3>1 DEF Onwards
  <2>5. CASE ~(b > a)
    <3>1. b \in BranchesTo(a) /\ b <= a
      <4>1. Op(a) \notin {"Br", "Ret"} => Follow(a) > a BY <1>1, <2>1 DEF WaysGoOn
      <4> QED BY <2>1, <2>3, <2>5, <4>1 DEF Follows
    <3>2. Op(b) = "LoopStart" /\ Within(b, a) BY <1>1, <2>1, <3>1 DEF BackToHeader
    <3>3. Within(h, a) BY <1>2, <2>1, LooksInside
    <3>4. h <= b BY <1>1, <2>1, <3>1, <3>3, BranchesStayInside
    <3>5. b # h BY <1>4, <3>1
    <3>6. h < b BY <1>1, <2>3, <3>4, <3>5
    <3> DEFINE stops == Closers(h)
    <3>7. a \in Reach(h, stops) OBVIOUS
    <3> HIDE DEF stops, L
    <3>8. b \in Reach(h, stops) BY <1>1, <2>2, <3>2, <3>6, <3>7, HeadersAreReached
    <3> QED BY <3>8 DEF L, stops
  <2> QED BY <2>4, <2>5
<1>6. ASSUME NEW a \in L, a \notin Closers(h), NEW b \in Follows[a] PROVE b \in X
  <2>1. b \in L BY <1>5, <1>6
  <2>2. a \in Insts /\ h <= a /\ a \in Nat BY <1>1, <1>2, LoopIsLookedAt
  <2>3. Op(a) \notin {"Br", "Ret"} => Follow(a) > a BY <1>1, <2>2 DEF WaysGoOn
  <2>4. b # h BY <1>1, <1>4, <2>2, <2>3 DEF Follows
  <2> QED BY <2>1, <2>4
<1>7. h \notin Closers(h) BY <1>1 DEF Closers, Closes
<1>8. Ways(Follows[h], Closers(h), Follows) \subseteq X
  <2> DEFINE stops == Closers(h)
             S == Follows[h]
  <2>1. S \subseteq X /\ \A a \in X : a \notin stops => Follows[a] \subseteq X BY <1>3, <1>6, <1>7
  <2> HIDE DEF stops, S, X
  <2>2. Ways(S, stops, Follows) \subseteq X BY <1>1, <2>1, WaysStayIn
  <2> QED BY <2>2 DEF stops, S
<1>9. h \notin Ways(Follows[h], Closers(h), Follows) BY <1>8
<1> QED BY <1>9 DEF OnceLoops, Closers

-----------------------------------------------------------------------------
(* What the compiler does at an instruction.                               *)

Whys == {"no branch", "no back edge", "loop_count", "no header"}
Jits == [map : SUBSET Starts, headers : SUBSET Starts, live : BOOLEAN, count : Int,
         done : BOOLEAN, panics : SUBSET Whys]

(* Where the compiler fails at the start of a block.                        *)
Blocked(k, j) ==
    j \in Starts /\ (j \notin k.map \/ (Op(j) = "LoopStart" /\ Scan(j).back = {}))

LEMMA BlockIsEntered ==
    ASSUME NEW k \in Jits, NEW j \in Insts, ~k.done
    PROVE  /\ JitBlock(k, j) \in Jits
           /\ Blocked(k, j) =>
                /\ JitBlock(k, j).done
                /\ j \notin k.map => JitBlock(k, j).panics = {"no branch"}
                /\ j \in k.map => JitBlock(k, j).panics = {"no back edge"}
           /\ ~Blocked(k, j) =>
                /\ ~JitBlock(k, j).done /\ JitBlock(k, j).panics = k.panics
                /\ JitBlock(k, j).count = k.count
                /\ j \in Starts => JitBlock(k, j).live /\ JitBlock(k, j).map = k.map \ {j}
                /\ j \notin Starts => JitBlock(k, j) = k
                /\ k.headers \subseteq JitBlock(k, j).headers
                /\ j \in Starts /\ Op(j) = "LoopStart" => j \in JitBlock(k, j).headers
<1>1. CASE j \notin Starts BY <1>1 DEF JitBlock, Blocked
<1>2. CASE j \in Starts /\ j \notin k.map
  <2>1. JitBlock(k, j) = [k EXCEPT !.panics = {"no branch"}, !.done = TRUE]
    BY <1>2 DEF JitBlock, Panics
  <2>2. {"no branch"} \in SUBSET Whys BY DEF Whys
  <2> DEFINE e == JitBlock(k, j)
  <2>3. e \in Jits /\ e.done /\ e.panics = {"no branch"} BY <2>1, <2>2 DEF Jits
  <2> HIDE DEF e
  <2>4. Blocked(k, j) BY <1>2 DEF Blocked
  <2>5. ~(j \in k.map) BY <1>2
  <2> QED BY ONLY <2>3, <2>4, <2>5 DEF e
<1>3. CASE j \in Starts /\ j \in k.map
  <2> DEFINE d == [k EXCEPT !.map = @ \ {j}, !.live = TRUE]
  <2>1. /\ d \in Jits /\ d.map = k.map \ {j} /\ d.live /\ ~d.done /\ d.headers = k.headers
        /\ d.panics = k.panics /\ d.count = k.count
    BY DEF Jits
  <2>2. JitBlock(k, j) = IF Op(j) = "LoopStart" THEN EnterHeader(d, j) ELSE d
    BY <1>3 DEF JitBlock
  <2> HIDE DEF d
  <2>3. CASE Op(j) # "LoopStart" BY <1>3, <2>1, <2>2, <2>3 DEF Blocked
  <2>4. CASE Op(j) = "LoopStart" /\ Scan(j).back = {}
    <3>1. JitBlock(k, j) = Panics(d, "no back edge") BY <2>2, <2>4 DEF EnterHeader
    <3> QED BY <1>3, <2>1, <2>4, <3>1 DEF Blocked, Panics, Jits, Whys
  <2>5. CASE Op(j) = "LoopStart" /\ Scan(j).back # {}
    <3>1. JitBlock(k, j) = [d EXCEPT !.headers = @ \cup {j}] BY <2>2, <2>5 DEF EnterHeader
    <3> DEFINE e == JitBlock(k, j)
          hs == d.headers \cup {j}
    <3>11. e = [d EXCEPT !.headers = hs] BY <3>1
    <3>12. hs \in SUBSET Starts /\ j \in hs /\ d.headers \subseteq hs BY <1>3, <2>1 DEF Jits
    <3> HIDE DEF e, hs
    <3>2. /\ e \in Jits /\ e.map = d.map /\ e.live = d.live /\ e.done = d.done
          /\ e.panics = d.panics /\ e.count = d.count /\ e.headers = hs
      BY <2>1, <3>11, <3>12 DEF Jits
    <3> QED BY <1>3, <2>1, <2>5, <3>12, <3>2 DEF Blocked, e
  <2> QED BY <2>3, <2>4, <2>5
<1> QED BY <1>1, <1>2, <1>3

LEMMA MarkIsCounted ==
    ASSUME NEW k \in Jits, NEW j \in Insts, NEW is_loop \in BOOLEAN, ~k.done
    PROVE  /\ JitMark(k, j, is_loop) \in Jits
           /\ JitMark(k, j, is_loop).map = k.map /\ JitMark(k, j, is_loop).headers = k.headers
           /\ Op(j) = "LoopEnd" /\ k.count = 0 =>
                JitMark(k, j, is_loop).done /\ JitMark(k, j, is_loop).panics = {"loop_count"}
           /\ ~(Op(j) = "LoopEnd" /\ k.count = 0) =>
                /\ JitMark(k, j, is_loop).panics = k.panics
                /\ JitMark(k, j, is_loop).done <=> Op(j) = "LoopEnd" /\ is_loop /\ k.count = 1
                /\ Op(j) = "LoopStart" => JitMark(k, j, is_loop).count = k.count + 1
                /\ Op(j) = "LoopEnd" => JitMark(k, j, is_loop).count = k.count - 1
                /\ Op(j) \notin {"LoopStart", "LoopEnd"} => JitMark(k, j, is_loop).count = k.count
<1>1. CASE Op(j) = "LoopStart" BY <1>1 DEF JitMark, Jits
<1>2. CASE Op(j) = "LoopEnd" /\ k.count = 0 BY <1>2 DEF JitMark, Panics, Jits, Whys
<1>3. CASE Op(j) = "LoopEnd" /\ k.count # 0
  <2> DEFINE done == is_loop /\ k.count = 1
  <2>1. JitMark(k, j, is_loop) = [k EXCEPT !.count = @ - 1, !.done = done] BY <1>3 DEF JitMark
  <2>2. done \in BOOLEAN OBVIOUS
  <2>3. done <=> is_loop /\ k.count = 1 OBVIOUS
  <2> HIDE DEF done
  <2> DEFINE e == JitMark(k, j, is_loop)
             count == k.count - 1
  <2>11. e = [k EXCEPT !.count = count, !.done = done] BY <2>1
  <2>12. count \in Int /\ count = k.count - 1 BY DEF Jits
  <2> HIDE DEF e, count
  <2>4. /\ e \in Jits /\ e.map = k.map /\ e.headers = k.headers /\ e.panics = k.panics
        /\ e.done = done /\ e.count = count
    BY <2>2, <2>11, <2>12 DEF Jits
  <2> QED BY <1>3, <2>3, <2>4, <2>12 DEF e
<1>4. CASE Op(j) \notin {"LoopStart", "LoopEnd"} BY <1>4 DEF JitMark, Jits
<1> QED BY <1>1, <1>2, <1>3, <1>4

(* The block behind an instruction, where one starts there.                 *)
NextBlock(j) == IF Op(j) \notin {"Br", "Ret"} /\ Follow(j) \in Starts THEN {Follow(j)} ELSE {}

LEMMA BranchesAreCollected ==
    ASSUME NEW k \in Jits, NEW j \in Insts, ~k.done
    PROVE  /\ JitBranch(k, j) \in Jits
           /\ JitBranch(k, j).map = k.map \cup BranchesTo(j) \cup NextBlock(j)
           /\ JitBranch(k, j).headers = k.headers /\ JitBranch(k, j).count = k.count
           /\ JitBranch(k, j).panics = k.panics /\ ~JitBranch(k, j).done
           /\ Op(j) \notin {"Br", "Ret"} /\ Follow(j) \notin Starts => JitBranch(k, j).live
<1> DEFINE next == NextBlock(j)
           live == Op(j) \notin {"Br", "Ret"} /\ next = {}
           to == BranchesTo(j)
<1>1. JitBranch(k, j) = [k EXCEPT !.map = @ \cup to \cup next, !.live = live]
  BY DEF JitBranch, NextBlock
<1>2. to \subseteq Starts BY DEF Starts
<1>3. next \subseteq Starts BY DEF NextBlock
<1>4. Op(j) \notin {"Br", "Ret"} /\ Follow(j) \notin Starts => live BY DEF NextBlock
<1>5. live \in BOOLEAN OBVIOUS
<1> HIDE DEF next, to, live
<1> DEFINE e == JitBranch(k, j)
<1>6. /\ e \in Jits /\ e.map = k.map \cup to \cup next /\ e.headers = k.headers
      /\ e.count = k.count /\ e.panics = k.panics /\ e.done = k.done /\ e.live = live
  BY <1>1, <1>2, <1>3, <1>5 DEF Jits
<1> HIDE DEF e
<1> QED BY <1>4, <1>6 DEF e, next, to

LEMMA JitNextType ==
    ASSUME NEW k \in Jits, NEW j \in Positions, NEW is_loop \in BOOLEAN
    PROVE  /\ JitNext(k, j, is_loop) \in Jits
           /\ k.done \/ j \notin Insts => JitNext(k, j, is_loop) = k
<1>1. CASE k.done \/ j \notin Insts BY <1>1 DEF JitNext
<1>2. CASE ~k.done /\ j \in Insts
  <2> DEFINE b == JitBlock(k, j)
             m == JitMark(b, j, is_loop)
             e == JitBranch(m, j)
  <2>1. b \in Jits BY <1>2, BlockIsEntered
  <2>2. JitNext(k, j, is_loop) = IF b.live /\ ~b.done THEN e ELSE b BY <1>2 DEF JitNext, JitInst
  <2> HIDE DEF b
  <2>3. CASE ~(b.live /\ ~b.done) BY <1>2, <2>1, <2>2, <2>3
  <2>4. CASE b.live /\ ~b.done
    <3>1. m \in Jits BY <1>2, <2>1, <2>4, MarkIsCounted
    <3> HIDE DEF m
    <3>2. m.done => e = m BY DEF JitBranch
    <3>3. ~m.done => e \in Jits BY <1>2, <3>1, BranchesAreCollected
    <3> QED BY <1>2, <2>2, <2>4, <3>1, <3>2, <3>3
  <2> QED BY <2>3, <2>4
<1> QED BY <1>1, <1>2

LEMMA NewJitType ==
    ASSUME NEW first \in Starts
    PROVE  NewJit(first) \in Jits
BY DEF NewJit, Jits, Whys

(* What is known of a compilation, from first on.                           *)
IsJit(first, is_loop, jit) ==
    /\ jit \in [(first - 1)..Size -> Jits]
    /\ jit[first - 1] = NewJit(first)
    /\ \A j \in first..Size : jit[j] = JitNext(jit[j - 1], j, is_loop)

LEMMA JitIsJit ==
    ASSUME Size \in Nat, NEW first \in Positions, first \in Starts, NEW is_loop \in BOOLEAN
    PROVE  IsJit(first, is_loop, JitFrom(first, is_loop))
<1> DEFINE base == NewJit(first)
           Body(w) == [j \in (first - 1)..Size |->
                         IF j = first - 1 THEN base ELSE JitNext(w[j - 1], j, is_loop)]
           jit == CHOOSE w : w = Body(w)
           table == [j \in first..Size |-> [k \in Jits |-> JitNext(k, j, is_loop)]]
<1>1. JitFrom(first, is_loop) = jit BY DEF JitFrom
<1>2. /\ first - 1 \in Nat /\ first \in Nat /\ Size \in Nat /\ first <= Size
      /\ (first - 1) + 1 = first /\ first - 1 <= Size
  BY DEF Positions
<1>3. \A j \in first..Size : j \in Positions /\ \A k \in Jits : table[j][k] = JitNext(k, j, is_loop)
  BY <1>2 DEF Positions
<1>4. base \in Jits /\ base = NewJit(first) BY NewJitType
<1> HIDE DEF table, base
<1>5. PICK g \in [(first - 1)..Size -> Jits] : Filled(g, base, table, first - 1, Size)
  <2> DEFINE lo == first - 1
  <2>1. \A j \in (lo + 1)..Size : \A k \in Jits : table[j][k] \in Jits
    BY <1>2, <1>3, JitNextType
  <2>2. lo \in Nat /\ Size \in Nat /\ lo <= Size BY <1>2
  <2> HIDE DEF lo
  <2>3. \E g \in [lo..Size -> Jits] : Filled(g, base, table, lo, Size)
    BY ONLY <1>4, <2>1, <2>2, TablesExist
  <2> QED BY <2>3 DEF lo
<1>6. \A j \in first..Size : /\ g[j] = JitNext(g[j - 1], j, is_loop) /\ j # first - 1
                           /\ j - 1 \in (first - 1)..Size
  <2> SUFFICES ASSUME NEW j \in first..Size
               PROVE  /\ g[j] = JitNext(g[j - 1], j, is_loop) /\ j # first - 1
                      /\ j - 1 \in (first - 1)..Size
    OBVIOUS
  <2>1. j \in ((first - 1) + 1)..Size /\ j # first - 1 /\ j - 1 \in (first - 1)..Size BY <1>2
  <2>2. g[j] = table[j][g[j - 1]] BY <1>5, <2>1 DEF Filled
  <2>3. g[j - 1] \in Jits BY <1>5, <2>1
  <2> QED BY <1>3, <2>1, <2>2, <2>3
<1>7. g[first - 1] = base BY <1>5 DEF Filled
<1>8. g = Body(g)
  <2>1. \A j \in (first - 1)..Size :
          g[j] = IF j = first - 1 THEN base ELSE JitNext(g[j - 1], j, is_loop)
    <3> SUFFICES ASSUME NEW j \in (first - 1)..Size, j # first - 1
                 PROVE  g[j] = JitNext(g[j - 1], j, is_loop)
      BY <1>7
    <3>1. j \in first..Size BY <1>2
    <3> QED BY <1>6, <3>1
  <2> QED BY <1>5, <2>1
<1>9. jit = Body(jit) BY <1>8
<1> HIDE DEF jit
<1>10. /\ jit[first - 1] = base
       /\ \A j \in first..Size : jit[j] = JitNext(jit[j - 1], j, is_loop)
  <2>1. \A j \in (first - 1)..Size :
          jit[j] = IF j = first - 1 THEN base ELSE JitNext(jit[j - 1], j, is_loop)
    BY <1>9
  <2>2. first - 1 \in (first - 1)..Size BY <1>2
  <2>3. \A j \in first..Size : j \in (first - 1)..Size /\ j # first - 1 BY <1>2
  <2> QED BY <2>1, <2>2, <2>3
<1> DEFINE Q == {n \in Nat : first - 1 <= n /\ n <= Size /\ jit[n] \notin Jits}
<1>11. Q = {}
  <2> SUFFICES ASSUME Q # {} PROVE FALSE OBVIOUS
  <2>1. PICK n \in Q : \A i \in Q : n <= i BY Least
  <2>2. n # first - 1 BY <1>4, <1>10, <2>1
  <2>3. n - 1 \in Nat /\ n - 1 \notin Q /\ first - 1 <= n - 1 /\ n \in first..Size
    BY <1>2, <2>1, <2>2
  <2>4. n - 1 <= Size /\ n - 1 \in Nat /\ first - 1 <= n - 1 BY <1>2, <2>1, <2>3
  <2>5. jit[n - 1] \in Jits BY <2>3, <2>4
  <2> QED BY <1>3, <1>10, <2>1, <2>3, <2>5, JitNextType
<1>12. jit = [j \in (first - 1)..Size |-> jit[j]] BY <1>9
<1>13. jit \in [(first - 1)..Size -> Jits]
  <2>1. \A j \in (first - 1)..Size : jit[j] \in Jits BY <1>2, <1>11
  <2> QED BY <1>12, <2>1
<1> QED BY <1>1, <1>4, <1>10, <1>13 DEF IsJit

LEMMA JitSteps ==
    ASSUME NEW k \in Jits, NEW j \in Insts, NEW is_loop \in BOOLEAN, ~k.done,
           NEW n, n = JitNext(k, j, is_loop)
    PROVE  /\ n \in Jits
           /\ Blocked(k, j) =>
                /\ n.done
                /\ j \notin k.map => n.panics = {"no branch"}
                /\ j \in k.map => n.panics = {"no back edge"}
           /\ ~Blocked(k, j) /\ j \notin Starts /\ ~k.live => n = k
           /\ ~Blocked(k, j) /\ (j \in Starts \/ k.live) =>
                /\ Op(j) = "LoopEnd" /\ k.count = 0 => n.done /\ n.panics = {"loop_count"}
                /\ ~(Op(j) = "LoopEnd" /\ k.count = 0) =>
                     /\ n.panics = k.panics
                     /\ n.done <=> Op(j) = "LoopEnd" /\ is_loop /\ k.count = 1
                     /\ k.headers \subseteq n.headers
                     /\ j \in Starts /\ Op(j) = "LoopStart" => j \in n.headers
                     /\ n.done => n.map = k.map \ {j}
                     /\ ~n.done =>
                          /\ n.map = (k.map \ {j}) \cup BranchesTo(j) \cup NextBlock(j)
                          /\ Op(j) = "LoopStart" => n.count = k.count + 1
                          /\ Op(j) = "LoopEnd" => n.count = k.count - 1
                          /\ Op(j) \notin {"LoopStart", "LoopEnd"} => n.count = k.count
                          /\ Op(j) \notin {"Br", "Ret"} /\ Follow(j) \notin Starts => n.live
<1> DEFINE b == JitBlock(k, j)
           m == JitMark(b, j, is_loop)
           e == JitBranch(m, j)
<1>1. /\ b \in Jits
      /\ Blocked(k, j) => /\ b.done
                          /\ j \notin k.map => b.panics = {"no branch"}
                          /\ j \in k.map => b.panics = {"no back edge"}
      /\ ~Blocked(k, j) =>
           /\ ~b.done /\ b.panics = k.panics /\ b.count = k.count
           /\ j \in Starts => b.live /\ b.map = k.map \ {j}
           /\ j \notin Starts => b = k
           /\ k.headers \subseteq b.headers
           /\ j \in Starts /\ Op(j) = "LoopStart" => j \in b.headers
  BY BlockIsEntered
<1>2. n = IF b.live /\ ~b.done THEN e ELSE b BY DEF JitNext, JitInst
<1> HIDE DEF b
<1>3. CASE Blocked(k, j) BY <1>1, <1>2, <1>3
<1>4. CASE ~Blocked(k, j) /\ j \notin Starts /\ ~k.live BY <1>1, <1>2, <1>4
<1>5. CASE ~Blocked(k, j) /\ (j \in Starts \/ k.live)
  <2>1. b.live /\ ~b.done /\ b.count = k.count /\ n = e BY <1>1, <1>2, <1>5
  <2>2. b.map = k.map \ {j}
    <3>1. j \notin Starts => j \notin k.map BY DEF Jits
    <3> QED BY <1>1, <1>5, <3>1
  <2>3. /\ m \in Jits /\ m.map = b.map /\ m.headers = b.headers
        /\ Op(j) = "LoopEnd" /\ b.count = 0 => m.done /\ m.panics = {"loop_count"}
        /\ ~(Op(j) = "LoopEnd" /\ b.count = 0) =>
             /\ m.panics = b.panics
             /\ m.done <=> Op(j) = "LoopEnd" /\ is_loop /\ b.count = 1
             /\ Op(j) = "LoopStart" => m.count = b.count + 1
             /\ Op(j) = "LoopEnd" => m.count = b.count - 1
             /\ Op(j) \notin {"LoopStart", "LoopEnd"} => m.count = b.count
    <3>1. b \in Jits /\ ~b.done /\ j \in Insts /\ is_loop \in BOOLEAN BY <1>1, <2>1
    <3> QED BY ONLY <3>1, MarkIsCounted
  <2> HIDE DEF m
  <2>4. m.done => e = m BY DEF JitBranch
  <2>5. ~m.done =>
          /\ e \in Jits /\ e.map = m.map \cup BranchesTo(j) \cup NextBlock(j)
          /\ e.headers = m.headers /\ e.count = m.count /\ e.panics = m.panics /\ ~e.done
          /\ Op(j) \notin {"Br", "Ret"} /\ Follow(j) \notin Starts => e.live
    BY <2>3, BranchesAreCollected
  <2> HIDE DEF e
  <2>6. n.done <=> m.done BY <2>1, <2>4, <2>5
  <2>7. n \in Jits BY <2>1, <2>3, <2>4, <2>5
  <2>8. CASE Op(j) = "LoopEnd" /\ k.count = 0 BY <1>5, <2>1, <2>3, <2>4, <2>7, <2>8
  <2>9. CASE ~(Op(j) = "LoopEnd" /\ k.count = 0) /\ m.done
    BY <1>1, <1>5, <2>1, <2>2, <2>3, <2>4, <2>6, <2>7, <2>9
  <2>10. CASE ~(Op(j) = "LoopEnd" /\ k.count = 0) /\ ~m.done
    BY <1>1, <1>5, <2>1, <2>2, <2>3, <2>5, <2>6, <2>7, <2>10
  <2> QED BY <2>8, <2>9, <2>10
<1> QED BY <1>3, <1>4, <1>5

-----------------------------------------------------------------------------
(* The invariant of a compilation.                                         *)

(* first is the start of a method, or the header of the loop to compile.    *)
Compiles(f, is_loop) ==
    /\ NestedLoops /\ is_loop \in BOOLEAN
    /\ is_loop => f \in Headers
    /\ ~is_loop => f = 1

Stops(f, is_loop) == IF is_loop THEN Closers(f) ELSE {}
InCode(f, is_loop, m) == is_loop => Within(f, m) \/ Closes(f, m)

(* Loops are counted; of a loop that is compiled, the end is not passed.    *)
Counted(f, is_loop, k, n) ==
    /\ k.count = Level(f, n)
    /\ is_loop => /\ n >= f => Level(f, n) > 0
                  /\ \A i \in Insts \cap (f..n) : Level(f, i) > 0
(* The map has branches ahead, and branches back to headers.                *)
Collected(f, is_loop, k, n) ==
    /\ \A m \in k.map : (m > n /\ InCode(f, is_loop, m)) \/ m \in k.headers
    /\ \A b \in Insts \cap Starts : f <= b /\ b <= n /\ Op(b) = "LoopStart" => b \in k.headers
(* What ways from f lead to is compiled when it is met.                     *)
Led(f, is_loop, k, n) ==
    /\ n < f => f \in k.map
    /\ \A a \in Reach(f, Stops(f, is_loop)) : a <= n /\ a \notin Stops(f, is_loop) =>
         \A b \in Onward[a] : b > n => (b \in Starts => b \in k.map) /\ (b \notin Starts => k.live)
(* Behind a block's start the compiler is live until a jump or a return.    *)
NextStarts(n) == \E g \in Insts \cap Starts : g > n /\ \A w \in Insts : ~(n < w /\ w < g)
Unbroken(f, n) ==
    \E i \in Insts \cap Starts : /\ f <= i /\ i <= n
                               /\ \A w \in Insts : i <= w /\ w <= n => Op(w) \notin {"Br", "Ret"}
Lively(f, k, n) == Unbroken(f, n) => k.live \/ NextStarts(n)

Going(f, is_loop, k, n) ==
    k.panics = {} /\ Counted(f, is_loop, k, n) /\ Collected(f, is_loop, k, n)
    /\ Led(f, is_loop, k, n) /\ Lively(f, k, n)

JitInv(f, is_loop, k, n) ==
    /\ k.panics \subseteq MayPanic
    /\ k.done => k.panics # {} \/ k.map \subseteq k.headers
    /\ ~k.done => Going(f, is_loop, k, n)

LEMMA CompilesTypes ==
    ASSUME NEW f, NEW is_loop, Compiles(f, is_loop)
    PROVE  /\ WaysGoOn /\ f \in Insts /\ f \in Starts /\ f \in Nat /\ f >= 1 /\ f \in Positions
           /\ Size \in Nat /\ Insts \subseteq Positions /\ Insts \subseteq Nat /\ 1 \in Insts
           /\ \A j \in Insts : j >= 1 /\ j <= Size
           /\ Starts \subseteq Insts /\ is_loop \in BOOLEAN
           /\ is_loop => Op(f) = "LoopStart"
<1>1. WaysGoOn /\ is_loop \in BOOLEAN BY DEF Compiles, NestedLoops
<1>2. /\ Size \in Nat /\ Insts \subseteq Positions /\ Insts \subseteq Nat /\ 1 \in Insts
      /\ \A j \in Insts : j >= 1 /\ j <= Size
  BY <1>1 DEF WaysGoOn, Positions
<1>3. Starts \subseteq Insts BY <1>1, <1>2 DEF Starts, WaysGoOn, Follows
<1>4. f \in Insts /\ f \in Starts /\ (is_loop => Op(f) = "LoopStart")
  BY <1>1, <1>2 DEF Compiles, Headers, Starts
<1> QED BY <1>1, <1>2, <1>3, <1>4

LEMMA JitStarts ==
    ASSUME NEW f, NEW is_loop, Compiles(f, is_loop)
    PROVE  JitInv(f, is_loop, NewJit(f), f - 1)
<1> DEFINE k == NewJit(f)
<1>1. /\ WaysGoOn /\ f \in Insts /\ f \in Nat /\ Insts \subseteq Nat BY CompilesTypes
<1>2. /\ k.map = {f} /\ k.count = 0 /\ ~k.done /\ k.panics = {} BY DEF NewJit
<1> HIDE DEF k
<1>3. Counted(f, is_loop, k, f - 1)
  <2>1. Level(f, f - 1) = 0 BY <1>1, LevelNone
  <2> QED BY <1>1, <1>2, <2>1 DEF Counted
<1>4. Collected(f, is_loop, k, f - 1)
  <2>1. is_loop => Within(f, f)
    <3> SUFFICES ASSUME is_loop PROVE Within(f, f) OBVIOUS
    <3>1. Op(f) = "LoopStart" BY CompilesTypes
    <3>2. Level(f, f) = Level(f, f - 1) + 1 BY <1>1, <3>1, LevelStep
    <3>3. Level(f, f) = 1 BY <1>1, <3>2, LevelNone
    <3>4. \A i \in f..f : i = f BY <1>1
    <3> QED BY <1>1, <3>3, <3>4 DEF Within
  <2>2. InCode(f, is_loop, f) BY <2>1 DEF InCode
  <2> QED BY <1>1, <1>2, <2>2 DEF Collected
<1>5. Led(f, is_loop, k, f - 1)
  <2>1. \A a \in Reach(f, Stops(f, is_loop)) : ~(a <= f - 1)
    <3> SUFFICES ASSUME NEW a \in Reach(f, Stops(f, is_loop)), a <= f - 1 PROVE FALSE OBVIOUS
    <3> DEFINE X == {x \in Insts : x >= f}
               stops == Stops(f, is_loop)
    <3>1. X \in SUBSET Insts /\ f \in X BY <1>1
    <3>2. Onwards(X, stops)
      <4> SUFFICES ASSUME NEW x \in X, NEW y \in Onward[x] PROVE y \in X BY DEF Onwards
      <4>1. y \in Insts /\ y > x BY <1>1 DEF Onward, WaysGoOn
      <4>2. x \in Insts /\ x >= f OBVIOUS
      <4>3. f \in Nat /\ x \in Nat /\ y \in Nat BY <1>1, <4>1, <4>2
      <4>4. y >= f BY <4>1, <4>2, <4>3
      <4> QED BY <4>1, <4>4
    <3> HIDE DEF X, stops
    <3>3. Reach(f, stops) \subseteq X BY <1>1, <3>1, <3>2, ReachIsLeast
    <3>4. a \in X BY <3>3 DEF stops
    <3> QED BY <1>1, <3>4 DEF X
  <2> QED BY <1>2, <2>1 DEF Led
<1>6. Lively(f, k, f - 1) BY <1>1 DEF Lively, Unbroken
<1> QED BY <1>2, <1>3, <1>4, <1>5, <1>6 DEF JitInv, Going, k

LEMMA JitPassesWord ==
    ASSUME NEW f, NEW is_loop, Compiles(f, is_loop), NEW k, NEW n \in f..Size, n \notin Insts,
           Going(f, is_loop, k, n - 1), k \in Jits
    PROVE  Going(f, is_loop, k, n)
<1>1. /\ WaysGoOn /\ f \in Insts /\ f \in Nat /\ Insts \subseteq Nat /\ Starts \subseteq Insts
      /\ Size \in Nat
  BY CompilesTypes
<1>2. n \in Nat /\ f <= n /\ n > f /\ f <= n - 1 BY <1>1
<1>3. \A i \in Insts : (i <= n <=> i <= n - 1) /\ (i > n - 1 <=> i > n)
  <2> SUFFICES ASSUME NEW i \in Insts PROVE (i <= n <=> i <= n - 1) /\ (i > n - 1 <=> i > n) OBVIOUS
  <2>1. i \in Nat /\ i # n BY <1>1
  <2> QED BY <1>2, <2>1
<1>4. k.map \subseteq Insts BY <1>1 DEF Jits
<1>5. Counted(f, is_loop, k, n)
  <2>1. Level(f, n) = Level(f, n - 1) BY <1>1, <1>2, LevelStep
  <2>2. \A i \in Insts \cap (f..n) : i \in Insts \cap (f..(n - 1)) BY <1>1, <1>2, <1>3
  <2> QED BY <1>2, <2>1, <2>2 DEF Going, Counted
<1>6. Collected(f, is_loop, k, n) BY <1>3, <1>4 DEF Going, Collected
<1>7. Led(f, is_loop, k, n)
  <2>1. ~(n < f) BY <1>1, <1>2
  <2>2. ASSUME NEW a \in Reach(f, Stops(f, is_loop)), a <= n, a \notin Stops(f, is_loop),
               NEW b \in Onward[a], b > n
        PROVE  (b \in Starts => b \in k.map) /\ (b \notin Starts => k.live)
    <3>1. a \in Insts BY DEF Reach
    <3>2. b \in Insts BY <1>1, <3>1 DEF Onward, WaysGoOn
    <3>3. a <= n - 1 /\ b > n - 1 BY <1>3, <2>2, <3>1, <3>2
    <3> QED BY <2>2, <3>3 DEF Going, Led
  <2> QED BY <2>1, <2>2 DEF Led
<1>8. Lively(f, k, n)
  <2>1. Unbroken(f, n) => Unbroken(f, n - 1) BY <1>3 DEF Unbroken
  <2>2. NextStarts(n - 1) => NextStarts(n)
    <3> SUFFICES ASSUME NEW g \in Insts \cap Starts, g > n - 1,
                        \A w \in Insts : ~(n - 1 < w /\ w < g)
                 PROVE  NextStarts(n)
      BY DEF NextStarts
    <3>1. g > n BY <1>3
    <3>2. \A w \in Insts : ~(n < w /\ w < g)
      <4> SUFFICES ASSUME NEW w \in Insts, n < w, w < g PROVE FALSE OBVIOUS
      <4>1. w \in Nat BY <1>1
      <4> QED BY <1>2, <4>1
    <3> QED BY <3>1, <3>2 DEF NextStarts
  <2> QED BY <2>1, <2>2 DEF Going, Lively
<1> QED BY <1>5, <1>6, <1>7, <1>8 DEF Going

(* Where an instruction is that a compilation has come to.                  *)
LEMMA JitIsInCode ==
    ASSUME NEW f, NEW is_loop, Compiles(f, is_loop), NEW k, NEW n \in f..Size, n \in Insts,
           Counted(f, is_loop, k, n - 1)
    PROVE  InCode(f, is_loop, n) /\ (is_loop => Within(f, n) \/ (Op(n) = "LoopEnd" /\ k.count = 1))
<1>0. /\ f \in Insts /\ f \in Nat /\ n \in Nat /\ f <= n
      /\ is_loop => Op(f) = "LoopStart"
  BY CompilesTypes
<1> SUFFICES ASSUME is_loop
             PROVE  /\ Within(f, n) \/ Closes(f, n)
                    /\ Within(f, n) \/ (Op(n) = "LoopEnd" /\ k.count = 1)
  BY DEF InCode
<1>1. /\ f \in Insts /\ f \in Nat /\ Op(f) = "LoopStart" /\ n \in Nat /\ f <= n BY <1>0
<1>2. /\ k.count = Level(f, n - 1) /\ (n - 1 >= f => Level(f, n - 1) > 0)
      /\ \A i \in Insts \cap (f..(n - 1)) : Level(f, i) > 0
  BY DEF Counted
<1>3. Level(f, n) \in Int /\ Level(f, n - 1) \in Int
  <2>1. n - 1 \in Int /\ n \in Int BY <1>1
  <2> QED BY <1>1, <2>1, LevelIs
<1>4. /\ Op(n) = "LoopStart" => Level(f, n) = Level(f, n - 1) + 1
      /\ Op(n) = "LoopEnd" => Level(f, n) = Level(f, n - 1) - 1
      /\ Op(n) \notin {"LoopStart", "LoopEnd"} => Level(f, n) = Level(f, n - 1)
  BY <1>1, LevelStep
<1>5. CASE Level(f, n) > 0
  <2>1. \A i \in Insts \cap (f..n) : i = n \/ i \in f..(n - 1) BY <1>1
  <2>2. Within(f, n) BY <1>1, <1>2, <1>5, <2>1 DEF Within
  <2> QED BY <2>2
<1>6. CASE ~(Level(f, n) > 0)
  <2>1. n # f
    <3>1. Level(f, f - 1) = 0 BY <1>1, LevelNone
    <3> QED BY <1>1, <1>3, <1>4, <1>6, <3>1
  <2>2. n - 1 >= f BY <1>1, <2>1
  <2>3. Op(n) = "LoopEnd" /\ Level(f, n) = 0 /\ Level(f, n - 1) = 1
    BY <1>2, <1>3, <1>4, <1>6, <2>2
  <2>4. Closes(f, n) BY <1>1, <1>2, <2>1, <2>3 DEF Closes
  <2> QED BY <1>2, <2>3, <2>4
<1> QED BY <1>5, <1>6

(* What ways from f lead to has a branch in the map, or is gone on to.      *)
LEMMA JitIsLed ==
    ASSUME NEW f, NEW is_loop, Compiles(f, is_loop), NEW k, NEW n \in f..Size,
           Led(f, is_loop, k, n - 1), NEW stops, stops = Stops(f, is_loop), n \in Reach(f, stops)
    PROVE  (n \in Starts => n \in k.map) /\ (n \notin Starts => k.live)
<1>1. /\ WaysGoOn /\ f \in Insts /\ f \in Starts /\ f \in Nat /\ Insts \subseteq Nat
      /\ n \in Nat /\ f <= n
  BY CompilesTypes
<1>2. CASE n = f BY <1>1, <1>2 DEF Led
<1>3. CASE n # f
  <2>1. PICK a \in Reach(f, stops) : a \notin stops /\ n \in Onward[a] BY <1>1, <1>3, ReachedFrom
  <2>2. a \in Insts BY DEF Reach
  <2>3. a \in Nat /\ n > a BY <1>1, <2>1, <2>2 DEF Onward
  <2>4. a <= n - 1 /\ n > n - 1 BY <1>1, <2>3
  <2> QED BY <2>1, <2>4 DEF Led
<1> QED BY <1>2, <1>3

(* The compiler fails at a block for dead code only.                        *)
LEMMA JitIsBlocked ==
    ASSUME NEW f, NEW is_loop, Compiles(f, is_loop), NEW k \in Jits, NEW n \in f..Size, n \in Insts,
           Going(f, is_loop, k, n - 1), Blocked(k, n)
    PROVE  /\ n \notin k.map => "no branch" \in MayPanic
           /\ n \in k.map => "no back edge" \in MayPanic
<1>1. NestedLoops /\ n \in Starts BY DEF Compiles, Blocked
<1>2. ASSUME n \notin k.map PROVE "no branch" \in MayPanic
  <2> SUFFICES ASSUME DeadBlocks = {} PROVE FALSE BY DEF MayPanic
  <2>1. n \in Ways({1}, {}, Follows) BY <1>1 DEF DeadBlocks
  <2>2. n \in Reach(1, {}) BY <1>1, <2>1, PathsFromStart
  <2>3. InCode(f, is_loop, n) BY JitIsInCode DEF Going
  <2> DEFINE stops == Stops(f, is_loop)
  <2>4. n \in Reach(f, stops)
    <3>1. CASE is_loop
      <4>1. f \in Headers /\ (Within(f, n) \/ Closes(f, n)) BY <2>3, <3>1 DEF Compiles, InCode
      <4>2. n \in Reach(f, Closers(f)) BY <1>1, <2>2, <4>1, LoopIsReached
      <4> QED BY <3>1, <4>2 DEF Stops
    <3>2. CASE ~is_loop BY <2>2, <3>2 DEF Compiles, Stops
    <3> QED BY <3>1, <3>2
  <2>5. Led(f, is_loop, k, n - 1) BY DEF Going
  <2>6. stops = Stops(f, is_loop) OBVIOUS
  <2> HIDE DEF stops
  <2>7. n \in k.map BY <1>1, <2>4, <2>5, <2>6, JitIsLed
  <2> QED BY <1>2, <2>7
<1>3. ASSUME n \in k.map PROVE "no back edge" \in MayPanic
  <2>1. Op(n) = "LoopStart" /\ Scan(n).back = {} BY <1>3 DEF Blocked
  <2>2. n \in Headers BY <1>1, <2>1 DEF Headers
  <2>3. n \in OnceLoops BY <1>1, <2>1, <2>2, ScanFindsBranchBack
  <2> QED BY <2>3 DEF MayPanic
<1> QED BY <1>2, <1>3

(* It is live where a loop starts and ends.                                 *)
LEMMA JitSeesMarks ==
    ASSUME NEW f, NEW is_loop, Compiles(f, is_loop), NEW k, NEW n \in f..Size, n \in Insts,
           Lively(f, k, n - 1), Op(n) \in {"LoopStart", "LoopEnd"}
    PROVE  n \in Starts \/ k.live
<1>1. /\ f \in Insts /\ f \in Starts /\ f \in Nat /\ Insts \subseteq Nat /\ n \in Nat /\ f <= n
  BY CompilesTypes
<1>2. PICK i \in Starts \cap Insts :
        i <= n /\ \A w \in Insts : i <= w /\ w < n => Op(w) \notin {"Br", "Ret"}
  BY DEF Compiles, NestedLoops, MarksAreScanned
<1>3. i \in Nat /\ \A w \in Insts : w \in Nat BY <1>1, <1>2
<1> SUFFICES ASSUME n \notin Starts PROVE k.live OBVIOUS
<1>4. Unbroken(f, n - 1)
  <2>1. CASE f <= i
    <3>1. i <= n - 1 BY <1>1, <1>2, <1>3
    <3>2. \A w \in Insts : i <= w /\ w <= n - 1 => Op(w) \notin {"Br", "Ret"} BY <1>1, <1>2, <1>3
    <3> QED BY <1>2, <2>1, <3>1, <3>2 DEF Unbroken
  <2>2. CASE ~(f <= i)
    <3>1. f <= n - 1 BY <1>1
    <3>2. \A w \in Insts : f <= w /\ w <= n - 1 => Op(w) \notin {"Br", "Ret"}
      BY <1>1, <1>2, <1>3, <2>2
    <3> QED BY <1>1, <3>1, <3>2 DEF Unbroken
  <2> QED BY <2>1, <2>2
<1> SUFFICES ASSUME NextStarts(n - 1) PROVE FALSE BY <1>4 DEF Lively
<1>5. PICK g \in Insts \cap Starts : g > n - 1 /\ \A w \in Insts : ~(n - 1 < w /\ w < g)
  BY DEF NextStarts
<1>6. g \in Nat /\ g = n BY <1>1, <1>3, <1>5
<1> QED BY <1>5, <1>6

(* The closing instruction of a loop is behind all that is left.            *)
LEMMA JitEndsLoop ==
    ASSUME NEW f, NEW is_loop, Compiles(f, is_loop), NEW k, NEW n \in f..Size, n \in Insts,
           Going(f, is_loop, k, n - 1), k \in Jits, Op(n) = "LoopEnd", k.count = 1
    PROVE  is_loop => Level(f, n) = 0 /\ k.map \ {n} \subseteq k.headers
<1>1. /\ f \in Insts /\ f \in Nat /\ Insts \subseteq Nat /\ n \in Nat /\ f <= n /\ Starts \subseteq Insts
  BY CompilesTypes
<1>2. Level(f, n) = 0
  <2>1. Level(f, n) = Level(f, n - 1) - 1 BY <1>1, LevelStep
  <2> QED BY <2>1 DEF Going, Counted
<1>3. ASSUME is_loop, NEW m \in k.map, m # n, m \notin k.headers PROVE FALSE
  <2>1. m > n - 1 /\ (Within(f, m) \/ Closes(f, m)) BY <1>3 DEF Going, Collected, InCode
  <2>2. m \in Nat BY <1>1 DEF Jits
  <2>3. m > n BY <1>1, <1>3, <2>1, <2>2
  <2>4. n \in f..m /\ n \in f..(m - 1) BY <1>1, <2>2, <2>3
  <2>5. Level(f, n) > 0 BY <2>1, <2>4 DEF Within, Closes
  <2> QED BY <1>2, <2>5
<1> QED BY <1>2, <1>3

(* What the compiler passes over leads nowhere.                             *)
LEMMA JitPassesDead ==
    ASSUME NEW f, NEW is_loop, Compiles(f, is_loop), NEW k \in Jits, NEW n \in f..Size, n \in Insts,
           Going(f, is_loop, k, n - 1), n \notin Starts, ~k.live
    PROVE  Going(f, is_loop, k, n)
<1>1. /\ WaysGoOn /\ f \in Insts /\ f \in Starts /\ f \in Nat /\ Insts \subseteq Nat
      /\ Starts \subseteq Insts /\ n \in Nat /\ f <= n
  BY CompilesTypes
<1>2. n > f /\ f <= n - 1 BY <1>1
<1>3. /\ Counted(f, is_loop, k, n - 1) /\ Collected(f, is_loop, k, n - 1)
      /\ Led(f, is_loop, k, n - 1) /\ Lively(f, k, n - 1) /\ k.panics = {}
  BY DEF Going
<1>4. \A i \in Insts : i \in Nat /\ (i <= n <=> i <= n - 1 \/ i = n) /\ (i > n - 1 <=> i > n \/ i = n)
  <2> SUFFICES ASSUME NEW i \in Insts
               PROVE i \in Nat /\ (i <= n <=> i <= n - 1 \/ i = n) /\ (i > n - 1 <=> i > n \/ i = n)
    OBVIOUS
  <2>1. i \in Nat BY <1>1
  <2> QED BY <1>1, <2>1
<1>5. k.map \subseteq Starts BY DEF Jits
<1>6. Op(n) \notin {"LoopStart", "LoopEnd"} BY <1>3, JitSeesMarks
<1>7. n \notin Reach(f, Stops(f, is_loop))
  <2> DEFINE stops == Stops(f, is_loop)
  <2>1. stops = Stops(f, is_loop) OBVIOUS
  <2> HIDE DEF stops
  <2>2. n \notin Reach(f, stops) BY <1>3, <2>1, JitIsLed
  <2> QED BY <2>1, <2>2
<1>8. Counted(f, is_loop, k, n)
  <2>1. Level(f, n) = Level(f, n - 1) BY <1>1, <1>6, LevelStep
  <2>2. \A i \in Insts \cap (f..n) : i \in Insts \cap (f..(n - 1)) \/ i = n BY <1>1
  <2> QED BY <1>2, <1>3, <2>1, <2>2 DEF Counted
<1>9. Collected(f, is_loop, k, n) BY <1>1, <1>3, <1>4, <1>5 DEF Collected
<1>10. Led(f, is_loop, k, n)
  <2>1. ~(n < f) BY <1>1
  <2>2. ASSUME NEW a \in Reach(f, Stops(f, is_loop)), a <= n, a \notin Stops(f, is_loop),
               NEW b \in Onward[a], b > n
        PROVE  (b \in Starts => b \in k.map) /\ (b \notin Starts => k.live)
    <3>1. a \in Insts BY DEF Reach
    <3>2. b \in Insts BY <1>1, <3>1 DEF Onward, WaysGoOn
    <3>3. a <= n - 1 /\ b > n - 1 BY <1>4, <1>7, <2>2, <3>1, <3>2
    <3> QED BY <1>3, <2>2, <3>3 DEF Led
  <2> QED BY <2>1, <2>2 DEF Led
<1>11. Lively(f, k, n)
  <2> SUFFICES ASSUME Unbroken(f, n) PROVE FALSE BY DEF Lively
  <2>1. Unbroken(f, n - 1) BY <1>1, <1>4 DEF Unbroken
  <2>2. PICK g \in Insts \cap Starts : g > n - 1 /\ \A w \in Insts : ~(n - 1 < w /\ w < g)
    BY <1>3, <2>1 DEF Lively, NextStarts
  <2>3. g # n BY <1>1
  <2>4. n - 1 < n /\ n < g BY <1>1, <1>4, <2>2, <2>3
  <2> QED BY <2>2, <2>4
<1> QED BY <1>3, <1>8, <1>9, <1>10, <1>11 DEF Going

(* The branches of what is compiled are collected.                          *)
LEMMA JitGoesOn ==
    ASSUME NEW f, NEW is_loop, Compiles(f, is_loop), NEW k \in Jits, NEW n \in f..Size, n \in Insts,
           Going(f, is_loop, k, n - 1), NEW e \in Jits,
           e.panics = {}, ~(Op(n) = "LoopEnd" /\ is_loop /\ k.count = 1),
           k.headers \subseteq e.headers,
           n \in Starts /\ Op(n) = "LoopStart" => n \in e.headers,
           e.map = (k.map \ {n}) \cup BranchesTo(n) \cup NextBlock(n),
           Op(n) = "LoopStart" => e.count = k.count + 1,
           Op(n) = "LoopEnd" => e.count = k.count - 1,
           Op(n) \notin {"LoopStart", "LoopEnd"} => e.count = k.count,
           Op(n) \notin {"Br", "Ret"} /\ Follow(n) \notin Starts => e.live
    PROVE  Going(f, is_loop, e, n)
<1>1. /\ WaysGoOn /\ f \in Insts /\ f \in Starts /\ f \in Nat /\ Insts \subseteq Nat
      /\ Starts \subseteq Insts /\ n \in Nat /\ f <= n /\ NestedLoops
      /\ BackToHeader /\ EntersAtHeader
      /\ is_loop => Op(f) = "LoopStart"
      /\ ~is_loop => f = 1
  BY CompilesTypes DEF Compiles, NestedLoops
<1>2. /\ Counted(f, is_loop, k, n - 1) /\ Collected(f, is_loop, k, n - 1)
      /\ Led(f, is_loop, k, n - 1)
  BY DEF Going
<1>3. \A i \in Insts : i \in Nat /\ (i <= n <=> i <= n - 1 \/ i = n) /\ (i > n - 1 <=> i > n \/ i = n)
  <2> SUFFICES ASSUME NEW i \in Insts
               PROVE i \in Nat /\ (i <= n <=> i <= n - 1 \/ i = n) /\ (i > n - 1 <=> i > n \/ i = n)
    OBVIOUS
  <2>1. i \in Nat BY <1>1
  <2> QED BY <1>1, <2>1
<1>4. is_loop => Within(f, n) BY <1>2, JitIsInCode
<1>5. Counted(f, is_loop, e, n)
  <2>1. Level(f, n - 1) \in Int
    <3>1. n - 1 \in Int BY <1>1
    <3> QED BY <1>1, <3>1, LevelIs
  <2>2. /\ Op(n) = "LoopStart" => Level(f, n) = Level(f, n - 1) + 1
        /\ Op(n) = "LoopEnd" => Level(f, n) = Level(f, n - 1) - 1
        /\ Op(n) \notin {"LoopStart", "LoopEnd"} => Level(f, n) = Level(f, n - 1)
    BY <1>1, LevelStep
  <2>3. k.count = Level(f, n - 1) BY <1>2 DEF Counted
  <2>4. e.count = Level(f, n) BY <2>2, <2>3
  <2>5. n \in f..n BY <1>1
  <2> QED BY <1>4, <2>4, <2>5 DEF Counted, Within
<1>6. \A m \in Insts : is_loop /\ m \in Onward[n] => Within(f, m) \/ Closes(f, m)
  <2> SUFFICES ASSUME NEW m \in Insts, is_loop, m \in Onward[n] PROVE Within(f, m) \/ Closes(f, m)
    OBVIOUS
  <2>1. f \in {i \in Insts : Op(i) = "LoopStart"} BY <1>1
  <2> QED BY <1>1, <1>4, <2>1 DEF EntersAtHeader
<1>7. Collected(f, is_loop, e, n)
  <2>1. ASSUME NEW m \in e.map PROVE (m > n /\ InCode(f, is_loop, m)) \/ m \in e.headers
    <3>1. m \in Insts BY <1>1 DEF Jits
    <3>2. CASE m \in k.map /\ m # n
      <4>1. (m > n - 1 /\ InCode(f, is_loop, m)) \/ m \in k.headers BY <1>2, <3>2 DEF Collected
      <4> QED BY <1>3, <3>1, <3>2, <4>1
    <3>3. CASE m \in BranchesTo(n) /\ m > n
      <4>1. m \in Onward[n] BY <3>3 DEF Onward, Follows
      <4> QED BY <1>6, <3>1, <3>3, <4>1 DEF InCode
    <3>4. CASE m \in BranchesTo(n) /\ ~(m > n)
      <4>1. m <= n
        <5>1. m \in Nat /\ n \in Nat /\ ~(m > n) BY <1>1, <1>3, <3>1, <3>4
        <5> QED BY ONLY <5>1
      <4>2. Op(m) = "LoopStart" BY <1>1, <3>4, <4>1 DEF BackToHeader
      <4>3. m # n BY <3>4, <4>2 DEF BranchesTo, Branches
      <4>4. m \in Starts BY <3>4 DEF Starts
      <4>5. f <= m
        <5>1. is_loop => f <= m BY <1>1, <1>4, <3>4, <4>1, BranchesStayInside
        <5>2. m >= 1 BY <3>1, CompilesTypes
        <5> QED BY <1>1, <1>3, <3>1, <5>1, <5>2
      <4>6. m <= n - 1 BY <1>3, <3>1, <4>1, <4>3
      <4> QED BY <1>2, <3>1, <4>2, <4>4, <4>5, <4>6 DEF Collected
    <3>5. CASE m \in NextBlock(n)
      <4>1. Op(n) \notin {"Br", "Ret"} /\ m = Follow(n) BY <3>5 DEF NextBlock
      <4>2. m > n BY <1>1, <4>1 DEF WaysGoOn
      <4>3. m \in Onward[n] BY <4>1, <4>2 DEF Onward, Follows
      <4> QED BY <1>6, <3>1, <4>2, <4>3 DEF InCode
    <3> QED BY <3>2, <3>3, <3>4, <3>5
  <2>2. ASSUME NEW b \in Insts \cap Starts, f <= b, b <= n, Op(b) = "LoopStart" PROVE b \in e.headers
    <3>1. CASE b = n BY <2>2, <3>1
    <3>2. CASE b # n
      <4>1. b <= n - 1 BY <1>3, <2>2, <3>2
      <4> QED BY <1>2, <2>2, <4>1 DEF Collected
    <3> QED BY <3>1, <3>2
  <2> QED BY <2>1, <2>2 DEF Collected
<1>8. Led(f, is_loop, e, n)
  <2>1. ~(n < f) BY <1>1
  <2>2. ASSUME NEW a \in Reach(f, Stops(f, is_loop)), a <= n, a \notin Stops(f, is_loop),
               NEW b \in Onward[a], b > n
        PROVE  (b \in Starts => b \in e.map) /\ (b \notin Starts => e.live)
    <3>1. a \in Insts BY DEF Reach
    <3>2. b \in Insts /\ b \in Follows[a] BY <1>1, <3>1 DEF Onward, WaysGoOn
    <3>3. CASE a = n
      <4>1. CASE b \in BranchesTo(n) BY <4>1 DEF Starts
      <4>2. CASE Op(n) \notin {"Br", "Ret"} /\ b = Follow(n) BY <4>2 DEF NextBlock
      <4> QED BY <3>1, <3>2, <3>3, <4>1, <4>2 DEF Follows
    <3>4. CASE a # n
      <4>1. a <= n - 1 /\ b > n - 1 /\ b # n BY <1>1, <1>3, <2>2, <3>1, <3>2, <3>4
      <4>2. b \in Starts => b \in k.map BY <1>2, <2>2, <4>1 DEF Led
      <4>3. b \in Starts
        <5> SUFFICES ASSUME b \notin Starts PROVE FALSE OBVIOUS
        <5>1. Op(a) \notin {"Br", "Ret"} /\ b = Follow(a) BY <3>1, <3>2 DEF Follows, Starts
        <5>2. ~(a < n /\ n < b) BY <1>1, <3>1, <5>1 DEF WaysGoOn
        <5>3. a \in Nat /\ n \in Nat /\ b \in Nat /\ a <= n - 1 /\ b > n BY <1>1, <1>3, <2>2, <3>1, <3>2, <4>1
        <5>4. a < n /\ n < b BY ONLY <5>3
        <5> QED BY <5>2, <5>4
      <4> QED BY <4>1, <4>2, <4>3
    <3> QED BY <3>3, <3>4
  <2> QED BY <2>1, <2>2 DEF Led
<1>9. Lively(f, e, n)
  <2> SUFFICES ASSUME Unbroken(f, n), Follow(n) \in Starts, Op(n) \notin {"Br", "Ret"}
               PROVE  NextStarts(n)
    <3>1. Unbroken(f, n) => Op(n) \notin {"Br", "Ret"} BY <1>1 DEF Unbroken
    <3> QED BY <3>1 DEF Lively
  <2>1. Follow(n) > n /\ \A w \in Insts : ~(n < w /\ w < Follow(n)) BY <1>1 DEF WaysGoOn
  <2> QED BY <1>1, <2>1 DEF NextStarts
<1> QED BY <1>5, <1>7, <1>8, <1>9 DEF Going

LEMMA JitStep ==
    ASSUME NEW f, NEW is_loop, Compiles(f, is_loop), NEW k \in Jits, NEW n \in f..Size,
           JitInv(f, is_loop, k, n - 1), NEW e, e = JitNext(k, n, is_loop)
    PROVE  JitInv(f, is_loop, e, n)
<1>1. /\ WaysGoOn /\ is_loop \in BOOLEAN /\ n \in Positions /\ f \in Nat /\ f >= 1 /\ n \in Nat
      /\ f <= n /\ NestedLoops
      /\ is_loop => Op(f) = "LoopStart"
      /\ ~is_loop => f = 1
  <2>1. /\ WaysGoOn /\ is_loop \in BOOLEAN /\ f \in Nat /\ f >= 1 /\ Size \in Nat
        /\ is_loop => Op(f) = "LoopStart"
    BY CompilesTypes
  <2>2. n \in Nat /\ f <= n /\ n \in 1..Size BY <2>1
  <2>3. NestedLoops /\ (~is_loop => f = 1) BY DEF Compiles
  <2> QED BY <2>1, <2>2, <2>3 DEF Positions
<1>2. k.done \/ n \notin Insts => e = k BY <1>1, JitNextType
<1>3. CASE k.done BY <1>2, <1>3 DEF JitInv
<1>4. CASE ~k.done /\ n \notin Insts
  <2>1. Going(f, is_loop, k, n) BY <1>4, JitPassesWord DEF JitInv
  <2> QED BY <1>2, <1>4, <2>1 DEF JitInv
<1>5. CASE ~k.done /\ n \in Insts
  <2>1. Going(f, is_loop, k, n - 1) /\ k.panics = {} BY <1>5 DEF JitInv, Going
  <2>2. CASE Blocked(k, n)
    <3>1. /\ n \notin k.map => "no branch" \in MayPanic
          /\ n \in k.map => "no back edge" \in MayPanic
      BY <1>5, <2>1, <2>2, JitIsBlocked
    <3>2. /\ e.done
          /\ n \notin k.map => e.panics = {"no branch"}
          /\ n \in k.map => e.panics = {"no back edge"}
      BY <1>1, <1>5, <2>2, JitSteps
    <3>3. e.panics \subseteq MayPanic /\ e.panics # {} BY <3>1, <3>2
    <3> QED BY <3>2, <3>3 DEF JitInv
  <2>3. CASE ~Blocked(k, n) /\ n \notin Starts /\ ~k.live
    <3>1. e = k BY <1>1, <1>5, <2>3, JitSteps
    <3>2. Going(f, is_loop, k, n) BY <1>5, <2>1, <2>3, JitPassesDead
    <3> QED BY <1>5, <2>1, <3>1, <3>2 DEF JitInv
  <2>4. CASE ~Blocked(k, n) /\ (n \in Starts \/ k.live)
    <3>1. /\ e \in Jits
          /\ Op(n) = "LoopEnd" /\ k.count = 0 => e.done /\ e.panics = {"loop_count"}
          /\ ~(Op(n) = "LoopEnd" /\ k.count = 0) =>
               /\ e.panics = k.panics
               /\ e.done <=> Op(n) = "LoopEnd" /\ is_loop /\ k.count = 1
               /\ k.headers \subseteq e.headers
               /\ n \in Starts /\ Op(n) = "LoopStart" => n \in e.headers
               /\ e.done => e.map = k.map \ {n}
               /\ ~e.done =>
                    /\ e.map = (k.map \ {n}) \cup BranchesTo(n) \cup NextBlock(n)
                    /\ Op(n) = "LoopStart" => e.count = k.count + 1
                    /\ Op(n) = "LoopEnd" => e.count = k.count - 1
                    /\ Op(n) \notin {"LoopStart", "LoopEnd"} => e.count = k.count
                    /\ Op(n) \notin {"Br", "Ret"} /\ Follow(n) \notin Starts => e.live
      BY <1>1, <1>5, <2>4, JitSteps
    <3>2. ~(Op(n) = "LoopEnd" /\ k.count = 0)
      <4> SUFFICES ASSUME Op(n) = "LoopEnd", k.count = 0 PROVE FALSE OBVIOUS
      <4>1. Counted(f, is_loop, k, n - 1) BY <2>1 DEF Going
      <4>2. Level(f, n - 1) = 0 BY <4>1 DEF Counted
      <4>3. ~is_loop
        <5>1. is_loop => n - 1 >= f BY <1>1
        <5> QED BY <4>1, <4>2, <5>1 DEF Counted
      <4>4. Level(f, n) = Level(f, n - 1) - 1 BY <1>1, <1>5, LevelStep
      <4>5. Level(f, n) >= 0 BY <1>1, <1>5, <4>3 DEF NestedLoops, EndsLoops
      <4> QED BY <4>2, <4>4, <4>5
    <3>3. CASE e.done
      <4>1. Op(n) = "LoopEnd" /\ is_loop /\ k.count = 1 BY <3>1, <3>2, <3>3
      <4>2. k.map \ {n} \subseteq k.headers BY <1>5, <2>1, <4>1, JitEndsLoop
      <4>3. e.map \subseteq e.headers /\ e.panics = {} BY <2>1, <3>1, <3>2, <3>3, <4>2
      <4> QED BY <3>3, <4>3 DEF JitInv
    <3>4. CASE ~e.done
      <4>1. e.panics = {} BY <2>1, <3>1, <3>2
      <4>2. Going(f, is_loop, e, n) BY <1>5, <2>1, <3>1, <3>2, <3>4, <4>1, JitGoesOn
      <4> QED BY <3>4, <4>1, <4>2 DEF JitInv
    <3> QED BY <3>3, <3>4
  <2> QED BY <2>2, <2>3, <2>4
<1> QED BY <1>3, <1>4, <1>5

(* What is left when all is compiled are branches back to headers.          *)
LEMMA JitPanicsOnDeadCode ==
    ASSUME NEW f, NEW is_loop, Compiles(f, is_loop)
    PROVE  JitCompile(f, is_loop).panics \subseteq MayPanic
<1> DEFINE jit == JitFrom(f, is_loop)
<1>1. /\ Size \in Nat /\ f \in Positions /\ f \in Starts /\ is_loop \in BOOLEAN /\ f \in Nat /\ f >= 1
      /\ f <= Size /\ Starts \subseteq Insts /\ \A j \in Insts : j \in Nat /\ j <= Size
  BY CompilesTypes DEF Positions
<1>2. IsJit(f, is_loop, jit) BY <1>1, JitIsJit
<1>3. JitCompile(f, is_loop) = BackEdges(jit[Size]) BY DEF JitCompile
<1> HIDE DEF jit
<1> DEFINE Q == {n \in Nat : f - 1 <= n /\ n <= Size /\ ~JitInv(f, is_loop, jit[n], n)}
<1>4. Q = {}
  <2> SUFFICES ASSUME Q # {} PROVE FALSE OBVIOUS
  <2>1. PICK n \in Q : \A m \in Q : n <= m
    <3>1. Q \in SUBSET Nat /\ Q # {} OBVIOUS
    <3> HIDE DEF Q
    <3> QED BY <3>1, Least
  <2>2. n # f - 1
    <3>1. JitInv(f, is_loop, jit[f - 1], f - 1) BY <1>2, JitStarts DEF IsJit
    <3> QED BY <2>1, <3>1
  <2>3. n - 1 \in Nat /\ n - 1 \notin Q /\ f - 1 <= n - 1 /\ n - 1 <= Size /\ n \in f..Size
        /\ n - 1 \in (f - 1)..Size
    BY <1>1, <2>1, <2>2
  <2>4. JitInv(f, is_loop, jit[n - 1], n - 1) BY <2>3
  <2>5. jit[n - 1] \in Jits /\ jit[n] = JitNext(jit[n - 1], n, is_loop) BY <1>2, <2>3 DEF IsJit
  <2>6. JitInv(f, is_loop, jit[n], n) BY <2>3, <2>4, <2>5, JitStep
  <2> QED BY <2>1, <2>6
<1> DEFINE k == jit[Size]
<1>5. JitInv(f, is_loop, k, Size) /\ k \in Jits
  <2>1. Size \in (f - 1)..Size /\ f - 1 <= Size BY <1>1
  <2> QED BY <1>1, <1>2, <1>4, <2>1 DEF IsJit
<1> HIDE DEF k
<1>6. k.panics = {} => k.map \subseteq k.headers
  <2> SUFFICES ASSUME k.panics = {}, ~k.done, NEW m \in k.map, m \notin k.headers PROVE FALSE
    BY <1>5 DEF JitInv
  <2>1. m > Size BY <1>5 DEF JitInv, Going, Collected
  <2>2. m \in Insts BY <1>1, <1>5 DEF Jits
  <2> QED BY <1>1, <2>1, <2>2
<1>7. BackEdges(k) = k BY <1>6 DEF BackEdges
<1> QED BY <1>3, <1>5, <1>7 DEF JitInv, k

(* In all code whose loops are nested, compiling the method, or a loop of    *)
(* it, meets a state that is declared unreachable (merge.rs:83, 129) for     *)
(* code that can never run only.                                             *)
THEOREM CompilerIsSafe == LoopsAreNested => JitCompiles
<1> SUFFICES ASSUME IsCompiled, NestedLoops PROVE JitCompiles BY DEF LoopsAreNested, JitCompiles
<1>1. Compiles(1, FALSE) BY DEF Compiles
<1>2. JitCompile(1, FALSE).panics \subseteq MayPanic
  <2> DEFINE f == 1
             is_loop == FALSE
  <2>1. Compiles(f, is_loop) BY <1>1
  <2> HIDE DEF f, is_loop
  <2>2. JitCompile(f, is_loop).panics \subseteq MayPanic BY <2>1, JitPanicsOnDeadCode
  <2> QED BY <2>2 DEF f, is_loop
<1>3. ASSUME NEW h \in Headers PROVE JitCompile(h, TRUE).panics \subseteq MayPanic
  <2> DEFINE is_loop == TRUE
  <2>1. Compiles(h, is_loop) BY DEF Compiles
  <2> HIDE DEF is_loop
  <2>2. JitCompile(h, is_loop).panics \subseteq MayPanic BY <2>1, JitPanicsOnDeadCode
  <2> QED BY <2>2 DEF is_loop
<1> QED BY <1>2, <1>3 DEF JitCompiles
=============================================================================
