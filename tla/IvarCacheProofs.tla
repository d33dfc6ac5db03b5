--------------------------- MODULE IvarCacheProofs ---------------------------
(***************************************************************************)
(* Theorems of IvarCache, for every set of objects, classes, names and     *)
(* programs: the caches are right, no slot is lost, and all of it          *)
(* implements IvarStore.                                                   *)
(***************************************************************************)
EXTENDS IvarCache, FiniteSetTheorems, TLAPS

LEMMA NamesType ==
    /\ Cardinality(Names) \in Nat
    /\ \A D \in SUBSET Names : /\ IsFiniteSet(D) /\ Cardinality(D) \in Nat
                               /\ Cardinality(D) <= Cardinality(Names)
BY IvarAssumption, FS_CardinalityType, FS_Subset

(* A name that a class has not numbered yet gets the next number. *)
LEMMA NextNumber ==
    ASSUME NEW D \in SUBSET Names, NEW n \in Names, n \notin D
    PROVE  /\ Cardinality(D \cup {n}) = Cardinality(D) + 1
           /\ Cardinality(D) < Cardinality(Names)
<1>1. IsFiniteSet(D) /\ IsFiniteSet(Names) BY NamesType, IvarAssumption
<1>2. Cardinality(D \cup {n}) = Cardinality(D) + 1 BY <1>1, FS_AddElement
<1>3. D # Names OBVIOUS
<1>4. Cardinality(D) < Cardinality(Names)
  BY <1>1, <1>3, NamesType, FS_Subset
<1> QED BY <1>2, <1>4
-----------------------------------------------------------------------------
(* The memory: the numbers of the classes and the slots of the objects.     *)

(* Numbers are given in order, each to one name; and a slot that is not     *)
(* empty has the number of a name of its object's class, in whatever order  *)
(* names were numbered and classes changed.                                 *)
Numbered ==
    \A c \in Classes :
        /\ DOMAIN ivarNames[c] \subseteq Names
        /\ \A n \in DOMAIN ivarNames[c] :
              /\ ivarNames[c][n] \in Nat
              /\ ivarNames[c][n] < Cardinality(DOMAIN ivarNames[c])
        /\ \A n, m \in DOMAIN ivarNames[c] : ivarNames[c][n] = ivarNames[c][m] => n = m
SlotsNamed ==
    \A o \in Objs, id \in Nat :
        GetVar(o, id) # None => \E n \in DOMAIN ivarNames[classOf[o]] :
                                    ivarNames[classOf[o]][n] = id
MemType ==
    /\ DOMAIN ivarNames = Classes
    /\ classOf \in [Values -> Classes]
    /\ inlined \in [Ordinary -> [InlineIds -> Vals \cup {None}]]
    /\ table \in [Objs -> Seq(Vals \cup {None})]
    /\ \A o \in Objs : Len(table[o]) <= Cardinality(Names)
ObjClasses == \A o \in Packed : classOf[o] \in AlwaysFrozen
MemInv == MemType /\ Numbered /\ SlotsNamed /\ ObjClasses

(* What a write to the slot id of o does to the slots of all objects. *)
LEMMA Resize ==
    ASSUME NEW S, NEW t \in Seq(S), NEW e \in S, NEW k \in Nat \ {0}, None \in S
    PROVE  LET u == [Resized(t, k) EXCEPT ![k] = e]
           IN  /\ u \in Seq(S)
               /\ Len(u) = IF k > Len(t) THEN k ELSE Len(t)
               /\ k \in DOMAIN u /\ u[k] = e
               /\ \A j \in Nat : j # k => /\ j \in DOMAIN t => j \in DOMAIN u /\ u[j] = t[j]
                                          /\ j \in DOMAIN u /\ j \notin DOMAIN t => u[j] = None
<1> DEFINE n == IF k > Len(t) THEN k ELSE Len(t)
           r == [i \in 1..n |-> IF i \in DOMAIN t THEN t[i] ELSE None]
           u == [r EXCEPT ![k] = e]
<1>1. n \in Nat /\ k \in 1..n /\ DOMAIN t = 1..Len(t) /\ Len(t) \in Nat /\ Len(t) <= n
  OBVIOUS
<1>2. Resized(t, k) = r BY DEF Resized
<1> HIDE DEF n
<1>3. \A i \in 1..n : i \in DOMAIN t => t[i] \in S BY <1>1
<1>4. r \in [1..n -> S] BY <1>3
<1>5. \A i \in 1..n : r[i] = IF i \in DOMAIN t THEN t[i] ELSE None OBVIOUS
<1> HIDE DEF r
<1>6. u \in [1..n -> S] /\ u[k] = e /\ \A i \in 1..n : i # k => u[i] = r[i]
  BY <1>1, <1>4
<1> HIDE DEF u
<1>7. u \in Seq(S) /\ Len(u) = n /\ DOMAIN u = 1..n BY <1>1, <1>6
<1>8. \A j \in Nat : j # k => /\ j \in DOMAIN t => j \in DOMAIN u /\ u[j] = t[j]
                              /\ j \in DOMAIN u /\ j \notin DOMAIN t => u[j] = None
  BY <1>1, <1>5, <1>6, <1>7
<1> QED BY <1>1, <1>2, <1>6, <1>7, <1>8 DEF u, n

LEMMA SlotWritten ==
    ASSUME MemType, NEW o \in Objs, NEW id \in Ids, NEW v \in Vals, SetVar(o, id, v)
    PROVE  /\ inlined' \in [Ordinary -> [InlineIds -> Vals \cup {None}]]
           /\ table' \in [Objs -> Seq(Vals \cup {None})]
           /\ \A q \in Objs : Len(table'[q]) <= Cardinality(Names)
           /\ \A q \in Objs, i \in Nat :
                 GetVar(q, i)' = IF q = o /\ i = id THEN v ELSE GetVar(q, i)
<1> DEFINE S == Vals \cup {None}
<1>1. /\ Cardinality(Names) \in Nat /\ InlineIvars \in Nat /\ Ordinary \subseteq Objs
      /\ id \in Nat /\ id < Cardinality(Names)
  BY NamesType, IvarAssumption DEF Ids
<1>2. v \in S /\ None \in S OBVIOUS
<1>3. /\ inlined \in [Ordinary -> [InlineIds -> S]] /\ table \in [Objs -> Seq(S)]
      /\ \A q \in Objs : Len(table[q]) <= Cardinality(Names)
  BY DEF MemType
<1>4. \A q, i : GetVar(q, i)' = IF IsInline(q, i) THEN inlined'[q][i]
                                ELSE IF TableIndex(q, i) \in DOMAIN table'[q]
                                     THEN table'[q][TableIndex(q, i)] ELSE None
  BY DEF GetVar, IsInline, TableIndex
<1> HIDE DEF S
<1>5. CASE IsInline(o, id)
  <2>1. inlined' = [inlined EXCEPT ![o][id] = v] /\ table' = table BY <1>5 DEF SetVar
  <2>2. o \in Ordinary /\ id \in InlineIds BY <1>1, <1>5 DEF IsInline, InlineIds
  <2>3. inlined' \in [Ordinary -> [InlineIds -> S]] BY <1>2, <1>3, <2>1, <2>2
  <2>4. \A q \in Ordinary, i \in InlineIds :
          inlined'[q][i] = IF q = o /\ i = id THEN v ELSE inlined[q][i]
    BY <1>3, <2>1, <2>2
  <2>5. ASSUME NEW q \in Objs, NEW i \in Nat
        PROVE  GetVar(q, i)' = IF q = o /\ i = id THEN v ELSE GetVar(q, i)
    <3>1. CASE IsInline(q, i)
      <4>1. q \in Ordinary /\ i \in InlineIds BY <1>1, <3>1 DEF IsInline, InlineIds
      <4> QED BY <1>4, <2>4, <3>1, <4>1 DEF GetVar
    <3>2. CASE ~IsInline(q, i)
      <4>1. ~(q = o /\ i = id) BY <1>5, <3>2
      <4> QED BY <1>4, <2>1, <3>2, <4>1 DEF GetVar
    <3> QED BY <3>1, <3>2
  <2> QED BY <1>3, <2>1, <2>3, <2>5 DEF S
<1>6. CASE ~IsInline(o, id)
  <2> DEFINE k == TableIndex(o, id)
             u == [Resized(table[o], k) EXCEPT ![k] = v]
  <2>1. inlined' = inlined /\ table' = [table EXCEPT ![o] = u] BY <1>6 DEF SetVar
  <2>2. k \in Nat \ {0} /\ k <= Cardinality(Names) BY <1>1, <1>6 DEF IsInline, TableIndex
  <2>3. \A i \in Nat : ~IsInline(o, i) /\ i # id => TableIndex(o, i) \in Nat /\ TableIndex(o, i) # k
    BY <1>1, <1>6 DEF IsInline, TableIndex
  <2>4. table[o] \in Seq(S) BY <1>3
  <2> HIDE DEF k
  <2>5. /\ u \in Seq(S) /\ Len(u) = (IF k > Len(table[o]) THEN k ELSE Len(table[o]))
        /\ k \in DOMAIN u /\ u[k] = v
        /\ \A j \in Nat : j # k => /\ j \in DOMAIN table[o] => j \in DOMAIN u /\ u[j] = table[o][j]
                                   /\ j \in DOMAIN u /\ j \notin DOMAIN table[o] => u[j] = None
    BY <1>2, <2>2, <2>4, Resize
  <2> HIDE DEF u
  <2>6. table' \in [Objs -> Seq(S)] /\ table'[o] = u /\ \A q \in Objs : q # o => table'[q] = table[q]
    BY <1>3, <2>1, <2>5
  <2>7. \A q \in Objs : Len(table'[q]) <= Cardinality(Names)
    BY <1>1, <1>3, <2>2, <2>4, <2>5, <2>6
  <2>8. ASSUME NEW q \in Objs, NEW i \in Nat
        PROVE  GetVar(q, i)' = IF q = o /\ i = id THEN v ELSE GetVar(q, i)
    <3>1. CASE IsInline(q, i) BY <1>4, <1>6, <2>1, <3>1 DEF GetVar
    <3>2. CASE ~IsInline(q, i) /\ q # o BY <1>4, <2>6, <3>2 DEF GetVar
    <3>3. CASE ~IsInline(q, i) /\ q = o /\ i = id
      BY <1>4, <2>5, <2>6, <3>3 DEF k
    <3>4. CASE ~IsInline(q, i) /\ q = o /\ i # id
      <4>1. TableIndex(o, i) \in Nat /\ TableIndex(o, i) # k BY <2>3, <3>4
      <4>2. GetVar(o, i)' = IF TableIndex(o, i) \in DOMAIN u THEN u[TableIndex(o, i)] ELSE None
        BY <1>4, <2>6, <3>4
      <4>3. GetVar(o, i) = IF TableIndex(o, i) \in DOMAIN table[o]
                           THEN table[o][TableIndex(o, i)] ELSE None
        BY <3>4 DEF GetVar
      <4> QED BY <2>5, <3>4, <4>1, <4>2, <4>3
    <3> QED BY <3>1, <3>2, <3>3, <3>4
  <2> QED BY <1>3, <2>1, <2>6, <2>7, <2>8 DEF S
<1> QED BY <1>5, <1>6

(* The class c has numbered n, if it had not before. *)
Grown(c, n) ==
    /\ DOMAIN ivarNames' = Classes
    /\ \A d \in Classes : d # c => ivarNames'[d] = ivarNames[d]
    /\ DOMAIN ivarNames'[c] = DOMAIN ivarNames[c] \cup {n}
    /\ \A m \in DOMAIN ivarNames[c] : ivarNames'[c][m] = ivarNames[c][m]
    /\ ivarNames'[c][n] = GetIvarId(c, n)

LEMMA NumberGrows ==
    ASSUME MemInv, NEW c \in Classes, NEW n \in Names,
           Number(c, n) \/ (Knows(c, n) /\ ivarNames' = ivarNames)
    PROVE  Grown(c, n)
<1>1. DOMAIN ivarNames = Classes BY DEF MemInv, MemType
<1>2. CASE Number(c, n)
  <2> DEFINE f == [m \in DOMAIN ivarNames[c] \cup {n} |->
                     IF m = n THEN GetIvarId(c, n) ELSE ivarNames[c][m]]
  <2>1. ivarNames' = [ivarNames EXCEPT ![c] = f] BY <1>2 DEF Number
  <2>2. /\ DOMAIN f = DOMAIN ivarNames[c] \cup {n}
        /\ \A m \in DOMAIN ivarNames[c] : f[m] = ivarNames[c][m]
        /\ f[n] = GetIvarId(c, n)
    BY DEF GetIvarId, Knows
  <2> HIDE DEF f
  <2>3. /\ DOMAIN ivarNames' = Classes /\ ivarNames'[c] = f
        /\ \A d \in Classes : d # c => ivarNames'[d] = ivarNames[d]
    BY <1>1, <2>1
  <2> QED BY <2>2, <2>3 DEF Grown
<1>3. CASE Knows(c, n) /\ ivarNames' = ivarNames
  BY <1>1, <1>3 DEF Grown, Knows, GetIvarId
<1> QED BY <1>2, <1>3

LEMMA IdType ==
    ASSUME MemInv, NEW c \in Classes, NEW n \in Names
    PROVE  /\ GetIvarId(c, n) \in Ids
           /\ \A m \in DOMAIN ivarNames[c] : ivarNames[c][m] \in Ids
           /\ \A m \in DOMAIN ivarNames[c] : m # n => ivarNames[c][m] # GetIvarId(c, n)
           /\ ~Knows(c, n) => GetIvarId(c, n) = Cardinality(DOMAIN ivarNames[c])
<1> DEFINE D == DOMAIN ivarNames[c]
<1>1. /\ D \in SUBSET Names
      /\ \A m \in D : ivarNames[c][m] \in Nat /\ ivarNames[c][m] < Cardinality(D)
      /\ \A m, q \in D : ivarNames[c][m] = ivarNames[c][q] => m = q
  BY DEF MemInv, Numbered
<1>2. /\ Cardinality(D) \in Nat /\ Cardinality(Names) \in Nat
      /\ Cardinality(D) <= Cardinality(Names)
  BY <1>1, NamesType
<1>3. n \notin D => Cardinality(D) < Cardinality(Names) BY <1>1, NextNumber
<1>4. GetIvarId(c, n) = IF n \in D THEN ivarNames[c][n] ELSE Cardinality(D)
  BY DEF GetIvarId, Knows
<1> HIDE DEF D
<1>5. \A m \in D : ivarNames[c][m] \in Ids BY <1>1, <1>2 DEF Ids
<1>6. GetIvarId(c, n) \in Ids BY <1>2, <1>3, <1>4, <1>5 DEF Ids
<1>7. \A m \in D : m # n => ivarNames[c][m] # GetIvarId(c, n) BY <1>1, <1>2, <1>4
<1> QED BY <1>4, <1>5, <1>6, <1>7 DEF D, Knows

(* A write under the number of n: the other variables of the object, and    *)
(* those of the objects of its class for which n is new, are as before.     *)
LEMMA NameWritten ==
    ASSUME MemInv, NEW o \in Objs, NEW n \in Names, NEW v \in Vals,
           Grown(classOf[o], n), SetVar(o, GetIvarId(classOf[o], n), v), classOf' = classOf
    PROVE  /\ MemInv'
           /\ \A q \in Objs, m \in Names :
                 GetIvar(q, m)' = IF q = o /\ m = n THEN v ELSE GetIvar(q, m)
<1> DEFINE c == classOf[o]
           id == GetIvarId(c, n)
<1>1. /\ DOMAIN ivarNames = Classes /\ classOf \in [Values -> Classes] /\ Objs \subseteq Values
      /\ c \in Classes
  BY DEF MemInv, MemType, Values
<1>2. id \in Ids /\ \A m \in DOMAIN ivarNames[c] : m # n => ivarNames[c][m] # id
  BY <1>1, IdType
<1>3. id \in Nat BY <1>2, NamesType DEF Ids
<1>4. v # None BY IvarAssumption
<1>5. /\ inlined' \in [Ordinary -> [InlineIds -> Vals \cup {None}]]
      /\ table' \in [Objs -> Seq(Vals \cup {None})]
      /\ \A q \in Objs : Len(table'[q]) <= Cardinality(Names)
      /\ \A q \in Objs, i \in Nat :
            GetVar(q, i)' = IF q = o /\ i = id THEN v ELSE GetVar(q, i)
  BY <1>2, SlotWritten DEF MemInv
<1>6. /\ DOMAIN ivarNames' = Classes
      /\ \A d \in Classes : d # c => ivarNames'[d] = ivarNames[d]
      /\ DOMAIN ivarNames'[c] = DOMAIN ivarNames[c] \cup {n}
      /\ \A m \in DOMAIN ivarNames[c] : ivarNames'[c][m] = ivarNames[c][m]
      /\ ivarNames'[c][n] = id
  BY DEF Grown
<1>7. \A d \in Classes : /\ DOMAIN ivarNames[d] \subseteq DOMAIN ivarNames'[d]
                         /\ \A m \in DOMAIN ivarNames[d] : ivarNames'[d][m] = ivarNames[d][m]
  BY <1>1, <1>6
<1>8. \A q \in Objs : q # o /\ classOf[q] = c /\ n \notin DOMAIN ivarNames[c] => GetVar(q, id) = None
  <2> SUFFICES ASSUME NEW q \in Objs, classOf[q] = c, n \notin DOMAIN ivarNames[c],
                      GetVar(q, id) # None
               PROVE  FALSE
    OBVIOUS
  <2>1. PICK m \in DOMAIN ivarNames[c] : ivarNames[c][m] = id
    BY <1>3 DEF MemInv, SlotsNamed
  <2> QED BY <1>2, <2>1
<1> HIDE DEF c, id
<1>9. MemType' BY <1>1, <1>5, <1>6 DEF MemInv, MemType
<1>10. Numbered'
  <2>1. ASSUME NEW d \in Classes, d # c
        PROVE  /\ DOMAIN ivarNames'[d] \subseteq Names
               /\ \A m \in DOMAIN ivarNames'[d] :
                     /\ ivarNames'[d][m] \in Nat
                     /\ ivarNames'[d][m] < Cardinality(DOMAIN ivarNames'[d])
               /\ \A q, m \in DOMAIN ivarNames'[d] : ivarNames'[d][q] = ivarNames'[d][m] => q = m
    <3>1. ivarNames'[d] = ivarNames[d] BY <1>6, <2>1
    <3> QED BY <3>1 DEF MemInv, Numbered
  <2>2. /\ DOMAIN ivarNames'[c] \subseteq Names
        /\ \A m \in DOMAIN ivarNames'[c] :
              /\ ivarNames'[c][m] \in Nat
              /\ ivarNames'[c][m] < Cardinality(DOMAIN ivarNames'[c])
        /\ \A q, m \in DOMAIN ivarNames'[c] : ivarNames'[c][q] = ivarNames'[c][m] => q = m
    <3> DEFINE D == DOMAIN ivarNames[c]
    <3>1. /\ D \in SUBSET Names
          /\ \A m \in D : ivarNames[c][m] \in Nat /\ ivarNames[c][m] < Cardinality(D)
          /\ \A m, q \in D : ivarNames[c][m] = ivarNames[c][q] => m = q
      BY <1>1 DEF MemInv, Numbered
    <3> DEFINE card == Cardinality(D)
               next == Cardinality(DOMAIN ivarNames'[c])
    <3>2. /\ n \in D => id = ivarNames[c][n] /\ next = card
          /\ n \notin D => id = card /\ next = card + 1
          /\ card \in Nat
      <4>1. DOMAIN ivarNames'[c] = D \cup {n} BY <1>6
      <4>2. CASE n \in D
        <5>1. D \cup {n} = D BY <4>2
        <5> QED BY <3>1, <4>1, <4>2, <5>1, NamesType DEF id, GetIvarId, Knows
      <4>3. CASE n \notin D
        BY <3>1, <4>1, <4>3, NextNumber, NamesType DEF id, GetIvarId, Knows
      <4> QED BY <4>2, <4>3
    <3>3. \A m \in DOMAIN ivarNames'[c] : m \in D \/ m = n BY <1>6
    <3>4. \A m \in DOMAIN ivarNames'[c] : ivarNames'[c][m] \in Nat /\ ivarNames'[c][m] < next
      <4>1. \A m \in D : ivarNames'[c][m] \in Nat /\ ivarNames'[c][m] < card BY <1>6, <3>1
      <4>2. n \in D => id \in Nat /\ id < card BY <3>1, <3>2
      <4>3. ivarNames'[c][n] = id BY <1>6
      <4> HIDE DEF card, next, D
      <4>4. \A m \in DOMAIN ivarNames'[c] : m # n => ivarNames'[c][m] \in Nat /\ ivarNames'[c][m] < card
        BY <3>3, <4>1
      <4>5. ivarNames'[c][n] \in Nat /\ ivarNames'[c][n] < next BY <3>2, <4>2, <4>3
      <4>6. card <= next /\ card \in Nat /\ next \in Nat BY <3>2
      <4> QED BY <4>4, <4>5, <4>6
    <3>5. \A q, m \in DOMAIN ivarNames'[c] : ivarNames'[c][q] = ivarNames'[c][m] => q = m
      BY <1>2, <1>6, <3>1, <3>3
    <3> QED BY <1>6, <3>1, <3>4, <3>5
  <2> QED BY <2>1, <2>2 DEF Numbered
<1>11. SlotsNamed'
  <2> SUFFICES ASSUME NEW q \in Objs, NEW i \in Nat, GetVar(q, i)' # None
               PROVE  \E m \in DOMAIN ivarNames'[classOf[q]] : ivarNames'[classOf[q]][m] = i
    BY DEF SlotsNamed
  <2>1. CASE q = o /\ i = id BY <1>6, <2>1 DEF c
  <2>2. CASE ~(q = o /\ i = id)
    <3>1. GetVar(q, i) # None BY <1>5, <2>2
    <3>2. PICK m \in DOMAIN ivarNames[classOf[q]] : ivarNames[classOf[q]][m] = i
      BY <3>1 DEF MemInv, SlotsNamed
    <3>3. classOf[q] \in Classes BY <1>1
    <3> QED BY <1>7, <3>2, <3>3
  <2> QED BY <2>1, <2>2
<1>12. ObjClasses' BY DEF MemInv, ObjClasses
<1>13. ASSUME NEW q \in Objs, NEW m \in Names
       PROVE  GetIvar(q, m)' = IF q = o /\ m = n THEN v ELSE GetIvar(q, m)
  <2> DEFINE d == classOf[q]
  <2>1. d \in Classes BY <1>1
  <2>2. /\ m \notin DOMAIN ivarNames'[d] => GetIvar(q, m)' = None
        /\ m \in DOMAIN ivarNames'[d] =>
              \A i \in Nat : i = ivarNames'[d][m] => GetIvar(q, m)' = GetVar(q, i)'
    BY DEF GetIvar, Knows, GetVar, IsInline, TableIndex
  <2>3. GetIvar(q, m) = IF m \in DOMAIN ivarNames[d] THEN GetVar(q, ivarNames[d][m]) ELSE None
    BY DEF GetIvar, Knows
  <2>4. \A k \in DOMAIN ivarNames[d] : ivarNames[d][k] \in Nat
    BY <2>1 DEF MemInv, Numbered
  <2>5. \A k \in DOMAIN ivarNames'[d] : ivarNames'[d][k] \in Nat
    BY <1>10, <2>1 DEF Numbered
  <2>6. q = o => d = c BY DEF c
  <2> HIDE DEF d
  <2>7. CASE q = o /\ m = n BY <1>3, <1>5, <1>6, <2>2, <2>6, <2>7
  <2>8. CASE ~(q = o /\ m = n) /\ m \in DOMAIN ivarNames[d]
    <3>1. ivarNames'[d][m] = ivarNames[d][m] /\ m \in DOMAIN ivarNames'[d]
      BY <1>7, <2>1, <2>8
    <3>2. ~(q = o /\ ivarNames[d][m] = id) BY <1>2, <2>6, <2>8
    <3> QED BY <1>5, <2>2, <2>3, <2>4, <2>8, <3>1, <3>2
  <2>9. CASE ~(q = o /\ m = n) /\ m \notin DOMAIN ivarNames[d]
    <3>1. CASE m \in DOMAIN ivarNames'[d]
      <4>1. d = c /\ m = n /\ q # o BY <1>6, <2>1, <2>6, <2>9, <3>1
      <4>2. GetVar(q, id) = None BY <1>8, <2>9, <4>1 DEF d
      <4> QED BY <1>3, <1>5, <1>6, <2>2, <2>3, <2>9, <3>1, <4>1, <4>2
    <3>2. CASE m \notin DOMAIN ivarNames'[d] BY <2>2, <2>3, <2>9, <3>2
    <3> QED BY <3>1, <3>2
  <2> QED BY <2>7, <2>8, <2>9
<1> QED BY <1>9, <1>10, <1>11, <1>12, <1>13 DEF MemInv
-----------------------------------------------------------------------------
(* What reading and writing a name comes to, and what IvarStore sees of it. *)

(* No number of a name is ever changed or taken back. *)
KeepsNumbers ==
    \A c \in Classes : \A n \in DOMAIN ivarNames[c] :
        n \in DOMAIN ivarNames'[c] /\ ivarNames'[c][n] = ivarNames[c][n]
ReplyTyped == reply # NoReply => reply.op = "inspect" \/ reply.value \in Replies
RubyStep == MemInv' /\ KeepsNumbers /\ ReplyTyped' /\ Ruby!Next

LEMMA GetType ==
    ASSUME MemInv
    PROVE  /\ \A o \in Objs, i \in Nat : GetVar(o, i) \in Vals \cup {None}
           /\ \A o \in Values : \A n : GetIvar(o, n) \in Vals \cup {None}
<1>1. /\ inlined \in [Ordinary -> [InlineIds -> Vals \cup {None}]]
      /\ table \in [Objs -> Seq(Vals \cup {None})]
      /\ classOf \in [Values -> Classes] /\ InlineIvars \in Nat
      /\ \A c \in Classes : \A n \in DOMAIN ivarNames[c] : ivarNames[c][n] \in Nat
  BY IvarAssumption DEF MemInv, MemType, Numbered
<1>2. ASSUME NEW o \in Objs, NEW i \in Nat
      PROVE  GetVar(o, i) \in Vals \cup {None}
  <2>1. CASE IsInline(o, i)
    <3>1. o \in Ordinary /\ i \in InlineIds BY <1>1, <2>1 DEF IsInline, InlineIds
    <3> QED BY <1>1, <2>1, <3>1 DEF GetVar
  <2>2. CASE ~IsInline(o, i) /\ TableIndex(o, i) \in DOMAIN table[o]
    BY <1>1, <2>2 DEF GetVar
  <2>3. CASE ~IsInline(o, i) /\ TableIndex(o, i) \notin DOMAIN table[o]
    BY <2>3 DEF GetVar
  <2> QED BY <2>1, <2>2, <2>3
<1>3. ASSUME NEW o \in Values, NEW n
      PROVE  GetIvar(o, n) \in Vals \cup {None}
  BY <1>1, <1>2 DEF GetIvar, Knows
<1> QED BY <1>2, <1>3

LEMMA AnswerIsOne ==
    ASSUME NEW op \in {"get", "set"}, NEW o \in Values, NEW n \in Names, NEW a \in Replies
    PROVE  [op |-> op, recv |-> o, name |-> n, value |-> a] # NoReply
BY IvarAssumption

(* The memory is as it was: so is what can be read of it. *)
LEMMA MemorySame ==
    ASSUME MemInv, UNCHANGED memVars, classOf' = classOf
    PROVE  MemInv' /\ KeepsNumbers /\ StoreOf' = StoreOf
<1>1. /\ ivarNames' = ivarNames /\ inlined' = inlined /\ table' = table BY DEF memVars
<1>2. \A o, i : GetVar(o, i)' = GetVar(o, i) BY <1>1 DEF GetVar, IsInline, TableIndex
<1>3. MemInv'
  <2>1. MemType' /\ Numbered' BY <1>1 DEF MemInv, MemType, Numbered
  <2>2. SlotsNamed' BY <1>1, <1>2 DEF MemInv, SlotsNamed
  <2>3. ObjClasses' BY DEF MemInv, ObjClasses
  <2> QED BY <2>1, <2>2, <2>3 DEF MemInv
<1>4. \A o, n : GetIvar(o, n)' = GetIvar(o, n)
  BY <1>1 DEF GetIvar, Knows, GetVar, IsInline, TableIndex
<1> QED BY <1>1, <1>3, <1>4 DEF KeepsNumbers, StoreOf

LEMMA ReadStep ==
    ASSUME MemInv, NEW o \in Values, NEW n \in Names, NEW v \in Vals \cup {None, Nil},
           OrNil(v) = OrNil(GetIvar(o, n)), Answer("get", o, n, v),
           UNCHANGED memVars, classOf' = classOf
    PROVE  RubyStep
<1>1. MemInv' /\ KeepsNumbers /\ StoreOf' = StoreOf BY MemorySame
<1>2. reply' = [op |-> "get", recv |-> o, name |-> n, value |-> v] BY DEF Answer
<1>3. v \in Replies /\ v # Spurious /\ v # Silent /\ v # Presumed
  BY IvarAssumption DEF Replies
<1>4. reply' # NoReply BY <1>2, <1>3, AnswerIsOne
<1>5. Observed' = [op |-> "get", recv |-> o, name |-> n, value |-> OrNil(v)]
  BY <1>2, <1>3, <1>4 DEF Observed, AsRuby, OrNil
<1>6. OrNil(v) = IF o \in Objs /\ StoreOf[o][n] # None THEN StoreOf[o][n] ELSE Nil
  BY DEF StoreOf, OrNil, GetIvar
<1>7. Ruby!Get(o, n)
  BY <1>1, <1>5, <1>6 DEF Ruby!Get, Ruby!Answer, Ruby!IsSet
<1>8. Ruby!Next BY <1>7 DEF Ruby!Next, Values
<1>9. ReplyTyped' BY <1>2, <1>3 DEF ReplyTyped, Replies
<1> QED BY <1>1, <1>8, <1>9 DEF RubyStep

(* What a reader presumes counts as the variable's value. *)
LEMMA PresumedStep ==
    ASSUME MemInv, NEW o \in Values, NEW n \in Names, Answer("get", o, n, Presumed),
           UNCHANGED memVars, classOf' = classOf
    PROVE  RubyStep
<1>1. MemInv' /\ KeepsNumbers /\ StoreOf' = StoreOf BY MemorySame
<1>2. reply' = [op |-> "get", recv |-> o, name |-> n, value |-> Presumed] BY DEF Answer
<1>3. Presumed \in Replies /\ Presumed # Spurious /\ Presumed # Silent
  BY IvarAssumption DEF Replies
<1>4. reply' # NoReply BY <1>2, <1>3, AnswerIsOne
<1>5. GetIvar(o, n)' = GetIvar(o, n)
  BY DEF memVars, GetIvar, Knows, GetVar, IsInline, TableIndex
<1>6. AsRuby(Presumed, o, n)' = OrNil(GetIvar(o, n)) BY <1>3, <1>5 DEF AsRuby, OrNil
<1>7. Observed' = [op |-> "get", recv |-> o, name |-> n, value |-> OrNil(GetIvar(o, n))]
  BY <1>2, <1>4, <1>6 DEF Observed, AsRuby
<1>8. OrNil(GetIvar(o, n)) = IF o \in Objs /\ StoreOf[o][n] # None THEN StoreOf[o][n] ELSE Nil
  BY DEF StoreOf, OrNil, GetIvar
<1>9. Ruby!Get(o, n)
  BY <1>1, <1>7, <1>8 DEF Ruby!Get, Ruby!Answer, Ruby!IsSet
<1>10. Ruby!Next BY <1>9 DEF Ruby!Next, Values
<1>11. ReplyTyped' BY <1>2, <1>3 DEF ReplyTyped
<1> QED BY <1>1, <1>10, <1>11 DEF RubyStep

LEMMA RefuseStep ==
    ASSUME MemInv, NEW o \in Packed, NEW n \in Names, NEW a \in {Raised, Silent},
           Answer("set", o, n, a), UNCHANGED memVars, classOf' = classOf
    PROVE  RubyStep
<1>1. MemInv' /\ KeepsNumbers /\ StoreOf' = StoreOf BY MemorySame
<1>2. reply' = [op |-> "set", recv |-> o, name |-> n, value |-> a] BY DEF Answer
<1>3. /\ a \in Replies /\ a # Spurious /\ a # Presumed /\ Raised # None /\ o \in Values
  BY IvarAssumption DEF Replies, Values
<1>4. reply' # NoReply BY <1>2, <1>3, AnswerIsOne
<1>5. Observed' = [op |-> "set", recv |-> o, name |-> n, value |-> Raised]
  BY <1>2, <1>3, <1>4 DEF Observed, AsRuby, OrNil
<1>6. Ruby!Refuse(o, n) BY <1>1, <1>5 DEF Ruby!Refuse, Ruby!Answer
<1>7. Ruby!Next BY <1>6 DEF Ruby!Next
<1>8. ReplyTyped' BY <1>2, <1>3 DEF ReplyTyped, Replies
<1> QED BY <1>1, <1>7, <1>8 DEF RubyStep

LEMMA QuietStep ==
    ASSUME MemInv, reply' = NoReply, UNCHANGED memVars, classOf' = classOf
    PROVE  RubyStep
<1>1. MemInv' /\ KeepsNumbers /\ StoreOf' = StoreOf BY MemorySame
<1>2. Ruby!Next BY <1>1 DEF Ruby!Next, Ruby!Other, Observed
<1> QED BY <1>1, <1>2 DEF RubyStep, ReplyTyped

LEMMA WriteStep ==
    ASSUME MemInv, NEW o \in Objs, NEW n \in Names, NEW v \in Vals, NEW a \in {v, Spurious},
           Grown(classOf[o], n), SetVar(o, GetIvarId(classOf[o], n), v), classOf' = classOf,
           Answer("set", o, n, a)
    PROVE  RubyStep
<1>1. /\ MemInv'
      /\ \A q \in Objs, m \in Names :
            GetIvar(q, m)' = IF q = o /\ m = n THEN v ELSE GetIvar(q, m)
  BY NameWritten
<1>2. classOf[o] \in Classes BY DEF MemInv, MemType, Values
<1>3. KeepsNumbers
  <2> SUFFICES ASSUME NEW c \in Classes, NEW m \in DOMAIN ivarNames[c]
               PROVE  m \in DOMAIN ivarNames'[c] /\ ivarNames'[c][m] = ivarNames[c][m]
    BY DEF KeepsNumbers
  <2> QED BY <1>2 DEF Grown
<1>4. StoreOf' = [StoreOf EXCEPT ![o][n] = v]
  <2> DEFINE row == [StoreOf[o] EXCEPT ![n] = v]
  <2>1. StoreOf' = [q \in Objs |-> [m \in Names |-> GetIvar(q, m)']] BY DEF StoreOf
  <2>2. /\ StoreOf = [q \in Objs |-> StoreOf[q]] /\ \A q \in Objs : StoreOf[q] = [m \in Names |-> GetIvar(q, m)]
    BY DEF StoreOf
  <2>3. row = [m \in Names |-> GetIvar(o, m)'] BY <1>1, <2>2
  <2>4. \A q \in Objs : q # o => StoreOf[q] = [m \in Names |-> GetIvar(q, m)'] BY <1>1, <2>2
  <2> HIDE DEF row
  <2>5. StoreOf' = [StoreOf EXCEPT ![o] = row] BY <2>1, <2>2, <2>3, <2>4
  <2> QED BY <2>5 DEF row
<1>5. reply' = [op |-> "set", recv |-> o, name |-> n, value |-> a] BY DEF Answer
<1>6. /\ a \in Replies /\ v # Spurious /\ v # Silent /\ v # Presumed /\ v # None
      /\ o \in Values
  BY IvarAssumption DEF Replies, Values
<1>7. reply' # NoReply BY <1>5, <1>6, AnswerIsOne
<1>8. Observed' = [op |-> "set", recv |-> o, name |-> n, value |-> v]
  <2>1. GetIvar(o, n)' = v BY <1>1
  <2>2. AsRuby(a, o, n)' = v
    <3>1. CASE a = Spurious BY <2>1, <3>1, IvarAssumption DEF AsRuby
    <3>2. CASE a = v
      <4>1. a # Spurious /\ a # Presumed /\ a # Silent /\ a # None BY <1>6, <3>2
      <4>2. AsRuby(a, o, n)' = OrNil(a) BY <4>1 DEF AsRuby
      <4> QED BY <3>2, <4>1, <4>2 DEF OrNil
    <3> QED BY <3>1, <3>2
  <2> QED BY <1>5, <1>7, <2>2 DEF Observed, AsRuby
<1>9. Ruby!Set(o, n, v) BY <1>4, <1>8 DEF Ruby!Set, Ruby!Answer
<1>10. Ruby!Next BY <1>9 DEF Ruby!Next
<1>11. ReplyTyped' BY <1>5, <1>6 DEF ReplyTyped, Replies
<1> QED BY <1>1, <1>3, <1>10, <1>11 DEF RubyStep

LEMMA InspectStep ==
    ASSUME MemInv, NEW o \in Values,
           reply' = [op |-> "inspect", recv |-> o, value |-> [n \in NamesIn(o) |-> GetIvar(o, n)]],
           UNCHANGED memVars, classOf' = classOf
    PROVE  RubyStep
<1>1. MemInv' /\ KeepsNumbers /\ StoreOf' = StoreOf BY MemorySame
<1>2. Observed' = reply' BY DEF Observed
<1>3. \A n \in NamesIn(o) : n \in Names /\ o \in Objs
  BY DEF NamesIn, MemInv, MemType, Numbered, Values
<1>4. Ruby!SetNames(o) = NamesIn(o)
  <2>1. \A n \in Names : Ruby!IsSet(o, n) <=> o \in Objs /\ GetIvar(o, n) # None
    BY DEF Ruby!IsSet, StoreOf
  <2>2. \A n \in Names : n \in NamesIn(o) <=> o \in Objs /\ GetIvar(o, n) # None
    BY DEF NamesIn, GetIvar, Knows
  <2> QED BY <1>3, <2>1, <2>2 DEF Ruby!SetNames
<1>5. \A n \in NamesIn(o) : StoreOf[o][n] = GetIvar(o, n) BY <1>3 DEF StoreOf
<1>6. [n \in Ruby!SetNames(o) |-> StoreOf[o][n]] = [n \in NamesIn(o) |-> GetIvar(o, n)]
  BY <1>4, <1>5
<1>7. Ruby!Inspect(o) BY <1>1, <1>2, <1>6 DEF Ruby!Inspect
<1>8. Ruby!Next BY <1>7 DEF Ruby!Next, Values
<1>9. ReplyTyped' BY DEF ReplyTyped
<1> QED BY <1>1, <1>8, <1>9 DEF RubyStep

(* Nothing is left behind when a class object gets its singleton class. *)
LEMMA OpenStep ==
    ASSUME MemInv, NEW o \in Openable, OpenSingleton(o)
    PROVE  RubyStep
<1>1. CASE NamesIn(o) # {} BY <1>1, QuietStep DEF OpenSingleton
<1>2. CASE NamesIn(o) = {}
  <2>1. /\ o \in Objs /\ SingletonClass[o] \in Classes \ AlwaysFrozen
        /\ \A q \in Packed : q # o
    BY IvarAssumption
  <2>2. /\ ivarNames' = ivarNames /\ inlined' = inlined /\ table' = table
        /\ classOf' = [classOf EXCEPT ![o] = SingletonClass[o]] /\ reply' = NoReply
    BY <1>2 DEF OpenSingleton, memVars
  <2>3. /\ classOf \in [Values -> Classes] /\ o \in Values /\ Objs \subseteq Values
        /\ Packed \subseteq Values
    BY <2>1 DEF MemInv, MemType, Values
  <2>4. /\ classOf' \in [Values -> Classes] /\ classOf'[o] = SingletonClass[o]
        /\ \A q \in Values : q # o => classOf'[q] = classOf[q]
    BY <2>1, <2>2, <2>3
  <2>5. \A q, i : GetVar(q, i)' = GetVar(q, i) BY <2>2 DEF GetVar, IsInline, TableIndex
  <2>6. \A i \in Nat : GetVar(o, i) = None
    <3> SUFFICES ASSUME NEW i \in Nat, GetVar(o, i) # None PROVE FALSE OBVIOUS
    <3>1. PICK n \in DOMAIN ivarNames[classOf[o]] : ivarNames[classOf[o]][n] = i
      BY <2>1 DEF MemInv, SlotsNamed
    <3>2. GetIvar(o, n) # None BY <2>1, <3>1 DEF GetIvar, Knows
    <3> QED BY <1>2, <2>1, <3>1, <3>2 DEF NamesIn
  <2>7. Numbered' BY <2>2 DEF MemInv, Numbered
  <2>8. MemType' BY <2>2, <2>4 DEF MemInv, MemType
  <2>9. ObjClasses' BY <2>1, <2>3, <2>4 DEF MemInv, ObjClasses
  <2>10. SlotsNamed'
    <3> SUFFICES ASSUME NEW q \in Objs, NEW i \in Nat, GetVar(q, i) # None
                 PROVE  \E n \in DOMAIN ivarNames[classOf'[q]] : ivarNames[classOf'[q]][n] = i
      BY <2>2, <2>5 DEF SlotsNamed
    <3>1. q # o BY <2>6
    <3> QED BY <2>3, <2>4, <3>1 DEF MemInv, SlotsNamed
  <2>11. \A q \in Objs, n \in Names : GetIvar(q, n)' = GetIvar(q, n)
    <3> SUFFICES ASSUME NEW q \in Objs, NEW n \in Names
                 PROVE  GetIvar(q, n)' = GetIvar(q, n)
      OBVIOUS
    <3>1. CASE q = o
      <4>1. GetIvar(o, n) = None BY <2>1, <2>3, <2>6 DEF GetIvar, Knows, MemInv, Numbered
      <4>2. \A m \in DOMAIN ivarNames[classOf'[o]] : ivarNames[classOf'[o]][m] \in Nat
        BY <2>1, <2>4 DEF MemInv, Numbered
      <4>3. \A i \in Nat : GetVar(o, i)' = None BY <2>5, <2>6
      <4>4. n \in DOMAIN ivarNames'[classOf'[o]] => ivarNames'[classOf'[o]][n] \in Nat
        BY <2>2, <4>2
      <4>5. GetIvar(o, n)' = None
        BY <2>2, <4>3, <4>4 DEF GetIvar, Knows, GetVar, IsInline, TableIndex
      <4> QED BY <3>1, <4>1, <4>5
    <3>2. CASE q # o
      <4>1. classOf'[q] = classOf[q] BY <2>3, <2>4, <3>2
      <4> QED BY <2>2, <4>1 DEF GetIvar, Knows, GetVar, IsInline, TableIndex
    <3> QED BY <3>1, <3>2
  <2>12. StoreOf' = StoreOf BY <2>11 DEF StoreOf
  <2>13. Ruby!Next BY <2>2, <2>12 DEF Ruby!Next, Ruby!Other, Observed
  <2> QED BY <2>2, <2>7, <2>8, <2>9, <2>10, <2>13 DEF RubyStep, MemInv, KeepsNumbers, ReplyTyped
<1> QED BY <1>1, <1>2

LEMMA SetIvarStep ==
    ASSUME MemInv, NEW o \in Values, NEW n \in Names, NEW v \in Vals,
           SetIvar(o, n, v), classOf' = classOf
    PROVE  RubyStep /\ (o \in Objs => Grown(classOf[o], n))
<1>1. Objs \cap Packed = {} BY IvarAssumption
<1>2. CASE o \in Packed BY <1>1, <1>2, RefuseStep DEF SetIvar
<1>3. CASE o \notin Packed
  <2>1. o \in Objs BY <1>3 DEF Values
  <2>2. /\ Number(classOf[o], n) /\ SetVar(o, GetIvarId(classOf[o], n), v)
        /\ Answer("set", o, n, v)
    BY <1>3 DEF SetIvar
  <2>3. classOf[o] \in Classes BY DEF MemInv, MemType
  <2>4. Grown(classOf[o], n) BY <2>2, <2>3, NumberGrows
  <2>5. RubyStep BY <2>1, <2>2, <2>4, WriteStep
  <2> QED BY <2>4, <2>5
<1> QED BY <1>2, <1>3
-----------------------------------------------------------------------------
(* Caches: a right one answers what a lookup does, and what the two         *)
(* functions with a cache leave in it is right.                             *)

RightIn(names, c, n) ==
    c \in Filled => n \in DOMAIN names[c.class] /\ names[c.class][n] = c.id

LEMMA RightAfter ==
    ASSUME KeepsNumbers
    PROVE  \A c, n : RightIn(ivarNames, c, n) => RightIn(ivarNames', c, n)
BY DEF KeepsNumbers, RightIn, Filled

LEMMA CacheRead ==
    ASSUME MemInv, NEW o \in Values, NEW n \in Names, NEW c \in Caches, RightIn(ivarNames, c, n)
    PROVE  /\ GetWithCache(o, n, c) = GetIvar(o, n)
           /\ CacheOfGet(o, n, c) \in Caches
           /\ RightIn(ivarNames, CacheOfGet(o, n, c), n)
           /\ CacheOfGet(o, n, c) \in Filled => \/ CacheOfGet(o, n, c) = c
                                                \/ CacheOfGet(o, n, c).class = classOf[o]
<1>1. /\ classOf[o] \in Classes /\ NoClass \notin Classes
      /\ \A m \in DOMAIN ivarNames[classOf[o]] : ivarNames[classOf[o]][m] \in Ids
  BY IvarAssumption, IdType DEF MemInv, MemType
<1>2. c.class \in Classes => c \in Filled
  BY <1>1 DEF Caches, EmptyCache
<1>3. GetWithCache(o, n, c) = GetIvar(o, n)
  <2>1. CASE o \in Objs /\ classOf[o] = c.class
    <3>1. n \in DOMAIN ivarNames[classOf[o]] /\ ivarNames[classOf[o]][n] = c.id
      BY <1>1, <1>2, <2>1 DEF RightIn
    <3> QED BY <2>1, <3>1 DEF GetWithCache, GetIvar, Knows
  <2>2. CASE ~(o \in Objs /\ classOf[o] = c.class) BY <2>2 DEF GetWithCache
  <2> QED BY <2>1, <2>2
<1>4. CASE o \in Objs /\ classOf[o] # c.class /\ Knows(classOf[o], n)
  <2> DEFINE e == [class |-> classOf[o], id |-> ivarNames[classOf[o]][n]]
  <2>1. CacheOfGet(o, n, c) = e BY <1>4 DEF CacheOfGet
  <2>2. e \in Filled BY <1>1, <1>4 DEF Filled, Knows
  <2>3. RightIn(ivarNames, e, n) BY <1>1, <1>4 DEF RightIn, Knows
  <2> QED BY <1>3, <2>1, <2>2, <2>3 DEF Caches
<1>5. CASE ~(o \in Objs /\ classOf[o] # c.class /\ Knows(classOf[o], n))
  BY <1>3, <1>5 DEF CacheOfGet
<1> QED BY <1>4, <1>5

LEMMA CacheWrite ==
    ASSUME MemInv, NEW o \in Values, NEW n \in Names, NEW v \in Vals, NEW c \in Caches,
           RightIn(ivarNames, c, n), SetWithCache(o, n, v, c), classOf' = classOf
    PROVE  /\ RubyStep
           /\ CacheOfSet(o, n, c) \in Caches
           /\ RightIn(ivarNames', CacheOfSet(o, n, c), n)
           /\ CacheOfSet(o, n, c) \in Filled => \/ CacheOfSet(o, n, c) = c
                                                \/ CacheOfSet(o, n, c).class = classOf[o]
<1>1. /\ classOf[o] \in Classes /\ NoClass \notin Classes
      /\ GetIvarId(classOf[o], n) \in Ids
  BY IvarAssumption, IdType DEF MemInv, MemType
<1>2. c.class \in Classes => c \in Filled
  BY <1>1 DEF Caches, EmptyCache
<1>3. CASE o \in Objs /\ classOf[o] = c.class
  <2>1. n \in DOMAIN ivarNames[classOf[o]] /\ ivarNames[classOf[o]][n] = c.id
    BY <1>1, <1>2, <1>3 DEF RightIn
  <2>2. Knows(classOf[o], n) /\ GetIvarId(classOf[o], n) = c.id BY <2>1 DEF Knows, GetIvarId
  <2>3. /\ SetVar(o, GetIvarId(classOf[o], n), v) /\ Answer("set", o, n, v)
        /\ ivarNames' = ivarNames
    BY <1>3, <2>2 DEF SetWithCache
  <2>4. Grown(classOf[o], n) BY <1>1, <2>2, <2>3, NumberGrows
  <2>5. RubyStep BY <1>3, <2>3, <2>4, WriteStep
  <2>6. CacheOfSet(o, n, c) = c BY <1>3 DEF CacheOfSet
  <2> QED BY <2>3, <2>5, <2>6
<1>4. CASE ~(o \in Objs /\ classOf[o] = c.class)
  <2>1. SetIvar(o, n, v) BY <1>4 DEF SetWithCache
  <2>2. RubyStep /\ (o \in Objs => Grown(classOf[o], n)) BY <2>1, SetIvarStep
  <2>3. CASE o \in Objs
    <3> DEFINE e == [class |-> classOf[o], id |-> GetIvarId(classOf[o], n)]
    <3>1. CacheOfSet(o, n, c) = e BY <1>4, <2>3 DEF CacheOfSet
    <3>2. e \in Filled BY <1>1 DEF Filled
    <3>3. n \in DOMAIN ivarNames'[classOf[o]] /\ ivarNames'[classOf[o]][n] = GetIvarId(classOf[o], n)
      BY <2>2, <2>3 DEF Grown
    <3>4. RightIn(ivarNames', e, n) BY <1>1, <2>3, <3>3 DEF RightIn
    <3> QED BY <2>2, <3>1, <3>2, <3>4 DEF Caches
  <2>4. CASE o \notin Objs
    <3>1. CacheOfSet(o, n, c) = c BY <2>4 DEF CacheOfSet
    <3>2. RightIn(ivarNames', c, n) BY <2>2, RightAfter DEF RubyStep
    <3> QED BY <2>2, <3>1, <3>2
  <2> QED BY <2>3, <2>4
<1> QED BY <1>3, <1>4
-----------------------------------------------------------------------------
(* The caches and the compiled codes.                                       *)

CodeType == [self : Classes, cache : [IvarSites -> Caches],
             guard : [AttrSites -> Classes \cup {NoClass}],
             attr : [AttrSites -> Filled \cup {EmptySite}]]

\* A code that kept only right caches, and in place of a call only the cache of
\* the class it guards.  Its ivar instructions have none of an always-frozen class:
\* the compiler would not have made it.
GoodCode(names, code) ==
    /\ code.guard \in Guards(code.self)
    /\ \A s \in IvarSites : /\ RightIn(names, code.cache[s], s.name)
                            /\ code.cache[s].class \notin AlwaysFrozen
    /\ \A s \in AttrSites : /\ RightIn(names, code.attr[s], s.name)
                            /\ code.attr[s] # EmptySite => code.attr[s].class = code.guard[s]

SitesGood ==
    /\ program \in Programs
    /\ bc \in [IvarSites -> Caches] /\ \A s \in IvarSites : RightIn(ivarNames, bc[s], s.name)
    /\ stub \in [Stubs -> Caches] /\ \A s \in Stubs : RightIn(ivarNames, stub[s], s.name)
CodesGood ==
    /\ codes \in Seq(CodeType) /\ Len(codes) <= MaxCodes
    /\ \A k \in DOMAIN codes : GoodCode(ivarNames, codes[k])
RunGood ==
    /\ act.code \in 0..Len(codes) /\ (act.code # 0 => act.self \in Values)
    /\ fault \in {"none", "lost", "strays", "panics"}

IvarInv == MemInv /\ ReplyTyped /\ SitesGood /\ CodesGood /\ RunGood

LEMMA SiteTypes ==
    ASSUME program \in Programs
    PROVE  /\ \A s \in IvarSites : s.name \in Names
           /\ \A s \in AttrSites : s.name \in Names /\ s.self \in BOOLEAN
           /\ \A s \in Stubs : s.name \in Names
           /\ Live \subseteq Values
<1>1. /\ program.body \subseteq IvarInstrs \cup AttrInstrs /\ program.attrs \subseteq AttrMethods
      /\ program.values \subseteq Values
  BY IvarAssumption
<1>2. \A s \in IvarSites : s.name \in Names BY <1>1 DEF IvarSites, IvarInstrs, AttrInstrs
<1>3. \A s \in AttrSites : s \in AttrInstrs BY <1>1 DEF AttrSites, IvarSites, IvarInstrs
<1> QED BY <1>1, <1>2, <1>3 DEF AttrInstrs, Stubs, AttrMethods, Live

(* The sites of the program are those it had. *)
LEMMA SameSites ==
    ASSUME program' = program
    PROVE  IvarSites' = IvarSites /\ AttrSites' = AttrSites /\ Stubs' = Stubs
BY DEF IvarSites, AttrSites, Stubs

LEMMA EmptySiteRight == \A names, n : /\ RightIn(names, EmptySite, n) /\ RightIn(names, EmptyCache, n)
                                      /\ EmptySite \notin Filled /\ EmptyCache \in Caches
BY IvarAssumption DEF RightIn, EmptySite, EmptyCache, Filled, Caches

LEMMA SitesKept ==
    ASSUME SitesGood, KeepsNumbers, UNCHANGED <<program, bc, stub>>
    PROVE  SitesGood'
<1>1. \A c, n : RightIn(ivarNames, c, n) => RightIn(ivarNames', c, n) BY RightAfter
<1>2. IvarSites' = IvarSites /\ Stubs' = Stubs BY SameSites
<1> QED BY <1>1, <1>2 DEF SitesGood

LEMMA GoodCodeAfter ==
    ASSUME KeepsNumbers
    PROVE  \A code : GoodCode(ivarNames, code) => GoodCode(ivarNames', code)
<1>1. \A c, n : RightIn(ivarNames, c, n) => RightIn(ivarNames', c, n) BY RightAfter
<1> QED BY <1>1 DEF GoodCode

LEMMA SameCodes ==
    ASSUME program' = program
    PROVE  /\ CodeType' = CodeType
           /\ \A names, code : GoodCode(names, code)' <=> GoodCode(names, code)
<1>1. IvarSites' = IvarSites /\ AttrSites' = AttrSites BY SameSites
<1> QED BY <1>1 DEF CodeType, GoodCode, Guards

LEMMA CodesKept ==
    ASSUME CodesGood, KeepsNumbers, UNCHANGED <<program, codes>>
    PROVE  CodesGood'
<1>1. \A code : GoodCode(ivarNames, code) => GoodCode(ivarNames', code) BY GoodCodeAfter
<1>2. CodeType' = CodeType BY SameCodes
<1>3. IvarSites' = IvarSites /\ AttrSites' = AttrSites BY SameSites
<1>4. ASSUME NEW k \in DOMAIN codes PROVE GoodCode(ivarNames, codes[k])'
  <2>1. GoodCode(ivarNames', codes[k]) BY <1>1 DEF CodesGood
  <2> QED BY <1>3, <2>1 DEF GoodCode, Guards
<1> QED BY <1>2, <1>4 DEF CodesGood

(* An instruction of the body, or an attr method, got the cache e. *)
LEMMA CacheFilled ==
    ASSUME SitesGood, KeepsNumbers, program' = program, NEW s, NEW e \in Caches,
           RightIn(ivarNames', e, s.name),
           \/ s \in IvarSites /\ bc' = [bc EXCEPT ![s] = e] /\ stub' = stub
           \/ s \in Stubs /\ stub' = [stub EXCEPT ![s] = e] /\ bc' = bc
    PROVE  SitesGood'
<1>1. \A c, n : RightIn(ivarNames, c, n) => RightIn(ivarNames', c, n) BY RightAfter
<1>2. IvarSites' = IvarSites /\ Stubs' = Stubs BY SameSites
<1>3. bc' \in [IvarSites -> Caches] /\ stub' \in [Stubs -> Caches] BY DEF SitesGood
<1>4. \A t \in IvarSites : bc'[t] = bc[t] \/ (t = s /\ bc'[t] = e) BY DEF SitesGood
<1>5. \A t \in Stubs : stub'[t] = stub[t] \/ (t = s /\ stub'[t] = e) BY DEF SitesGood
<1> QED BY <1>1, <1>2, <1>3, <1>4, <1>5 DEF SitesGood

(* The call s, compiled in place in the running code, got the cache e. *)
LEMMA SiteFilled ==
    ASSUME CodesGood, RunGood, KeepsNumbers, program' = program, act.code # 0,
           NEW s \in AttrSites, NEW e \in Caches, KeepSite(s, e), RightIn(ivarNames', e, s.name),
           e \in Filled => e.class = Code.guard[s]
    PROVE  CodesGood' /\ Len(codes') = Len(codes)
<1> DEFINE k0 == act.code
           f == IF e.class = NoClass THEN EmptySite ELSE e
           row == [codes[k0].attr EXCEPT ![s] = f]
           new == [codes[k0] EXCEPT !.attr = row]
<1>1. k0 \in DOMAIN codes /\ codes[k0] \in CodeType /\ GoodCode(ivarNames, codes[k0])
  BY DEF CodesGood, RunGood
<1>2. f \in Filled \cup {EmptySite} /\ RightIn(ivarNames', f, s.name)
      /\ (f # EmptySite => f.class = codes[k0].guard[s])
  BY EmptySiteRight DEF Caches, EmptyCache, Code
<1>3. codes' = [codes EXCEPT ![k0] = new] BY DEF KeepSite
<1> HIDE DEF f
<1>4. codes[k0].attr \in [AttrSites -> Filled \cup {EmptySite}] BY <1>1 DEF CodeType
<1>5. /\ row \in [AttrSites -> Filled \cup {EmptySite}] /\ row[s] = f
      /\ \A t \in AttrSites : t # s => row[t] = codes[k0].attr[t]
  BY <1>2, <1>4
<1> HIDE DEF row
<1>6. /\ new \in CodeType /\ new.attr = row /\ new.self = codes[k0].self
      /\ new.cache = codes[k0].cache /\ new.guard = codes[k0].guard
  BY <1>1, <1>5 DEF CodeType
<1> HIDE DEF new
<1>7. \A code : GoodCode(ivarNames, code) => GoodCode(ivarNames', code) BY GoodCodeAfter
<1>8. GoodCode(ivarNames', new)
  <2>1. GoodCode(ivarNames', codes[k0]) BY <1>1, <1>7
  <2> QED BY <1>2, <1>5, <1>6, <2>1 DEF GoodCode
<1> HIDE DEF k0
<1>9. codes \in Seq(CodeType) /\ Len(codes) <= MaxCodes BY DEF CodesGood
<1>10. /\ codes' \in Seq(CodeType) /\ Len(codes') = Len(codes) /\ DOMAIN codes' = DOMAIN codes
       /\ \A k \in DOMAIN codes : codes'[k] = new \/ codes'[k] = codes[k]
  BY <1>1, <1>3, <1>6, <1>9
<1>11. CodeType' = CodeType BY SameCodes
<1>12. IvarSites' = IvarSites /\ AttrSites' = AttrSites BY SameSites
<1>13. ASSUME NEW k \in DOMAIN codes' PROVE GoodCode(ivarNames, codes[k])'
  <2>1. GoodCode(ivarNames', codes'[k]) BY <1>7, <1>8, <1>10 DEF CodesGood
  <2> QED BY <1>12, <2>1 DEF GoodCode, Guards
<1> QED BY <1>9, <1>10, <1>11, <1>13 DEF CodesGood

LEMMA CodeAdded ==
    ASSUME SitesGood, CodesGood, KeepsNumbers, UNCHANGED <<program, ivarNames>>, Len(codes) < MaxCodes,
           ~FrozenCached, NEW c \in Classes, NEW code \in CodesFor(c), codes' = Append(codes, code)
    PROVE  CodesGood' /\ Len(codes') = Len(codes) + 1
<1>1. PICK g \in Guards(c) : code = [self |-> c, cache |-> bc, guard |-> g,
                                     attr |-> [s \in AttrSites |-> EmptySite]]
  BY DEF CodesFor
<1>2. code \in CodeType BY <1>1 DEF CodeType, SitesGood, Guards
<1>3. GoodCode(ivarNames, code)
  BY <1>1, EmptySiteRight DEF GoodCode, SitesGood, FrozenCached
<1>4. codes \in Seq(CodeType) /\ Len(codes) \in Nat BY DEF CodesGood
<1>5. /\ codes' \in Seq(CodeType) /\ Len(codes') = Len(codes) + 1 /\ Len(codes') <= MaxCodes
      /\ \A k \in DOMAIN codes' : codes'[k] = code \/ (k \in DOMAIN codes /\ codes'[k] = codes[k])
  BY <1>2, <1>4, IvarAssumption
<1>6. CodeType' = CodeType BY SameCodes
<1>7. IvarSites' = IvarSites /\ AttrSites' = AttrSites BY SameSites
<1>8. ASSUME NEW k \in DOMAIN codes' PROVE GoodCode(ivarNames, codes[k])'
  <2>1. GoodCode(ivarNames', codes'[k]) BY <1>3, <1>5 DEF CodesGood
  <2> QED BY <1>7, <2>1 DEF GoodCode, Guards
<1> QED BY <1>5, <1>6, <1>8 DEF CodesGood
-----------------------------------------------------------------------------
(* The actions.                                                             *)

GoodStep == RubyStep /\ SitesGood' /\ CodesGood' /\ RunGood'

(* Other code: builtins, and the functions of attr methods. *)
LEMMA OtherSteps ==
    ASSUME IvarInv, OtherCode
    PROVE  GoodStep
<1>1. /\ MemInv /\ SitesGood /\ CodesGood /\ RunGood /\ program \in Programs
  BY DEF IvarInv, SitesGood
<1>2. /\ \A s \in Stubs : s.name \in Names
      /\ Live \subseteq Values
  BY <1>1, SiteTypes
<1>3. ASSUME RubyStep, UNCHANGED <<codeVars, bc, stub>> PROVE GoodStep
  <2>1. KeepsNumbers BY <1>3 DEF RubyStep
  <2>2. SitesGood' /\ CodesGood' BY <1>1, <1>3, <2>1, SitesKept, CodesKept DEF codeVars
  <2>3. RunGood' BY <1>1, <1>3 DEF RunGood, codeVars
  <2> QED BY <1>3, <2>2, <2>3 DEF GoodStep
<1>4. ASSUME NEW s \in Stubs, NEW e \in Caches, RubyStep, RightIn(ivarNames', e, s.name),
             stub' = [stub EXCEPT ![s] = e], UNCHANGED <<codeVars, bc>>
      PROVE  GoodStep
  <2>1. KeepsNumbers BY <1>4 DEF RubyStep
  <2>2. SitesGood' BY <1>1, <1>4, <2>1, CacheFilled DEF codeVars
  <2>3. CodesGood' BY <1>1, <1>4, <2>1, CodesKept DEF codeVars
  <2>4. RunGood' BY <1>1, <1>4 DEF RunGood, codeVars
  <2> QED BY <1>4, <2>2, <2>3, <2>4 DEF GoodStep
<1>5. ASSUME NEW o \in Live, NEW n \in Names, InstanceVariableGet(o, n) PROVE GoodStep
  <2>1. Answer("get", o, n, OrNil(GetIvar(o, n))) /\ UNCHANGED <<memVars, codeVars, bc, stub>>
    BY <1>5 DEF InstanceVariableGet
  <2>2. OrNil(GetIvar(o, n)) \in Vals \cup {None, Nil} BY <1>1, <1>2, GetType DEF OrNil
  <2>3. OrNil(OrNil(GetIvar(o, n))) = OrNil(GetIvar(o, n)) BY IvarAssumption DEF OrNil
  <2>4. RubyStep BY <1>1, <1>2, <2>1, <2>2, <2>3, ReadStep DEF codeVars
  <2> QED BY <1>3, <2>1, <2>4
<1>6. ASSUME NEW o \in Live, NEW n \in Names, NEW v \in Vals, InstanceVariableSet(o, n, v)
      PROVE  GoodStep
  <2>1. SetIvar(o, n, v) /\ UNCHANGED <<codeVars, bc, stub>> BY <1>6 DEF InstanceVariableSet
  <2>2. RubyStep BY <1>1, <1>2, <2>1, SetIvarStep DEF codeVars
  <2> QED BY <1>3, <2>1, <2>2
<1>7. ASSUME NEW o \in Live, GetIvars(o) PROVE GoodStep
  <2>1. /\ reply' = [op |-> "inspect", recv |-> o, value |-> [n \in NamesIn(o) |-> GetIvar(o, n)]]
        /\ UNCHANGED <<memVars, codeVars, bc, stub>>
    BY <1>7 DEF GetIvars
  <2>2. RubyStep BY <1>1, <1>2, <2>1, InspectStep DEF codeVars
  <2> QED BY <1>3, <2>1, <2>2
<1>8. ASSUME NEW o \in Openable \cap Live, OpenSingleton(o) PROVE GoodStep
  <2>1. RubyStep BY <1>1, <1>8, OpenStep
  <2>2. UNCHANGED <<program, bc, stub, codes, act>> /\ (fault' = "lost" \/ fault' = fault)
    BY <1>8 DEF OpenSingleton
  <2>3. KeepsNumbers BY <2>1 DEF RubyStep
  <2>4. SitesGood' /\ CodesGood' BY <1>1, <2>2, <2>3, SitesKept, CodesKept
  <2>5. RunGood' BY <1>1, <2>2 DEF RunGood
  <2> QED BY <2>1, <2>4, <2>5 DEF GoodStep
<1>9. ASSUME NEW s \in Stubs, NEW o \in Live, CallReader(s, o) PROVE GoodStep
  <2> DEFINE c == stub[s]
             e == CacheOfGet(o, s.name, c)
  <2>1. /\ Answer("get", o, s.name, OrNil(GetWithCache(o, s.name, c)))
        /\ stub' = [stub EXCEPT ![s] = e] /\ UNCHANGED <<memVars, codeVars, bc>>
    BY <1>1, <1>9 DEF CallReader, SitesGood
  <2>2. c \in Caches /\ RightIn(ivarNames, c, s.name) BY <1>1 DEF SitesGood
  <2>3. /\ GetWithCache(o, s.name, c) = GetIvar(o, s.name)
        /\ e \in Caches /\ RightIn(ivarNames, e, s.name)
    BY <1>1, <1>2, <2>2, CacheRead
  <2>4. OrNil(GetIvar(o, s.name)) \in Vals \cup {None, Nil} BY <1>1, <1>2, GetType DEF OrNil
  <2>5. OrNil(OrNil(GetIvar(o, s.name))) = OrNil(GetIvar(o, s.name)) BY IvarAssumption DEF OrNil
  <2> HIDE DEF c, e
  <2>6. RubyStep BY <1>1, <1>2, <2>1, <2>3, <2>4, <2>5, ReadStep DEF codeVars
  <2>7. RightIn(ivarNames', e, s.name) BY <2>1, <2>3 DEF memVars
  <2> QED BY <1>4, <2>1, <2>3, <2>6, <2>7
<1>10. ASSUME NEW s \in Stubs, NEW o \in Live, NEW v \in Vals, CallWriter(s, o, v) PROVE GoodStep
  <2> DEFINE c == stub[s]
             e == CacheOfSet(o, s.name, c)
  <2>1. /\ SetWithCache(o, s.name, v, c)
        /\ stub' = [stub EXCEPT ![s] = e] /\ UNCHANGED <<codeVars, bc>>
    BY <1>1, <1>10 DEF CallWriter, SitesGood
  <2>2. c \in Caches /\ RightIn(ivarNames, c, s.name) BY <1>1 DEF SitesGood
  <2>3. RubyStep /\ e \in Caches /\ RightIn(ivarNames', e, s.name)
    BY <1>1, <1>2, <2>1, <2>2, CacheWrite DEF codeVars
  <2> HIDE DEF c, e
  <2> QED BY <1>4, <2>1, <2>3
<1> QED BY <1>5, <1>6, <1>7, <1>8, <1>9, <1>10 DEF OtherCode

(* The interpreter. *)
LEMMA InterpreterSteps ==
    ASSUME IvarInv, Interpreter
    PROVE  GoodStep
<1>1. /\ MemInv /\ SitesGood /\ CodesGood /\ RunGood /\ program \in Programs
  BY DEF IvarInv, SitesGood
<1>2. /\ \A s \in IvarSites : s.name \in Names
      /\ Live \subseteq Values
  BY <1>1, SiteTypes
<1>3. ASSUME NEW s \in IvarSites, NEW e \in Caches, RubyStep, RightIn(ivarNames', e, s.name),
             bc' = [bc EXCEPT ![s] = e], UNCHANGED <<codeVars, stub>>
      PROVE  GoodStep
  <2>1. KeepsNumbers BY <1>3 DEF RubyStep
  <2>2. SitesGood' BY <1>1, <1>3, <2>1, CacheFilled DEF codeVars
  <2>3. CodesGood' BY <1>1, <1>3, <2>1, CodesKept DEF codeVars
  <2>4. RunGood' BY <1>1, <1>3 DEF RunGood, codeVars
  <2> QED BY <1>3, <2>2, <2>3, <2>4 DEF GoodStep
<1>4. ASSUME NEW s \in IvarSites, NEW o \in Live, VmLoadIvar(s, o) PROVE GoodStep
  <2> DEFINE c == bc[s]
             e == CacheOfGet(o, s.name, c)
  <2>1. /\ Answer("get", o, s.name, OrNil(GetWithCache(o, s.name, c)))
        /\ bc' = [bc EXCEPT ![s] = e] /\ UNCHANGED <<memVars, codeVars, stub>>
    BY <1>1, <1>4 DEF VmLoadIvar, SitesGood
  <2>2. c \in Caches /\ RightIn(ivarNames, c, s.name) BY <1>1 DEF SitesGood
  <2>3. /\ GetWithCache(o, s.name, c) = GetIvar(o, s.name)
        /\ e \in Caches /\ RightIn(ivarNames, e, s.name)
    BY <1>1, <1>2, <2>2, CacheRead
  <2>4. OrNil(GetIvar(o, s.name)) \in Vals \cup {None, Nil} BY <1>1, <1>2, GetType DEF OrNil
  <2>5. OrNil(OrNil(GetIvar(o, s.name))) = OrNil(GetIvar(o, s.name)) BY IvarAssumption DEF OrNil
  <2> HIDE DEF c, e
  <2>6. RubyStep BY <1>1, <1>2, <2>1, <2>3, <2>4, <2>5, ReadStep DEF codeVars
  <2>7. RightIn(ivarNames', e, s.name) BY <2>1, <2>3 DEF memVars
  <2> QED BY <1>3, <2>1, <2>3, <2>6, <2>7
<1>5. ASSUME NEW s \in IvarSites, NEW o \in Live, NEW v \in Vals, VmStoreIvar(s, o, v) PROVE GoodStep
  <2> DEFINE c == bc[s]
             e == CacheOfSet(o, s.name, c)
  <2>1. /\ SetWithCache(o, s.name, v, c)
        /\ bc' = [bc EXCEPT ![s] = e] /\ UNCHANGED <<codeVars, stub>>
    BY <1>1, <1>5 DEF VmStoreIvar, SitesGood
  <2>2. c \in Caches /\ RightIn(ivarNames, c, s.name) BY <1>1 DEF SitesGood
  <2>3. RubyStep /\ e \in Caches /\ RightIn(ivarNames', e, s.name)
    BY <1>1, <1>2, <2>1, <2>2, CacheWrite DEF codeVars
  <2> HIDE DEF c, e
  <2> QED BY <1>3, <2>1, <2>3
<1> QED BY <1>4, <1>5 DEF Interpreter

(* Compiled code is left where the self it runs for is not of its class. *)
LEMMA RunningCode ==
    ASSUME IvarInv, act.code # 0
    PROVE  /\ Code \in CodeType /\ GoodCode(ivarNames, Code) /\ act.code \in DOMAIN codes
           /\ act.self \in Values
BY DEF IvarInv, CodesGood, RunGood, Code

(* A slot that a right cache names is the slot of the name. *)
LEMMA SlotOfCache ==
    ASSUME MemInv, NEW x \in Objs, NEW n \in Names, NEW c \in Filled, RightIn(ivarNames, c, n),
           classOf[x] = c.class
    PROVE  /\ Knows(classOf[x], n) /\ GetIvarId(classOf[x], n) = c.id
           /\ GetIvar(x, n) = GetVar(x, c.id) /\ c.id \in Nat
<1>1. n \in DOMAIN ivarNames[c.class] /\ ivarNames[c.class][n] = c.id
  BY DEF RightIn
<1>2. c.id \in Nat BY NamesType DEF Filled, Ids
<1> QED BY <1>1, <1>2 DEF Knows, GetIvarId, GetIvar

(* Nothing that is not on the heap has a class that is not always frozen. *)
LEMMA OnHeap ==
    ASSUME MemInv, NEW x \in Values, classOf[x] \notin AlwaysFrozen
    PROVE  x \in Objs
BY DEF Values, MemInv, ObjClasses

LEMMA SlotRead ==
    ASSUME MemInv, NEW x \in Objs, NEW n \in Names, NEW c \in Filled, RightIn(ivarNames, c, n),
           classOf[x] = c.class, Answer("get", x, n, Word(x, c.id)),
           UNCHANGED memVars, classOf' = classOf
    PROVE  RubyStep
<1>1. x \in Values /\ GetIvar(x, n) = GetVar(x, c.id) /\ c.id \in Nat
  BY SlotOfCache DEF Values
<1>2. GetVar(x, c.id) \in Vals \cup {None} BY <1>1, GetType
<1>3. Word(x, c.id) = GetVar(x, c.id) \/ Word(x, c.id) = OrNil(GetVar(x, c.id)) BY DEF Word
<1>4. /\ Word(x, c.id) \in Vals \cup {None, Nil}
      /\ OrNil(Word(x, c.id)) = OrNil(GetIvar(x, n))
  BY <1>1, <1>2, <1>3, IvarAssumption DEF OrNil
<1> QED BY <1>1, <1>4, ReadStep

LEMMA SlotStored ==
    ASSUME MemInv, NEW x \in Objs, NEW n \in Names, NEW v \in Vals, NEW c \in Filled,
           RightIn(ivarNames, c, n), classOf[x] = c.class, SetVar(x, c.id, v),
           NEW a \in {v, Spurious}, Answer("set", x, n, a), ivarNames' = ivarNames,
           classOf' = classOf
    PROVE  RubyStep
<1>1. Knows(classOf[x], n) /\ GetIvarId(classOf[x], n) = c.id BY SlotOfCache
<1>2. classOf[x] \in Classes BY DEF MemInv, MemType, Values
<1>3. Grown(classOf[x], n) BY <1>1, <1>2, NumberGrows
<1> QED BY <1>1, <1>3, WriteStep

(* What every step of compiled code that leaves the codes alone comes to. *)
LEMMA CodesUntouched ==
    ASSUME IvarInv, RubyStep, UNCHANGED <<program, bc, stub, codes>>, act' = act,
           fault' \in {fault, "strays"}
    PROVE  GoodStep
<1>1. KeepsNumbers BY DEF RubyStep
<1>2. SitesGood' /\ CodesGood' BY <1>1, SitesKept, CodesKept DEF IvarInv
<1>3. RunGood' BY DEF RunGood, IvarInv
<1> QED BY <1>2, <1>3 DEF GoodStep

LEMMA StraySteps ==
    ASSUME IvarInv, Stray
    PROVE  GoodStep
<1>1. MemInv BY DEF IvarInv
<1>2. RubyStep BY <1>1, QuietStep DEF Stray
<1> QED BY <1>2, CodesUntouched DEF Stray

LEMMA IvarSteps ==
    ASSUME IvarInv, NEW s \in IvarSites,
           JitLoadIvar(s) \/ \E v \in Vals : JitStoreIvar(s, v)
    PROVE  GoodStep
<1>1. MemInv /\ act.code # 0 /\ s.name \in Names /\ program \in Programs
  BY SiteTypes DEF IvarInv, JitLoadIvar, JitStoreIvar, SitesGood
<1>2. Code \in CodeType /\ GoodCode(ivarNames, Code) /\ act.self \in Values
  BY <1>1, RunningCode
<1> DEFINE c == Code.cache[s]
<1>3. RightIn(ivarNames, c, s.name) /\ c \in Caches BY <1>2 DEF GoodCode, CodeType
<1>4. ForSelf(s) => c \in Filled
  BY <1>2, <1>3, IvarAssumption DEF ForSelf, Caches, EmptyCache, CodeType
<1>5. ForSelf(s) /\ ~Strays => classOf[act.self] = c.class /\ act.self \in Objs
  <2>1. c.class \notin AlwaysFrozen BY <1>2 DEF GoodCode
  <2> QED BY <1>1, <1>2, <2>1, OnHeap DEF ForSelf, Strays
<1>6. CASE JitLoadIvar(s)
  <2>1. CASE ~ForSelf(s) /\ InstanceVariableGet(act.self, s.name)
    <3>1. /\ Answer("get", act.self, s.name, OrNil(GetIvar(act.self, s.name)))
          /\ UNCHANGED <<memVars, codeVars, bc, stub>>
      BY <2>1 DEF InstanceVariableGet
    <3>2. OrNil(GetIvar(act.self, s.name)) \in Vals \cup {None, Nil} BY <1>1, <1>2, GetType DEF OrNil
    <3>3. OrNil(OrNil(GetIvar(act.self, s.name))) = OrNil(GetIvar(act.self, s.name))
      BY IvarAssumption DEF OrNil
    <3>4. RubyStep BY <1>1, <1>2, <3>1, <3>2, <3>3, ReadStep DEF codeVars
    <3> QED BY <3>1, <3>4, CodesUntouched DEF codeVars
  <2>2. CASE ForSelf(s) /\ ~Strays /\ Answer("get", act.self, s.name, Word(act.self, c.id))
             /\ UNCHANGED <<memVars, codeVars, bc, stub>>
    <3>1. c \in Filled /\ classOf[act.self] = c.class /\ act.self \in Objs
      BY <1>4, <1>5, <2>2
    <3>2. /\ Answer("get", act.self, s.name, Word(act.self, c.id))
          /\ UNCHANGED <<memVars, codeVars, bc, stub>>
      BY <2>2
    <3> HIDE DEF c
    <3>3. RubyStep BY <1>1, <1>2, <1>3, <3>1, <3>2, SlotRead DEF codeVars
    <3> QED BY <3>2, <3>3, CodesUntouched DEF codeVars
  <2> QED BY <1>6, <2>1, <2>2, StraySteps DEF JitLoadIvar
<1>7. ASSUME NEW v \in Vals, JitStoreIvar(s, v) PROVE GoodStep
  <2>1. CASE ~ForSelf(s) /\ InstanceVariableSet(act.self, s.name, v)
    <3>1. SetIvar(act.self, s.name, v) /\ UNCHANGED <<codeVars, bc, stub>>
      BY <2>1 DEF InstanceVariableSet
    <3>2. RubyStep BY <1>1, <1>2, <3>1, SetIvarStep DEF codeVars
    <3> QED BY <3>1, <3>2, CodesUntouched DEF codeVars
  <2>2. CASE ForSelf(s) /\ ~Strays /\ SetVar(act.self, c.id, v) /\ Answer("set", act.self, s.name, v)
             /\ UNCHANGED <<ivarNames, codeVars, bc, stub>>
    <3>1. c \in Filled /\ classOf[act.self] = c.class /\ act.self \in Objs
      BY <1>4, <1>5, <2>2
    <3>2. /\ SetVar(act.self, c.id, v) /\ Answer("set", act.self, s.name, v)
          /\ UNCHANGED <<ivarNames, codeVars, bc, stub>>
      BY <2>2
    <3> HIDE DEF c
    <3>3. RubyStep BY <1>1, <1>2, <1>3, <3>1, <3>2, SlotStored DEF codeVars
    <3> QED BY <3>2, <3>3, CodesUntouched DEF codeVars
  <2> QED BY <1>7, <2>1, <2>2, StraySteps DEF JitStoreIvar
<1> QED BY <1>6, <1>7

(* Behind its guard, a call compiled in place has a receiver of the class   *)
(* it guards, and so has one on self where the code has not strayed.        *)
LEMMA Guarded ==
    ASSUME IvarInv, NEW s \in AttrSites, NEW x \in Values, InPlace(s, x), ~(s.self /\ Strays)
    PROVE  /\ classOf[x] = Code.guard[s] /\ Code.guard[s] \in Classes
           /\ RightIn(ivarNames, Code.attr[s], s.name)
           /\ ~Empty(s) => Code.attr[s] \in Filled /\ Code.attr[s].class = Code.guard[s]
<1>1. /\ Code \in CodeType /\ GoodCode(ivarNames, Code) /\ act.self \in Values
      /\ program \in Programs
  BY RunningCode DEF InPlace, IvarInv, SitesGood
<1>2. s.self \in BOOLEAN BY <1>1, SiteTypes
<1>3. Code.guard \in Guards(Code.self) BY <1>1 DEF GoodCode
<1>4. Code.guard[s] \in Classes \cup {NoClass} /\ Code.guard[s] # NoClass
  BY <1>1 DEF CodeType, InPlace
<1>5. classOf[x] = Code.guard[s]
  <2>1. CASE s.self
    <3>1. Code.guard[s] \in {Code.self, NoClass} BY <1>3, <2>1 DEF Guards
    <3> QED BY <1>4, <2>1, <3>1 DEF InPlace, Strays
  <2>2. CASE ~s.self BY <2>2 DEF InPlace, Passes
  <2> QED BY <2>1, <2>2
<1>6. Code.attr[s] \in Filled \cup {EmptySite} BY <1>1 DEF CodeType
<1>7. ~Empty(s) => Code.attr[s] \in Filled /\ Code.attr[s] # EmptySite
  BY <1>6, EmptySiteRight DEF Empty, EmptySite
<1> QED BY <1>1, <1>4, <1>5, <1>7 DEF GoodCode

LEMMA ReaderSteps ==
    ASSUME IvarInv, NEW s \in AttrSites, NEW x \in Live, JitReader(s, x)
    PROVE  GoodStep
<1>1. /\ MemInv /\ CodesGood /\ SitesGood /\ RunGood /\ act.code # 0 /\ program \in Programs
      /\ InPlace(s, x)
  BY DEF IvarInv, JitReader, InPlace, SitesGood
<1>2. s.name \in Names /\ x \in Values BY <1>1, SiteTypes
<1>3. CASE s.self /\ Strays /\ Stray BY <1>3, StraySteps
<1>4. CASE ~(s.self /\ Strays)
  <2>1. /\ classOf[x] = Code.guard[s] /\ Code.guard[s] \in Classes
        /\ RightIn(ivarNames, Code.attr[s], s.name)
        /\ ~Empty(s) => Code.attr[s] \in Filled /\ Code.attr[s].class = Code.guard[s]
    BY <1>1, <1>2, <1>4, Guarded
  <2>2. CASE Answer("get", x, s.name, Presumed) /\ UNCHANGED codes
             /\ UNCHANGED <<memVars, classOf, program, bc, stub, act, fault>>
    <3>1. RubyStep BY <1>1, <1>2, <2>2, PresumedStep
    <3> QED BY <2>2, <3>1, CodesUntouched
  <2>3. CASE /\ Answer("get", x, s.name, OrNil(GetWithCache(x, s.name, EmptyCache)))
             /\ KeepSite(s, CacheOfGet(x, s.name, EmptyCache))
             /\ UNCHANGED <<memVars, classOf, program, bc, stub, act, fault>>
    <3> DEFINE e == CacheOfGet(x, s.name, EmptyCache)
    <3>1. /\ EmptyCache \in Caches /\ EmptyCache \notin Filled
          /\ RightIn(ivarNames, EmptyCache, s.name)
      BY EmptySiteRight, IvarAssumption DEF EmptyCache, Filled
    <3>2. /\ GetWithCache(x, s.name, EmptyCache) = GetIvar(x, s.name)
          /\ e \in Caches /\ RightIn(ivarNames, e, s.name)
          /\ e \in Filled => e.class = classOf[x]
      BY <1>1, <1>2, <3>1, CacheRead
    <3>3. OrNil(GetIvar(x, s.name)) \in Vals \cup {None, Nil} BY <1>1, <1>2, GetType DEF OrNil
    <3>4. OrNil(OrNil(GetIvar(x, s.name))) = OrNil(GetIvar(x, s.name)) BY IvarAssumption DEF OrNil
    <3> HIDE DEF e
    <3>5. RubyStep BY <1>1, <1>2, <2>3, <3>2, <3>3, <3>4, ReadStep
    <3>6. KeepsNumbers /\ RightIn(ivarNames', e, s.name) BY <2>3, <3>2, <3>5 DEF RubyStep, memVars
    <3>7. KeepSite(s, e) BY <2>3 DEF e
    <3>8. CodesGood' /\ Len(codes') = Len(codes)
      BY <1>1, <2>1, <2>3, <3>2, <3>6, <3>7, SiteFilled
    <3>9. SitesGood' BY <1>1, <2>3, <3>6, SitesKept
    <3>10. RunGood' BY <1>1, <2>3, <3>8 DEF RunGood
    <3> QED BY <3>5, <3>8, <3>9, <3>10 DEF GoodStep
  <2>4. CASE /\ Code.guard[s] \notin AlwaysFrozen /\ ~Empty(s)
             /\ Answer("get", x, s.name, Word(x, Code.attr[s].id)) /\ UNCHANGED codes
             /\ UNCHANGED <<memVars, classOf, program, bc, stub, act, fault>>
    <3> DEFINE c == Code.attr[s]
    <3>1. c \in Filled /\ RightIn(ivarNames, c, s.name) /\ classOf[x] = c.class BY <2>1, <2>4
    <3>4. x \in Objs BY <1>1, <1>2, <2>1, <2>4, OnHeap
    <3>2. Answer("get", x, s.name, Word(x, c.id)) BY <2>4
    <3> HIDE DEF c
    <3>3. RubyStep BY <1>1, <1>2, <2>4, <3>1, <3>2, <3>4, SlotRead
    <3> QED BY <2>4, <3>3, CodesUntouched
  <2> QED BY <1>4, <2>2, <2>3, <2>4 DEF JitReader
<1> QED BY <1>3, <1>4 DEF JitReader

LEMMA WriterSteps ==
    ASSUME IvarInv, NEW s \in AttrSites, NEW x \in Live, NEW v \in Vals, JitWriter(s, x, v)
    PROVE  GoodStep
<1>1. /\ MemInv /\ CodesGood /\ SitesGood /\ RunGood /\ act.code # 0 /\ program \in Programs
      /\ InPlace(s, x)
  BY DEF IvarInv, JitWriter, InPlace, SitesGood
<1>2. s.name \in Names /\ x \in Values BY <1>1, SiteTypes
<1>3. CASE s.self /\ Strays /\ Stray BY <1>3, StraySteps
<1>4. ASSUME ~(s.self /\ Strays)
      PROVE  /\ classOf[x] = Code.guard[s] /\ Code.guard[s] \in Classes
             /\ RightIn(ivarNames, Code.attr[s], s.name)
             /\ ~Empty(s) => Code.attr[s] \in Filled /\ Code.attr[s].class = Code.guard[s]
  BY <1>1, <1>2, <1>4, Guarded
<1>5. CASE /\ ~(s.self /\ Strays) /\ Empty(s)
           /\ IF x \in Packed
              THEN Answer("set", x, s.name, Silent) /\ UNCHANGED memVars
              ELSE SetWithCache(x, s.name, v, EmptyCache)
           /\ KeepSite(s, CacheOfSet(x, s.name, EmptyCache))
           /\ UNCHANGED <<classOf, program, bc, stub, act, fault>>
  <2> DEFINE e == CacheOfSet(x, s.name, EmptyCache)
  <2>1. /\ EmptyCache \in Caches /\ EmptyCache \notin Filled
        /\ \A names : RightIn(names, EmptyCache, s.name)
    BY EmptySiteRight, IvarAssumption DEF EmptyCache, Filled
  <2>2. /\ RubyStep /\ e \in Caches /\ RightIn(ivarNames', e, s.name)
        /\ e \in Filled => e.class = classOf[x]
    <3>1. CASE x \in Packed
      <4>1. Answer("set", x, s.name, Silent) /\ UNCHANGED memVars BY <1>5, <3>1
      <4>2. RubyStep BY <1>1, <1>2, <1>5, <3>1, <4>1, RefuseStep
      <4>3. e = EmptyCache BY <3>1, IvarAssumption DEF CacheOfSet
      <4> QED BY <2>1, <4>2, <4>3
    <3>2. CASE x \notin Packed
      <4>1. SetWithCache(x, s.name, v, EmptyCache) /\ classOf' = classOf BY <1>5, <3>2
      <4>2. RightIn(ivarNames, EmptyCache, s.name) BY <2>1
      <4> QED BY <1>1, <1>2, <2>1, <4>1, <4>2, CacheWrite
    <3> QED BY <3>1, <3>2
  <2>3. KeepSite(s, e) BY <1>5
  <2> HIDE DEF e
  <2>4. KeepsNumbers BY <2>2 DEF RubyStep
  <2>5. CodesGood' /\ Len(codes') = Len(codes)
    BY <1>1, <1>4, <1>5, <2>2, <2>3, <2>4, SiteFilled
  <2>6. SitesGood' BY <1>1, <1>5, <2>4, SitesKept
  <2>7. RunGood' BY <1>1, <1>5, <2>5 DEF RunGood
  <2> QED BY <2>2, <2>5, <2>6, <2>7 DEF GoodStep
<1>6. ASSUME ~(s.self /\ Strays), ~Empty(s), x \in Objs, SetVar(x, Code.attr[s].id, v),
             NEW a \in {v, Spurious}, Answer("set", x, s.name, a),
             UNCHANGED <<ivarNames, codeVars, bc, stub>>
      PROVE  GoodStep
  <2> DEFINE c == Code.attr[s]
  <2>1. c \in Filled /\ RightIn(ivarNames, c, s.name) /\ classOf[x] = c.class BY <1>4, <1>6
  <2>2. SetVar(x, c.id, v) BY <1>6
  <2> HIDE DEF c
  <2>3. RubyStep BY <1>1, <1>2, <1>6, <2>1, <2>2, SlotStored DEF codeVars
  <2> QED BY <1>6, <2>3, CodesUntouched DEF codeVars
<1> QED BY <1>3, <1>5, <1>6, StraySteps DEF JitWriter

LEMMA CompiledSteps ==
    ASSUME IvarInv, CompiledCode
    PROVE  GoodStep
<1>1. MemInv /\ CodesGood /\ SitesGood /\ RunGood /\ program \in Programs
  BY DEF IvarInv, SitesGood
<1>2. Live \subseteq Values BY <1>1, SiteTypes
<1>3. ASSUME NEW o \in Live, Compile(o), ~FrozenCached PROVE GoodStep
  <2>1. /\ Len(codes) < MaxCodes /\ reply' = NoReply
        /\ UNCHANGED <<memVars, classOf, program, bc, stub, act, fault>>
    BY <1>3 DEF Compile
  <2>2. PICK code \in CodesFor(classOf[o]) : codes' = Append(codes, code) BY <1>3 DEF Compile
  <2>3. RubyStep BY <1>1, <2>1, QuietStep
  <2>4. KeepsNumbers BY <2>3 DEF RubyStep
  <2>5. classOf[o] \in Classes BY <1>1, <1>2 DEF MemInv, MemType
  <2>6. CodesGood' /\ Len(codes') = Len(codes) + 1
    BY <1>1, <1>3, <2>1, <2>2, <2>4, <2>5, CodeAdded DEF memVars
  <2>7. SitesGood' BY <1>1, <2>1, <2>4, SitesKept
  <2>8. Len(codes) \in Nat BY <1>1 DEF CodesGood
  <2>9. RunGood' BY <1>1, <2>1, <2>6, <2>8 DEF RunGood
  <2> QED BY <2>3, <2>6, <2>7, <2>9 DEF GoodStep
<1>4. ASSUME reply' = NoReply, act'.code \in 0..Len(codes), act'.code # 0 => act'.self \in Values,
             UNCHANGED <<memVars, classOf, program, bc, stub, codes, fault>>
      PROVE  GoodStep
  <2>1. RubyStep BY <1>1, <1>4, QuietStep
  <2>2. KeepsNumbers BY <2>1 DEF RubyStep
  <2>3. SitesGood' /\ CodesGood' BY <1>1, <1>4, <2>2, SitesKept, CodesKept
  <2>4. RunGood' BY <1>1, <1>4 DEF RunGood
  <2> QED BY <2>1, <2>3, <2>4 DEF GoodStep
<1>5. ASSUME NEW o \in Live, NEW k \in DOMAIN codes, Enter(o, k) PROVE GoodStep
  <2>1. k \in 0..Len(codes) BY <1>1 DEF CodesGood
  <2> QED BY <1>2, <1>4, <1>5, <2>1 DEF Enter
<1>6. ASSUME Leave PROVE GoodStep
  <2>1. 0 \in 0..Len(codes) BY <1>1 DEF CodesGood
  <2> QED BY <1>4, <1>6, <2>1 DEF Leave
<1>7. ASSUME NEW s \in IvarSites, JitLoadIvar(s) PROVE GoodStep
  BY <1>7, IvarSteps
<1>8. ASSUME NEW s \in IvarSites, NEW v \in Vals, JitStoreIvar(s, v) PROVE GoodStep
  BY <1>8, IvarSteps
<1>9. ASSUME NEW s \in AttrSites, NEW x \in Live, JitReader(s, x) PROVE GoodStep
  BY <1>9, ReaderSteps
<1>10. ASSUME NEW s \in AttrSites, NEW x \in Live, NEW v \in Vals, JitWriter(s, x, v) PROVE GoodStep
  BY <1>10, WriterSteps
<1>11. ASSUME NEW o \in Live, Compile(o), FrozenCached PROVE GoodStep
  <2>1. /\ fault' = "panics" /\ reply' = NoReply
        /\ UNCHANGED <<memVars, classOf, program, bc, stub, codes, act>>
    BY <1>11 DEF Compile
  <2>2. RubyStep BY <1>1, <2>1, QuietStep
  <2>3. KeepsNumbers BY <2>2 DEF RubyStep
  <2>4. SitesGood' /\ CodesGood' BY <1>1, <2>1, <2>3, SitesKept, CodesKept
  <2>5. RunGood' BY <1>1, <2>1 DEF RunGood
  <2> QED BY <2>2, <2>4, <2>5 DEF GoodStep
<1> QED BY <1>3, <1>5, <1>6, <1>7, <1>8, <1>9, <1>10, <1>11 DEF CompiledCode
-----------------------------------------------------------------------------
(* The theorems.                                                            *)

LEMMA IvarInit == Init => IvarInv /\ Ruby!Init
<1> SUFFICES ASSUME Init PROVE IvarInv /\ Ruby!Init OBVIOUS
<1>1. /\ ivarNames = [c \in Classes |-> <<>>] /\ classOf = InitClass
      /\ inlined = [o \in Ordinary |-> [i \in InlineIds |-> None]]
      /\ table = [o \in Objs |-> <<>>] /\ program \in Programs
      /\ bc = [s \in IvarSites |-> EmptyCache] /\ stub = [s \in Stubs |-> EmptyCache]
      /\ codes = <<>> /\ act = [self |-> Nil, code |-> 0] /\ reply = NoReply /\ fault = "none"
  BY DEF Init
<1>2. MemType
  <2>1. <<>> \in Seq(Vals \cup {None}) /\ Len(<<>>) = 0 OBVIOUS
  <2>2. classOf \in [Values -> Classes] BY <1>1, IvarAssumption
  <2>3. table \in [Objs -> Seq(Vals \cup {None})] BY <1>1, <2>1
  <2>4. \A o \in Objs : Len(table[o]) <= Cardinality(Names) BY <1>1, <2>1, NamesType
  <2>5. inlined \in [Ordinary -> [InlineIds -> Vals \cup {None}]] BY <1>1
  <2> QED BY <1>1, <2>2, <2>3, <2>4, <2>5 DEF MemType
<1>3. \A c \in Classes : DOMAIN ivarNames[c] = {} BY <1>1
<1>4. Numbered BY <1>3 DEF Numbered
<1>5. \A o \in Objs, i \in Nat : GetVar(o, i) = None
  <2> SUFFICES ASSUME NEW o \in Objs, NEW i \in Nat PROVE GetVar(o, i) = None OBVIOUS
  <2>1. DOMAIN table[o] = {} BY <1>1
  <2>2. IsInline(o, i) => o \in Ordinary /\ i \in InlineIds
    BY IvarAssumption DEF IsInline, InlineIds
  <2> QED BY <1>1, <2>1, <2>2 DEF GetVar
<1>6. SlotsNamed BY <1>5 DEF SlotsNamed
<1>7. ObjClasses BY <1>1, IvarAssumption DEF ObjClasses
<1>8. EmptyCache \in Caches /\ \A names, n : RightIn(names, EmptyCache, n) BY EmptySiteRight
<1>9. SitesGood BY <1>1, <1>8 DEF SitesGood
<1>10. CodesGood
  <2>1. codes \in Seq(CodeType) /\ Len(codes) = 0 /\ DOMAIN codes = {} BY <1>1
  <2> QED BY <2>1, IvarAssumption DEF CodesGood
<1>11. RunGood
  <2>1. Len(codes) = 0 BY <1>1
  <2> QED BY <1>1, <2>1 DEF RunGood
<1>12. Ruby!Init
  <2>1. \A o \in Objs : classOf[o] \in Classes BY <1>2 DEF MemType, Values
  <2>2. \A o \in Objs, n \in Names : GetIvar(o, n) = None BY <1>3, <2>1 DEF GetIvar, Knows
  <2> QED BY <1>1, <2>2 DEF Ruby!Init, StoreOf, Observed
<1> QED BY <1>1, <1>2, <1>4, <1>6, <1>7, <1>9, <1>10, <1>11, <1>12
        DEF IvarInv, MemInv, ReplyTyped

LEMMA IvarStep == IvarInv /\ [Next]_vars => IvarInv' /\ [Ruby!Next]_(Ruby!vars)
<1> SUFFICES ASSUME IvarInv, [Next]_vars PROVE IvarInv' /\ [Ruby!Next]_(Ruby!vars)
  OBVIOUS
<1>1. CASE Next
  <2>1. GoodStep BY <1>1, OtherSteps, InterpreterSteps, CompiledSteps DEF Next
  <2> QED BY <2>1 DEF GoodStep, RubyStep, IvarInv
<1>2. CASE UNCHANGED vars
  <2>1. /\ UNCHANGED <<program, bc, stub, codes, act, fault, reply>>
        /\ UNCHANGED memVars /\ classOf' = classOf /\ ivarNames' = ivarNames
        /\ inlined' = inlined /\ table' = table
    BY <1>2 DEF vars, memVars
  <2>2. MemInv' /\ KeepsNumbers /\ StoreOf' = StoreOf BY <2>1, MemorySame DEF IvarInv
  <2>3. SitesGood' /\ CodesGood' BY <2>1, <2>2, SitesKept, CodesKept DEF IvarInv
  <2>4. RunGood' /\ ReplyTyped' BY <2>1 DEF IvarInv, RunGood, ReplyTyped
  <2>5. Observed' = Observed
    BY <2>1 DEF Observed, AsRuby, GetIvar, Knows, GetVar, IsInline, TableIndex
  <2> QED BY <2>2, <2>3, <2>4, <2>5 DEF IvarInv, Ruby!vars
<1> QED BY <1>1, <1>2

LEMMA InvTypeOK == IvarInv => TypeOK
<1> SUFFICES ASSUME IvarInv PROVE TypeOK OBVIOUS
<1>1. MemInv /\ MemType /\ Numbered /\ SitesGood /\ CodesGood /\ RunGood /\ ReplyTyped
  BY DEF IvarInv, MemInv
<1>2. \A c \in Classes : DOMAIN ivarNames[c] \subseteq Names BY <1>1 DEF Numbered
<1>3. ASSUME NEW c \in Classes, NEW n \in DOMAIN ivarNames[c] PROVE ivarNames[c][n] \in Ids
  BY <1>1, <1>2, IdType
<1>4. ASSUME NEW o \in Objs
      PROVE  table[o] \in Seq(Vals \cup {None}) /\ Len(table[o]) <= Cardinality(Names)
  BY <1>1 DEF MemType
<1>5. ASSUME NEW k \in DOMAIN codes
      PROVE  /\ codes[k].self \in Classes /\ codes[k].cache \in [IvarSites -> Caches]
             /\ codes[k].guard \in Guards(codes[k].self)
             /\ codes[k].attr \in [AttrSites -> Filled \cup {EmptySite}]
  <2>1. codes[k] \in CodeType /\ GoodCode(ivarNames, codes[k]) BY <1>1 DEF CodesGood
  <2> QED BY <2>1 DEF CodeType, GoodCode
<1> QED BY <1>1, <1>2, <1>3, <1>4, <1>5
        DEF TypeOK, MemType, SitesGood, CodesGood, RunGood, ReplyTyped

LEMMA InvCaches == IvarInv => CachesNameSlots
<1> SUFFICES ASSUME IvarInv PROVE CachesNameSlots OBVIOUS
<1>1. \A c, n : RightIn(ivarNames, c, n) => Right(c, n) BY DEF RightIn, Right, Knows
<1>2. /\ \A s \in IvarSites : Right(bc[s], s.name)
      /\ \A s \in Stubs : Right(stub[s], s.name)
  BY <1>1 DEF IvarInv, SitesGood
<1>3. ASSUME NEW k \in DOMAIN codes
      PROVE  /\ \A s \in IvarSites : Right(codes[k].cache[s], s.name)
             /\ \A s \in AttrSites : /\ Right(codes[k].attr[s], s.name)
                                     /\ ~codes[k].attr[s] = EmptySite
                                          => codes[k].attr[s].class = codes[k].guard[s]
  <2>1. GoodCode(ivarNames, codes[k]) BY DEF IvarInv, CodesGood
  <2> QED BY <1>1, <2>1 DEF GoodCode
<1> QED BY <1>2, <1>3 DEF CachesNameSlots

LEMMA InvEverySlotNamed == IvarInv => EverySlotNamed
<1> SUFFICES ASSUME IvarInv, NEW o \in Objs, NEW id \in Ids, GetVar(o, id) # None
             PROVE  Cardinality(NamedBy(o, id)) = 1
  BY DEF EverySlotNamed
<1>1. id \in Nat BY NamesType DEF Ids
<1>2. PICK n \in DOMAIN ivarNames[classOf[o]] : ivarNames[classOf[o]][n] = id
  BY <1>1 DEF IvarInv, MemInv, SlotsNamed
<1>3. \A m \in DOMAIN ivarNames[classOf[o]] : ivarNames[classOf[o]][m] = id => m = n
  BY <1>2 DEF IvarInv, MemInv, MemType, Numbered, Values
<1>4. NamedBy(o, id) = {n} BY <1>2, <1>3 DEF NamedBy
<1> QED BY <1>4, FS_Singleton

(* The states of the interpreter, of the attr methods and of compiled code  *)
(* are of their types whatever order names are numbered, classes opened and *)
(* codes compiled in: a cache's number is one its class can have, and no    *)
(* table outgrows the names there are.                                      *)
THEOREM IvarTypeCorrect == Spec => []TypeOK
<1>1. Init => IvarInv BY IvarInit
<1>2. IvarInv /\ [Next]_vars => IvarInv' BY IvarStep
<1>3. IvarInv => TypeOK BY InvTypeOK
<1> QED BY <1>1, <1>2, <1>3, PTL DEF Spec

(* The numbers kept by the bytecode (LoadIvar, StoreIvar), by the functions *)
(* of attr methods and by machine code, for ivar instructions and for attr  *)
(* methods compiled in place, are right for as long as they are used.       *)
THEOREM CachesStayRight == Spec => []CachesNameSlots
<1>1. Init => IvarInv BY IvarInit
<1>2. IvarInv /\ [Next]_vars => IvarInv' BY IvarStep
<1>3. IvarInv => CachesNameSlots BY InvCaches
<1> QED BY <1>1, <1>2, <1>3, PTL DEF Spec

(* No write of any tier lands in a slot that nobody can read, and no two    *)
(* names of a class share one, also after a class object got its singleton  *)
(* class.                                                                   *)
THEOREM SlotsStayNamed == Spec => []EverySlotNamed
<1>1. Init => IvarInv BY IvarInit
<1>2. IvarInv /\ [Next]_vars => IvarInv' BY IvarStep
<1>3. IvarInv => EverySlotNamed BY InvEverySlotNamed
<1> QED BY <1>1, <1>2, <1>3, PTL DEF Spec

(* Slots, tables, caches, stubs and machine code answer every operation as  *)
(* a map from names to values would: IvarCache implements IvarStore.        *)
THEOREM IvarsImplementStore == Spec => ImplementsStore
<1>1. Init => IvarInv /\ Ruby!Init BY IvarInit
<1>2. IvarInv /\ [Next]_vars => IvarInv' /\ [Ruby!Next]_(Ruby!vars) BY IvarStep
<1> QED BY <1>1, <1>2, PTL DEF Spec, ImplementsStore, Ruby!Spec
=============================================================================
