-------------------------- MODULE ConstCacheProofs --------------------------
(***************************************************************************)
(* Theorems of ConstCache, for every instance of its constants.            *)
(*                                                                         *)
(* Assigning a constant makes every cache older than the version; defining *)
(* a class leaves the version alone, but only fills an entry that was      *)
(* empty, so that whatever was found before is found again from the top    *)
(* level.                                                                  *)
(***************************************************************************)
EXTENDS ConstCache, SequenceTheorems, TLAPS

(* The table entries an expression can reach are values or Absent. *)
LEMMA ContextType == ASSUME TypeOK, NEW i \in DOMAIN context PROVE context[i] \in Classes
<1>1. context \in Seq(Classes) BY DEF TypeOK
<1>2. i \in 1..Len(context) BY <1>1, LenProperties
<1> QED BY <1>1, <1>2, ElementOfSeq

LEMMA CurrentType == ASSUME TypeOK PROVE Current \in Classes
<1>1. context \in Seq(Classes) /\ Len(context) \in Nat /\ Object \in Classes
  BY LenProperties, ConstAssumption DEF TypeOK
<1>2. context # <<>> => Len(context) \in 1..Len(context)
  BY <1>1, EmptySeq
<1> QED BY <1>1, <1>2, ElementOfSeq DEF Current

(* What lookup finds is an entry of some class's table. *)
LEMMA LexicalBound == ASSUME TypeOK, NEW name \in Names
                      PROVE  \E c \in Classes : Lexical(name) = consts[c][name]
<1>1. CASE Innermost(name) = {}
  BY <1>1, ConstAssumption DEF Lexical
<1>2. CASE Innermost(name) # {}
  <2> DEFINE i == CHOOSE i \in Innermost(name) : TRUE
  <2>1. i \in DOMAIN context BY <1>2 DEF Innermost
  <2> QED BY <1>2, <2>1, ContextType DEF Lexical
<1> QED BY <1>1, <1>2

LEMMA FindBound ==
    ASSUME TypeOK, NEW s \in Sites
    PROVE  /\ Find(s) \in Values \cup {Absent}
           /\ Find(s) # Absent => \E c \in Classes : consts[c][Path[s].name] = Find(s)
<1>1. Path[s] \in Paths /\ Path[s].name \in Names BY ConstAssumption DEF Paths
<1>2. Object \in Classes BY ConstAssumption
<1>3. \A c \in Classes, n \in Names : consts[c][n] \in Values \cup {Absent}
  BY DEF TypeOK, Tables
<1>4. CASE Path[s].prefix = NoPrefix
  <2>1. \E c \in Classes : Find(s) = consts[c][Path[s].name]
    BY <1>1, <1>2, <1>4, LexicalBound DEF Find, First
  <2> QED BY <1>1, <1>3, <2>1
<1>5. CASE Path[s].prefix # NoPrefix
  <2>1. \/ Find(s) = Absent
        \/ \E c \in Classes : Find(s) = consts[c][Path[s].name]
    BY <1>5 DEF Find
  <2> QED BY <1>1, <1>3, <2>1
<1> QED BY <1>4, <1>5
-----------------------------------------------------------------------------
(* Type correctness and the stack of contexts.                              *)

LEMMA InitStack == Init => TypeOK /\ ContextCoversBodies
<1> SUFFICES ASSUME Init PROVE TypeOK /\ ContextCoversBodies
  OBVIOUS
<1>1. <<>> \in Seq(Classes) /\ Len(<<>>) = 0 OBVIOUS
<1>2. [version |-> -1, value |-> Absent] \in Caches BY ConstAssumption DEF Caches
<1>3. ContextCoversBodies
  BY <1>1, ConcatEmptySeq DEF Init, ContextCoversBodies
<1> QED BY <1>1, <1>2, <1>3, ConstAssumption DEF Init, TypeOK

LEMMA EnterBodyStack ==
    ASSUME TypeOK, ContextCoversBodies, NEW c \in Classes, EnterBody(c)
    PROVE  /\ context' \in Seq(Classes) /\ Len(context') <= MaxContext
           /\ bodies' \in Seq(Classes)
           /\ ContextCoversBodies'
<1>1. context \in Seq(Classes) /\ bodies \in Seq(Classes) /\ leaked \in Seq(Classes)
  BY DEF TypeOK
<1>2. context' = Append(context, c) /\ bodies' = Append(bodies, c) /\ leaked' = leaked
      /\ Len(context) < MaxContext
  BY DEF EnterBody
<1>3. context' \in Seq(Classes) /\ bodies' \in Seq(Classes)
      /\ Len(context') = Len(context) + 1
  BY <1>1, <1>2, AppendProperties
<1>4. context' = context \o <<c>> /\ bodies' = bodies \o <<c>> /\ <<c>> \in Seq(Classes)
  BY <1>1, <1>2, AppendIsConcat
<1>5. context' = leaked' \o bodies'
  BY <1>1, <1>2, <1>4, ConcatAssociative DEF ContextCoversBodies
<1>6. Len(context') <= MaxContext
  BY <1>1, <1>2, <1>3, LenProperties, ConstAssumption
<1> QED BY <1>3, <1>5, <1>6 DEF ContextCoversBodies

LEMMA UnwindStack ==
    ASSUME TypeOK, Unwind
    PROVE  /\ context' \in Seq(Classes) /\ Len(context') <= MaxContext
           /\ bodies' \in Seq(Classes) /\ leaked' \in Seq(Classes)
           /\ ContextCoversBodies'
<1>1. context \in Seq(Classes) /\ <<>> \in Seq(Classes) BY DEF TypeOK
<1>2. context = context \o <<>> BY <1>1, ConcatEmptySeq
<1> QED BY <1>1, <1>2 DEF TypeOK, Unwind, ContextCoversBodies

(* What is left of a sequence without its last element. *)
LEMMA DropLast ==
    ASSUME NEW S, NEW q \in Seq(S), q # <<>>, NEW r, r = SubSeq(q, 1, Len(q) - 1)
    PROVE  /\ r \in Seq(S) /\ Len(r) = Len(q) - 1
           /\ \A i \in 1..Len(q) - 1 : r[i] = q[i]
<1> DEFINE k == Len(q)
<1>1. k \in Nat /\ k >= 1 BY LenProperties, EmptySeq
<1>2. \A i \in 1..k - 1 : q[i] \in S BY <1>1, ElementOfSeq
<1>3. r = SubSeq(q, 1, k - 1) OBVIOUS
<1> HIDE DEF k
<1>4. 1 \in Int /\ k - 1 \in Int BY <1>1
<1>5. \A i \in 1..k - 1 : q[i] \in S BY <1>2
<1>6. SubSeq(q, 1, k - 1) \in Seq(S) BY <1>4, <1>5, SubSeqProperties
<1>7. Len(r) = k - 1
  <2>1. Len(r) = IF 1 <= k - 1 THEN (k - 1) - 1 + 1 ELSE 0
    BY <1>3, <1>4, <1>5, SubSeqProperties
  <2> QED BY <1>1, <2>1
<1>8. \A i \in 1..k - 1 : r[i] = q[i]
  <2>1. ASSUME NEW i \in 1..k - 1 PROVE r[i] = q[i]
    <3>1. i \in 1..(k - 1) - 1 + 1 BY <1>1
    <3>2. r[i] = q[1 + i - 1] BY <1>3, <1>4, <1>5, <3>1, SubSeqProperties
    <3>3. 1 + i - 1 = i OBVIOUS
    <3> QED BY <3>2, <3>3
  <2> QED BY <2>1
<1> QED BY <1>3, <1>6, <1>7, <1>8 DEF k

(* Dropping the last element of both sides of a concatenation. *)
LEMMA DropLastConcat ==
    ASSUME NEW S, NEW a \in Seq(S), NEW b \in Seq(S), b # <<>>, NEW ab, ab = a \o b,
           NEW r, r = SubSeq(ab, 1, Len(ab) - 1), NEW d, d = SubSeq(b, 1, Len(b) - 1)
    PROVE  /\ r \in Seq(S) /\ Len(r) = Len(ab) - 1
           /\ d \in Seq(S)
           /\ r = a \o d
<1>1. Len(a) \in Nat /\ Len(b) \in Nat /\ Len(b) >= 1 BY LenProperties, EmptySeq
<1>2. /\ ab \in Seq(S) /\ Len(ab) = Len(a) + Len(b)
      /\ \A i \in 1..Len(a) + Len(b) :
            ab[i] = IF i <= Len(a) THEN a[i] ELSE b[i - Len(a)]
  BY ConcatProperties
<1>3. ab # <<>> BY <1>1, <1>2, EmptySeq
<1>4. r \in Seq(S) /\ Len(r) = Len(ab) - 1 /\ \A i \in 1..Len(ab) - 1 : r[i] = ab[i]
  BY <1>2, <1>3, DropLast
<1>5. d \in Seq(S) /\ Len(d) = Len(b) - 1 /\ \A i \in 1..Len(b) - 1 : d[i] = b[i]
  BY DropLast
<1>6. /\ a \o d \in Seq(S) /\ Len(a \o d) = Len(a) + Len(d)
      /\ \A i \in 1..Len(a) + Len(d) :
            (a \o d)[i] = IF i <= Len(a) THEN a[i] ELSE d[i - Len(a)]
  BY <1>5, ConcatProperties
<1>7. Len(r) = Len(a \o d) /\ Len(r) = Len(a) + Len(b) - 1
  BY <1>1, <1>2, <1>4, <1>5, <1>6
<1>8. ASSUME NEW i \in 1..Len(r) PROVE r[i] = (a \o d)[i]
  <2>1. i \in Nat /\ i \in 1..Len(ab) - 1 /\ i \in 1..Len(a) + Len(b)
        /\ i \in 1..Len(a) + Len(d)
    BY <1>1, <1>2, <1>5, <1>7
  <2>2. r[i] = ab[i] BY <1>4, <2>1
  <2>3. CASE i <= Len(a) BY <1>2, <1>6, <2>1, <2>2, <2>3
  <2>4. CASE ~(i <= Len(a))
    <3>1. i - Len(a) \in 1..Len(b) - 1 BY <1>1, <1>7, <2>1, <2>4
    <3>2. d[i - Len(a)] = b[i - Len(a)] BY <1>5, <3>1
    <3> QED BY <1>2, <1>6, <2>1, <2>2, <2>4, <3>2
  <2> QED BY <2>3, <2>4
<1>9. r = a \o d BY <1>4, <1>6, <1>7, <1>8, SeqEqual
<1> QED BY <1>4, <1>5, <1>9

LEMMA LeaveBodyStack ==
    ASSUME TypeOK, ContextCoversBodies, LeaveBody
    PROVE  /\ context' \in Seq(Classes) /\ Len(context') <= MaxContext
           /\ bodies' \in Seq(Classes)
           /\ ContextCoversBodies'
<1>1. context \in Seq(Classes) /\ bodies \in Seq(Classes) /\ leaked \in Seq(Classes)
      /\ bodies # <<>> /\ context = leaked \o bodies
  BY DEF TypeOK, LeaveBody, ContextCoversBodies
<1>2. /\ bodies' = SubSeq(bodies, 1, Len(bodies) - 1)
      /\ context' = SubSeq(context, 1, Len(context) - 1)
      /\ leaked' = leaked
  BY DEF LeaveBody
<1>3. /\ context' \in Seq(Classes) /\ Len(context') = Len(context) - 1
      /\ bodies' \in Seq(Classes) /\ context' = leaked \o bodies'
  <2>1. /\ bodies # <<>> /\ context = leaked \o bodies
        /\ context' = SubSeq(context, 1, Len(context) - 1)
        /\ bodies' = SubSeq(bodies, 1, Len(bodies) - 1)
    BY <1>1, <1>2
  <2>2. \A r, d : r = SubSeq(context, 1, Len(context) - 1)
                    /\ d = SubSeq(bodies, 1, Len(bodies) - 1)
          => /\ r \in Seq(Classes) /\ Len(r) = Len(context) - 1
             /\ d \in Seq(Classes) /\ r = leaked \o d
    <3>1. ASSUME NEW a \in Seq(Classes), NEW b \in Seq(Classes), b # <<>>,
                 NEW ab, ab = a \o b, NEW r, NEW d,
                 r = SubSeq(ab, 1, Len(ab) - 1), d = SubSeq(b, 1, Len(b) - 1)
          PROVE  /\ r \in Seq(Classes) /\ Len(r) = Len(ab) - 1
                 /\ d \in Seq(Classes) /\ r = a \o d
      BY <3>1, DropLastConcat
    <3>2. leaked \in Seq(Classes) /\ bodies \in Seq(Classes) /\ bodies # <<>>
          /\ context = leaked \o bodies
      BY <1>1
    <3> QED BY <3>1, <3>2
  <2> QED BY <2>1, <2>2, Zenon
<1>4. Len(context) \in Nat /\ Len(context) <= MaxContext
  BY <1>1, LenProperties DEF TypeOK
<1>5. Len(context') <= MaxContext BY <1>3, <1>4, ConstAssumption
<1> QED BY <1>2, <1>3, <1>5 DEF ContextCoversBodies
-----------------------------------------------------------------------------
(* What a cache promises, as a relation between a table of constants, the   *)
(* version, and the version and value in the cache.                         *)

TopFind(table, s) ==
    LET p == Path[s]
        parent == table[Object][p.prefix]
    IN  IF p.prefix = NoPrefix THEN table[Object][p.name]
        ELSE IF parent \in Classes THEN table[parent][p.name] ELSE Absent

GoodIn(table, v, s, ver, val) ==
    /\ ver <= v
    /\ ver = v =>
          /\ val \in Values
          /\ \E k \in Classes : table[k][Path[s].name] = val
          /\ Path[s].toplevel => val = TopFind(table, s)

GoodCode(table, v, s, c) ==
    /\ GoodIn(table, v, s, c.version, c.value)
    /\ c.version = v /\ c.float => c.num = c.value

CachesGood ==
    \A s \in Sites :
        /\ GoodIn(consts, version, s, cache[s].version, cache[s].value)
        /\ code[s] # NoCode => GoodCode(consts, version, s, code[s])

ConstInv == TypeOK /\ ContextCoversBodies /\ CachesGood

Grows(t1, t2) ==
    \A k \in Classes, n \in Names : t1[k][n] # Absent => t2[k][n] = t1[k][n]

(* From the top level, lookup does not depend on the context. *)
LEMMA FindFromTop == ASSUME NEW s \in Sites, Path[s].toplevel
                     PROVE  Find(s) = TopFind(consts, s)
BY DEF Find, First, TopFind

(* A table that only gains entries keeps every cache good. *)
LEMMA GrowsGood ==
    ASSUME NEW t1 \in Tables, NEW t2 \in Tables, Grows(t1, t2), NEW s \in Sites,
           NEW v, NEW ver, NEW val, GoodIn(t1, v, s, ver, val)
    PROVE  GoodIn(t2, v, s, ver, val)
<1>1. /\ Path[s] \in Paths /\ Path[s].name \in Names
      /\ Path[s].prefix # NoPrefix => Path[s].prefix \in Names
      /\ Object \in Classes
      /\ Absent \notin Values
  BY ConstAssumption DEF Paths
<1>2. ver <= v BY DEF GoodIn
<1>3. ASSUME ver = v
      PROVE  /\ val \in Values
             /\ \E k \in Classes : t2[k][Path[s].name] = val
             /\ Path[s].toplevel => val = TopFind(t2, s)
  <2>1. val \in Values /\ val # Absent BY <1>1, <1>3 DEF GoodIn
  <2>2. \E k \in Classes : t2[k][Path[s].name] = val
    BY <1>1, <1>3, <2>1 DEF GoodIn, Grows
  <2>3. ASSUME Path[s].toplevel PROVE val = TopFind(t2, s)
    <3>1. val = TopFind(t1, s) BY <1>3, <2>3 DEF GoodIn
    <3>2. CASE Path[s].prefix = NoPrefix
      BY <1>1, <2>1, <3>1, <3>2 DEF Grows, TopFind
    <3>3. CASE Path[s].prefix # NoPrefix
      <4> DEFINE parent == t1[Object][Path[s].prefix]
      <4>1. parent \in Classes /\ val = t1[parent][Path[s].name]
        BY <2>1, <3>1, <3>3 DEF TopFind
      <4>2. parent # Absent BY <1>1, <4>1 DEF Values
      <4>3. t2[Object][Path[s].prefix] = parent BY <1>1, <3>3, <4>2 DEF Grows
      <4>4. t2[parent][Path[s].name] = val BY <1>1, <2>1, <4>1 DEF Grows
      <4> HIDE DEF parent
      <4> QED BY <3>3, <4>1, <4>3, <4>4 DEF TopFind
    <3> QED BY <3>2, <3>3
  <2> QED BY <2>1, <2>2, <2>3
<1> QED BY <1>2, <1>3 DEF GoodIn

(* A new version makes every cache outdated. *)
LEMMA NewVersionGood ==
    ASSUME NEW t1, NEW t2, NEW s \in Sites, NEW v \in Int, NEW ver \in Int, NEW val,
           GoodIn(t1, v, s, ver, val)
    PROVE  GoodIn(t2, v + 1, s, ver, val) /\ ver # v + 1
<1>1. ver <= v BY DEF GoodIn
<1>2. ver <= v + 1 /\ ver # v + 1 BY <1>1
<1> QED BY <1>2 DEF GoodIn

(* What lookup just found is good. *)
LEMMA FillGood ==
    ASSUME TypeOK, NEW s \in Sites, Find(s) # Absent
    PROVE  Find(s) \in Values /\ GoodIn(consts, version, s, version, Find(s))
<1>1. Find(s) \in Values /\ \E k \in Classes : consts[k][Path[s].name] = Find(s)
  BY FindBound
<1>2. version <= version BY DEF TypeOK
<1> QED BY <1>1, <1>2, FindFromTop DEF GoodIn
-----------------------------------------------------------------------------
(* The caches through every kind of step.                                   *)

LEMMA InitCaches == Init => CachesGood
<1> SUFFICES ASSUME Init, NEW s \in Sites
             PROVE  /\ GoodIn(consts, version, s, cache[s].version, cache[s].value)
                    /\ code[s] = NoCode
  BY DEF CachesGood
<1>1. version = 0 /\ cache[s].version = -1 /\ code[s] = NoCode BY DEF Init
<1>2. -1 <= 0 /\ -1 # 0 OBVIOUS
<1> QED BY <1>1, <1>2 DEF GoodIn

LEMMA SetConstantType ==
    ASSUME TypeOK, NEW n \in Names, NEW v \in Values, SetConstant(n, v)
    PROVE  consts' \in Tables
<1>1. Current \in Classes BY CurrentType
<1> QED BY <1>1 DEF TypeOK, Tables, SetConstant

LEMMA SetAbsentGrows ==
    ASSUME TypeOK, NEW n \in Names, NEW v \in Values, SetConstant(n, v),
           consts[Current][n] = Absent
    PROVE  Grows(consts, consts')
<1>1. Current \in Classes BY CurrentType
<1>2. ASSUME NEW k \in Classes, NEW m \in Names, consts[k][m] # Absent
      PROVE  consts'[k][m] = consts[k][m]
  BY <1>1, <1>2 DEF TypeOK, Tables, SetConstant
<1> QED BY <1>2 DEF Grows

LEMMA GrowsCaches ==
    ASSUME ConstInv, consts' \in Tables, Grows(consts, consts'),
           version' = version, UNCHANGED cacheVars
    PROVE  CachesGood'
<1>1. consts \in Tables BY DEF ConstInv, TypeOK
<1>2. cache' = cache /\ code' = code BY DEF cacheVars
<1> SUFFICES ASSUME NEW s \in Sites
             PROVE  /\ GoodIn(consts', version, s, cache[s].version, cache[s].value)
                    /\ code[s] # NoCode => GoodCode(consts', version, s, code[s])
  BY <1>2 DEF CachesGood
<1>3. GoodIn(consts, version, s, cache[s].version, cache[s].value) BY DEF ConstInv, CachesGood
<1>4. GoodIn(consts', version, s, cache[s].version, cache[s].value)
  BY <1>1, <1>3, GrowsGood
<1>5. ASSUME code[s] # NoCode PROVE GoodCode(consts', version, s, code[s])
  <2>1. GoodCode(consts, version, s, code[s]) BY <1>5 DEF ConstInv, CachesGood
  <2>2. GoodIn(consts', version, s, code[s].version, code[s].value)
    BY <1>1, <2>1, GrowsGood DEF GoodCode
  <2> QED BY <2>1, <2>2 DEF GoodCode
<1> QED BY <1>4, <1>5

LEMMA StoreCaches ==
    ASSUME ConstInv, version' = version + 1, UNCHANGED cacheVars
    PROVE  CachesGood'
<1>1. version \in Int BY DEF ConstInv, TypeOK
<1>2. cache' = cache /\ code' = code BY DEF cacheVars
<1> SUFFICES ASSUME NEW s \in Sites
             PROVE  /\ GoodIn(consts', version + 1, s, cache[s].version, cache[s].value)
                    /\ code[s] # NoCode => GoodCode(consts', version + 1, s, code[s])
  BY <1>2 DEF CachesGood
<1>3. GoodIn(consts, version, s, cache[s].version, cache[s].value) BY DEF ConstInv, CachesGood
<1>4. cache[s].version \in Int BY DEF ConstInv, TypeOK, Caches
<1>5. GoodIn(consts', version + 1, s, cache[s].version, cache[s].value)
  BY <1>1, <1>3, <1>4, NewVersionGood
<1>6. ASSUME code[s] # NoCode PROVE GoodCode(consts', version + 1, s, code[s])
  <2>1. GoodIn(consts, version, s, code[s].version, code[s].value)
    BY <1>6 DEF ConstInv, CachesGood, GoodCode
  <2>2. code[s].version \in Int BY <1>6 DEF ConstInv, TypeOK, Codes
  <2>3. /\ GoodIn(consts', version + 1, s, code[s].version, code[s].value)
        /\ code[s].version # version + 1
    BY <1>1, <2>1, <2>2, NewVersionGood
  <2> QED BY <2>3 DEF GoodCode
<1> QED BY <1>5, <1>6

(* A step that leaves the table and the version alone and fills at most one *)
(* of the two caches of a site, with a value that is good.                  *)
LEMMA FillCaches ==
    ASSUME ConstInv, UNCHANGED tableVars, NEW s \in Sites,
           \A t \in Sites : t # s => cache'[t] = cache[t] /\ code'[t] = code[t],
           cache'[s] = cache[s]
             \/ GoodIn(consts, version, s, cache'[s].version, cache'[s].value),
           code'[s] = code[s] \/ GoodCode(consts, version, s, code'[s])
    PROVE  CachesGood'
<1>1. consts' = consts /\ version' = version BY DEF tableVars
<1> SUFFICES ASSUME NEW t \in Sites
             PROVE  /\ GoodIn(consts, version, t, cache'[t].version, cache'[t].value)
                    /\ code'[t] # NoCode => GoodCode(consts, version, t, code'[t])
  BY <1>1 DEF CachesGood
<1>2. /\ GoodIn(consts, version, t, cache[t].version, cache[t].value)
      /\ code[t] # NoCode => GoodCode(consts, version, t, code[t])
  BY DEF ConstInv, CachesGood
<1> QED BY <1>2
-----------------------------------------------------------------------------
(* The invariant through every action.                                      *)

LEMMA SameStack ==
    ASSUME TypeOK, ContextCoversBodies, UNCHANGED stackVars
    PROVE  /\ context' \in Seq(Classes) /\ Len(context') <= MaxContext
           /\ bodies' \in Seq(Classes) /\ leaked' \in Seq(Classes)
           /\ ContextCoversBodies'
BY DEF TypeOK, stackVars, ContextCoversBodies

LEMMA LoadedType ==
    ASSUME NEW s \in Sites, NEW v \in Values \cup {Absent}, Loaded(s, v)
    PROVE  loaded' \in Loads /\ loaded'.site = s /\ loaded'.value = v
BY DEF Loaded, Loads

(* A step that leaves tables and caches alone and keeps the stack in order. *)
LEMMA QuietStep ==
    ASSUME ConstInv, UNCHANGED tableVars, UNCHANGED cacheVars,
           context' \in Seq(Classes) /\ Len(context') <= MaxContext,
           bodies' \in Seq(Classes) /\ leaked' \in Seq(Classes),
           ContextCoversBodies', loaded' \in Loads \cup {NoLoad}
    PROVE  ConstInv'
<1>1. TypeOK' BY DEF ConstInv, TypeOK, tableVars, cacheVars
<1>2. CachesGood' BY DEF ConstInv, CachesGood, tableVars, cacheVars
<1> QED BY <1>1, <1>2 DEF ConstInv

LEMMA StoreStep ==
    ASSUME ConstInv, NEW n \in Names, NEW v \in Values, StoreConst(n, v)
    PROVE  ConstInv'
<1>1. TypeOK /\ ContextCoversBodies BY DEF ConstInv
<1>2. consts' \in Tables BY <1>1, SetConstantType DEF StoreConst
<1>3. version' \in 0..MaxStores BY <1>1, ConstAssumption DEF StoreConst, TypeOK
<1>4. /\ context' \in Seq(Classes) /\ Len(context') <= MaxContext
      /\ bodies' \in Seq(Classes) /\ leaked' \in Seq(Classes)
      /\ ContextCoversBodies'
  BY <1>1, SameStack DEF StoreConst
<1>5. CachesGood' BY StoreCaches DEF StoreConst
<1>6. TypeOK' BY <1>1, <1>2, <1>3, <1>4 DEF StoreConst, TypeOK, cacheVars
<1> QED BY <1>4, <1>5, <1>6 DEF ConstInv

LEMMA ReopenStep ==
    ASSUME ConstInv, NEW n \in Names, ReopenClass(n)
    PROVE  ConstInv'
<1>1. TypeOK /\ ContextCoversBodies BY DEF ConstInv
<1>2. consts[Current][n] \in Classes BY DEF ReopenClass
<1>3. EnterBody(consts[Current][n]) BY DEF ReopenClass
<1>4. /\ context' \in Seq(Classes) /\ Len(context') <= MaxContext
      /\ bodies' \in Seq(Classes) /\ ContextCoversBodies'
  BY <1>1, <1>2, <1>3, EnterBodyStack
<1>5. leaked' \in Seq(Classes) BY <1>1, <1>3 DEF EnterBody, TypeOK
<1>6. UNCHANGED tableVars /\ UNCHANGED cacheVars /\ loaded' = NoLoad
  BY <1>3 DEF ReopenClass, EnterBody, tableVars
<1> QED BY <1>4, <1>5, <1>6, QuietStep

LEMMA CreateStep ==
    ASSUME ConstInv, NEW n \in Names, NEW c \in Classes, CreateClass(n, c)
    PROVE  ConstInv'
<1>1. TypeOK /\ ContextCoversBodies /\ c \in Values BY DEF ConstInv, Values
<1>2. EnterBody(c) /\ SetConstant(n, c) /\ consts[Current][n] = Absent
      /\ classes' = classes \cup {c}
  BY DEF CreateClass
<1>3. consts' \in Tables BY <1>1, <1>2, SetConstantType
<1>4. Grows(consts, consts') BY <1>1, <1>2, SetAbsentGrows
<1>5. /\ context' \in Seq(Classes) /\ Len(context') <= MaxContext
      /\ bodies' \in Seq(Classes) /\ ContextCoversBodies'
  BY <1>1, <1>2, EnterBodyStack
<1>6. version' = version /\ leaked' = leaked /\ UNCHANGED cacheVars /\ loaded' = NoLoad
  BY <1>2 DEF EnterBody
<1>7. CachesGood' BY <1>3, <1>4, <1>6, GrowsCaches
<1>8. TypeOK' BY <1>1, <1>2, <1>3, <1>5, <1>6 DEF TypeOK, cacheVars
<1> QED BY <1>5, <1>7, <1>8 DEF ConstInv

LEMMA ClassFailsStep ==
    ASSUME ConstInv, NEW n \in Names, ClassFails(n) PROVE ConstInv'
<1>1. TypeOK /\ Unwind BY DEF ConstInv, ClassFails
<1>2. /\ context' \in Seq(Classes) /\ Len(context') <= MaxContext
      /\ bodies' \in Seq(Classes) /\ leaked' \in Seq(Classes)
      /\ ContextCoversBodies'
  BY <1>1, UnwindStack
<1>3. UNCHANGED tableVars /\ UNCHANGED cacheVars /\ loaded' = NoLoad BY DEF ClassFails
<1> QED BY <1>2, <1>3, QuietStep

LEMMA LeaveBodyStep == ASSUME ConstInv, LeaveBody PROVE ConstInv'
<1>1. TypeOK /\ ContextCoversBodies BY DEF ConstInv
<1>2. /\ context' \in Seq(Classes) /\ Len(context') <= MaxContext
      /\ bodies' \in Seq(Classes) /\ ContextCoversBodies'
  BY <1>1, LeaveBodyStack
<1>3. leaked' \in Seq(Classes) BY <1>1 DEF LeaveBody, TypeOK
<1>4. UNCHANGED tableVars /\ UNCHANGED cacheVars /\ loaded' = NoLoad BY DEF LeaveBody
<1> QED BY <1>2, <1>3, <1>4, QuietStep

(* A load that fails, in either tier. *)
LEMMA ErrorStep ==
    ASSUME ConstInv, NEW s \in Sites, Loaded(s, Absent), Unwind,
           UNCHANGED tableVars, UNCHANGED cacheVars
    PROVE  ConstInv'
<1>1. TypeOK BY DEF ConstInv
<1>2. /\ context' \in Seq(Classes) /\ Len(context') <= MaxContext
      /\ bodies' \in Seq(Classes) /\ leaked' \in Seq(Classes)
      /\ ContextCoversBodies'
  BY <1>1, UnwindStack
<1>3. loaded' \in Loads BY LoadedType
<1> QED BY <1>2, <1>3, QuietStep

(* A step that only fills the caches of one site, with what they may hold.  *)
LEMMA FillStep ==
    ASSUME ConstInv, UNCHANGED tableVars, UNCHANGED stackVars, NEW s \in Sites,
           cache' = cache
             \/ \E c \in Caches : /\ cache' = [cache EXCEPT ![s] = c]
                                  /\ GoodIn(consts, version, s, c.version, c.value),
           last' = last \/ \E v \in Values \cup {Absent} : last' = [last EXCEPT ![s] = v],
           code' = code
             \/ \E c \in Codes : /\ code' = [code EXCEPT ![s] = c]
                                 /\ GoodCode(consts, version, s, c),
           loaded' \in Loads \cup {NoLoad}
    PROVE  ConstInv'
<1>1. TypeOK /\ ContextCoversBodies BY DEF ConstInv
<1>2. /\ cache' \in [Sites -> Caches]
      /\ \A t \in Sites : t # s => cache'[t] = cache[t]
      /\ \/ cache'[s] = cache[s]
         \/ GoodIn(consts, version, s, cache'[s].version, cache'[s].value)
  BY <1>1 DEF TypeOK
<1>3. last' \in [Sites -> Values \cup {Absent}] BY <1>1 DEF TypeOK
<1>4. /\ code' \in [Sites -> Codes \cup {NoCode}]
      /\ \A t \in Sites : t # s => code'[t] = code[t]
      /\ code'[s] = code[s] \/ GoodCode(consts, version, s, code'[s])
  BY <1>1 DEF TypeOK
<1>5. /\ context' \in Seq(Classes) /\ Len(context') <= MaxContext
      /\ bodies' \in Seq(Classes) /\ leaked' \in Seq(Classes)
      /\ ContextCoversBodies'
  BY <1>1, SameStack
<1>6. CachesGood' BY <1>2, <1>4, FillCaches
<1>7. TypeOK' BY <1>1, <1>2, <1>3, <1>4, <1>5 DEF TypeOK, tableVars
<1> QED BY <1>5, <1>6, <1>7 DEF ConstInv

(* The value of a cache that is current. *)
LEMMA CurrentCache ==
    ASSUME ConstInv, NEW s \in Sites
    PROVE  /\ cache[s].version = version =>
                 /\ GoodIn(consts, version, s, version, cache[s].value)
                 /\ cache[s].value \in Values
           /\ code[s] # NoCode /\ code[s].version = version =>
                 /\ GoodIn(consts, version, s, version, code[s].value)
                 /\ code[s].value \in Values
                 /\ code[s].float => code[s].num = code[s].value
BY DEF ConstInv, CachesGood, GoodCode, GoodIn

LEMMA VmHitStep == ASSUME ConstInv, NEW s \in Sites, VmHit(s) PROVE ConstInv'
<1>1. cache[s].value \in Values BY CurrentCache DEF VmHit
<1>2. loaded' \in Loads BY <1>1, LoadedType DEF VmHit
<1> QED BY <1>1, <1>2, FillStep DEF VmHit

LEMMA VmMissStep == ASSUME ConstInv, NEW s \in Sites, VmMiss(s) PROVE ConstInv'
<1>1. TypeOK BY DEF ConstInv
<1>2. Find(s) \in Values /\ GoodIn(consts, version, s, version, Find(s))
  BY <1>1, FillGood DEF VmMiss
<1>3. loaded' \in Loads BY <1>2, LoadedType DEF VmMiss
<1>4. [version |-> version, value |-> Find(s)] \in Caches
  BY <1>1, <1>2, ConstAssumption DEF Caches, TypeOK
<1>5. \E c \in Caches : /\ cache' = [cache EXCEPT ![s] = c]
                        /\ GoodIn(consts, version, s, c.version, c.value)
  BY <1>2, <1>4 DEF VmMiss
<1> QED BY <1>2, <1>3, <1>5, FillStep DEF VmMiss

LEMMA CompileStep == ASSUME ConstInv, NEW s \in Sites, Compile(s) PROVE ConstInv'
<1> DEFINE c == [float |-> last[s] \in Floats, version |-> -1,
                 value |-> Absent, num |-> Absent]
<1>1. c \in Codes BY ConstAssumption DEF Codes
<1>2. version \in Nat BY DEF ConstInv, TypeOK
<1>3. GoodCode(consts, version, s, c) BY <1>2 DEF GoodCode, GoodIn
<1> QED BY <1>1, <1>3, FillStep DEF Compile

LEMMA JitHitStep == ASSUME ConstInv, NEW s \in Sites, JitHit(s) PROVE ConstInv'
<1>1. code[s].value \in Values BY CurrentCache DEF JitHit
<1>2. loaded' \in Loads BY <1>1, LoadedType DEF JitHit
<1> QED BY <1>2, FillStep DEF JitHit, cacheVars

LEMMA JitMissStep == ASSUME ConstInv, NEW s \in Sites, JitMiss(s) PROVE ConstInv'
<1>1. TypeOK BY DEF ConstInv
<1>2. Find(s) \in Values /\ GoodIn(consts, version, s, version, Find(s))
  BY <1>1, FillGood DEF JitMiss
<1>3. loaded' \in Loads BY <1>2, LoadedType DEF JitMiss
<1> DEFINE c == [code[s] EXCEPT !.version = version, !.value = Find(s)]
<1>4. code[s] \in Codes /\ ~code[s].float /\ version \in -1..MaxStores
  BY <1>1, ConstAssumption DEF JitMiss, JitStale, TypeOK
<1>5. /\ c \in Codes /\ c.version = version /\ c.value = Find(s)
      /\ ~c.float
  BY <1>2, <1>4 DEF Codes
<1>6. code' = [code EXCEPT ![s] = c] BY DEF JitMiss
<1>7. GoodCode(consts, version, s, c) BY <1>2, <1>5 DEF GoodCode
<1> HIDE DEF c
<1> QED BY <1>3, <1>5, <1>6, <1>7, FillStep DEF JitMiss

LEMMA JitMissFloatStep == ASSUME ConstInv, NEW s \in Sites, JitMissFloat(s) PROVE ConstInv'
<1>1. TypeOK BY DEF ConstInv
<1>2. Find(s) \in Floats /\ Find(s) # Absent
  BY ConstAssumption DEF JitMissFloat, Values
<1>3. Find(s) \in Values /\ GoodIn(consts, version, s, version, Find(s))
  BY <1>1, <1>2, FillGood
<1>4. loaded' \in Loads BY <1>3, LoadedType DEF JitMissFloat
<1> DEFINE c == [code[s] EXCEPT !.version = version, !.value = Find(s), !.num = Find(s)]
<1>5. code[s] \in Codes /\ version \in -1..MaxStores
  BY <1>1, ConstAssumption DEF JitMissFloat, JitStale, TypeOK
<1>6. /\ c \in Codes /\ c.version = version /\ c.value = Find(s) /\ c.num = Find(s)
  BY <1>2, <1>3, <1>5 DEF Codes
<1>7. code' = [code EXCEPT ![s] = c] BY DEF JitMissFloat
<1>8. GoodCode(consts, version, s, c) BY <1>3, <1>6 DEF GoodCode
<1> HIDE DEF c
<1> QED BY <1>4, <1>6, <1>7, <1>8, FillStep DEF JitMissFloat

(* The side exit comes between the value and the version: the cache stays outdated. *)
LEMMA JitFloatDeoptStep ==
    ASSUME ConstInv, NEW s \in Sites, JitFloatDeopt(s) PROVE ConstInv'
<1>1. TypeOK BY DEF ConstInv
<1>2. Find(s) \in Values BY DEF JitFloatDeopt
<1> DEFINE c == [code[s] EXCEPT !.value = Find(s)]
<1>3. code[s] \in Codes /\ code[s] # NoCode /\ code[s].version # version
  BY <1>1, ConstAssumption DEF JitFloatDeopt, JitStale, TypeOK
<1>4. c \in Codes /\ c.version = code[s].version /\ c.value = Find(s)
  BY <1>2, <1>3 DEF Codes
<1>5. code' = [code EXCEPT ![s] = c] BY DEF JitFloatDeopt
<1>6. GoodCode(consts, version, s, code[s]) BY <1>3 DEF ConstInv, CachesGood
<1>7. code[s].version <= version BY <1>6 DEF GoodCode, GoodIn
<1>8. GoodCode(consts, version, s, c) BY <1>3, <1>4, <1>7 DEF GoodCode, GoodIn
<1> HIDE DEF c
<1> QED BY <1>4, <1>5, <1>8, FillStep DEF JitFloatDeopt

LEMMA ConstStep == ConstInv /\ [Next]_vars => ConstInv'
<1> SUFFICES ASSUME ConstInv, [Next]_vars PROVE ConstInv'
  OBVIOUS
<1>1. CASE UNCHANGED vars
  BY <1>1 DEF vars, ConstInv, TypeOK, ContextCoversBodies, CachesGood
<1>2. ASSUME NEW n \in Names, NEW v \in classes \cup Plain, StoreConst(n, v)
      PROVE  ConstInv'
  <2>1. v \in Values BY DEF ConstInv, TypeOK, Values
  <2> QED BY <1>2, <2>1, StoreStep
<1>3. ASSUME NEW n \in Names, ReopenClass(n) PROVE ConstInv'
  BY <1>3, ReopenStep
<1>4. ASSUME NEW n \in Names, ClassFails(n) PROVE ConstInv'
  BY <1>4, ClassFailsStep
<1>5. ASSUME NEW n \in Names, NEW c \in Classes, CreateClass(n, c) PROVE ConstInv'
  BY <1>5, CreateStep
<1>6. CASE LeaveBody
  BY <1>6, LeaveBodyStep
<1>7. ASSUME NEW s \in Sites, VmError(s) PROVE ConstInv'
  BY <1>7, ErrorStep DEF VmError
<1>8. ASSUME NEW s \in Sites, JitError(s) PROVE ConstInv'
  BY <1>8, ErrorStep DEF JitError
<1>9. ASSUME NEW s \in Sites, VmHit(s) \/ VmMiss(s) \/ Compile(s) PROVE ConstInv'
  BY <1>9, VmHitStep, VmMissStep, CompileStep
<1>10. ASSUME NEW s \in Sites, JitHit(s) \/ JitMiss(s) \/ JitMissFloat(s) \/ JitFloatDeopt(s)
       PROVE  ConstInv'
  BY <1>10, JitHitStep, JitMissStep, JitMissFloatStep, JitFloatDeoptStep
<1> QED
  BY <1>1, <1>2, <1>3, <1>4, <1>5, <1>6, <1>7, <1>8, <1>9, <1>10 DEF Next

LEMMA ConstInvariant == Spec => []ConstInv
<1>1. Init => ConstInv BY InitStack, InitCaches DEF ConstInv
<1>2. ConstInv /\ [Next]_vars => ConstInv' BY ConstStep
<1> QED BY <1>1, <1>2, PTL DEF Spec
-----------------------------------------------------------------------------
(* The theorems.                                                            *)

(* The state is well typed: no cache ever holds a number that is not a      *)
(* Float, and the stack of class contexts holds classes only.               *)
THEOREM ConstTypeCorrect == Spec => []TypeOK
<1>1. ConstInv => TypeOK BY DEF ConstInv
<1> QED BY <1>1, ConstInvariant, PTL

(* The class contexts are always those of earlier errors and then the class *)
(* bodies being executed (vmgen's class_def pops them in step).             *)
THEOREM ContextsStayCovered == Spec => []ContextCoversBodies
<1>1. ConstInv => ContextCoversBodies BY DEF ConstInv
<1> QED BY <1>1, ConstInvariant, PTL

(* A current cache, of bytecode or of machine code, holds a binding of its  *)
(* constant's name, although class definitions do not bump const_version.   *)
THEOREM CachesStayBound == Spec => []CachesBound
<1>1. ConstInv => CachesBound
  <2> SUFFICES ASSUME ConstInv, NEW s \in Sites
               PROVE  /\ cache[s].version = version => Bound(Path[s].name, cache[s].value)
                      /\ code[s] # NoCode /\ code[s].version = version =>
                            /\ Bound(Path[s].name, code[s].value)
                            /\ code[s].float => code[s].num = code[s].value
    BY DEF CachesBound
  <2>1. ASSUME NEW v, GoodIn(consts, version, s, version, v)
        PROVE  Bound(Path[s].name, v)
    BY <2>1 DEF GoodIn, Bound
  <2> QED BY <2>1, CurrentCache
<1> QED BY <1>1, ConstInvariant, PTL

(* What a step loads was just found by lookup, or comes from a good cache.  *)
LEMMA LoadedValue ==
    ASSUME ConstInv, Next, loaded' # NoLoad
    PROVE  \E s \in Sites :
              /\ loaded'.site = s
              /\ \/ loaded'.value = Find(s)
                 \/ GoodIn(consts, version, s, version, loaded'.value)
<1>1. TypeOK BY DEF ConstInv
<1>2. ASSUME NEW s \in Sites, VmMiss(s) \/ JitMiss(s) \/ JitMissFloat(s)
      PROVE  loaded'.site = s /\ loaded'.value = Find(s)
  <2>1. Find(s) \in Values \cup {Absent} BY <1>1, FindBound
  <2> QED BY <1>2, <2>1, LoadedType DEF VmMiss, JitMiss, JitMissFloat
<1>3. ASSUME NEW s \in Sites, VmError(s) \/ JitError(s)
      PROVE  loaded'.site = s /\ loaded'.value = Find(s)
  BY <1>3, LoadedType DEF VmError, JitError
<1>4. ASSUME NEW s \in Sites, VmHit(s)
      PROVE  loaded'.site = s /\ GoodIn(consts, version, s, version, loaded'.value)
  <2>1. cache[s].value \in Values /\ GoodIn(consts, version, s, version, cache[s].value)
    BY <1>4, CurrentCache DEF VmHit
  <2> QED BY <1>4, <2>1, LoadedType DEF VmHit
<1>5. ASSUME NEW s \in Sites, JitHit(s)
      PROVE  loaded'.site = s /\ GoodIn(consts, version, s, version, loaded'.value)
  <2>1. code[s].value \in Values /\ GoodIn(consts, version, s, version, code[s].value)
    BY <1>5, CurrentCache DEF JitHit
  <2> QED BY <1>5, <2>1, LoadedType DEF JitHit
<1>6. \E s \in Sites : \/ VmMiss(s) \/ JitMiss(s) \/ JitMissFloat(s)
                      \/ VmError(s) \/ JitError(s) \/ VmHit(s) \/ JitHit(s)
  BY DEF Next, StoreConst, ReopenClass, ClassFails, CreateClass, EnterBody, LeaveBody,
         Compile, JitFloatDeopt
<1> QED BY <1>2, <1>3, <1>4, <1>5, <1>6

(* The value of a constant expression that starts at the top level is the   *)
(* one lookup finds, in both tiers and whatever was cached before.          *)
THEOREM QualifiedLoadsAreFresh == Spec => QualifiedFresh
<1>1. ConstInv /\ [Next]_vars =>
        [loaded' # NoLoad /\ Path[loaded'.site].toplevel
           => loaded'.value = Find(loaded'.site)]_vars
  <2> SUFFICES ASSUME ConstInv, Next, loaded' # NoLoad, Path[loaded'.site].toplevel
               PROVE  loaded'.value = Find(loaded'.site)
    OBVIOUS
  <2>1. PICK s \in Sites : /\ loaded'.site = s
                           /\ \/ loaded'.value = Find(s)
                              \/ GoodIn(consts, version, s, version, loaded'.value)
    BY LoadedValue
  <2> QED BY <2>1, FindFromTop DEF GoodIn
<1> QED BY <1>1, ConstInvariant, PTL DEF Spec, QualifiedFresh

(* A constant whose name is bound in one class only is read as that binding *)
(* wherever lookup finds it, in both tiers.                                 *)
THEOREM UnshadowedLoadsAreFresh == Spec => UnshadowedFresh
<1>1. ConstInv /\ [Next]_vars =>
        [loaded' # NoLoad =>
           LET s == loaded'.site
           IN  loaded'.value = Find(s) \/ Find(s) = Absent \/ Shadowed(Path[s].name)]_vars
  <2> SUFFICES ASSUME ConstInv, Next, loaded' # NoLoad,
                      loaded'.value # Find(loaded'.site), Find(loaded'.site) # Absent
               PROVE  Shadowed(Path[loaded'.site].name)
    OBVIOUS
  <2>1. PICK s \in Sites : /\ loaded'.site = s
                           /\ \/ loaded'.value = Find(s)
                              \/ GoodIn(consts, version, s, version, loaded'.value)
    BY LoadedValue
  <2>2. PICK c \in Classes : consts[c][Path[s].name] = Find(s)
    BY <2>1, FindBound DEF ConstInv
  <2>3. PICK d \in Classes : consts[d][Path[s].name] = loaded'.value
    BY <2>1 DEF GoodIn
  <2>4. loaded'.value # Absent BY <2>1, ConstAssumption DEF GoodIn
  <2> QED BY <2>1, <2>2, <2>3, <2>4 DEF Shadowed
<1> QED BY <1>1, ConstInvariant, PTL DEF Spec, UnshadowedFresh
=============================================================================
