--------------------------- MODULE XmmLinkProofs ---------------------------
(***************************************************************************)
(* Theorems of XmmLink, for every frame, every number of registers and     *)
(* every set of values.                                                    *)
(***************************************************************************)
EXTENDS XmmLink, FiniteSetTheorems, WellFoundedInduction, TLAPS

(* A non-empty set of natural numbers has a least element. *)
LEMMA Least == ASSUME NEW S \in SUBSET Nat, S # {} PROVE \E m \in S : \A k \in S : m <= k
<1> DEFINE R == {ss \in Nat \X Nat : ss[1] < ss[2]}
<1>1. IsWellFoundedOn(R, Nat) BY NatLessThanWellFounded DEF OpToRel
<1>2. \A a, b \in Nat : <<a, b>> \notin R => b <= a OBVIOUS
<1> HIDE DEF R
<1>3. PICK m \in S : \A k \in S : ~(<<k, m>> \in R) BY <1>1, WFMin
<1> QED BY <1>2, <1>3

(* Registers are numbered from 1; 0 names none of them. *)
LEMMA RegsType == Cardinality(Regs) \in Nat /\ Regs \subseteq Nat /\ 0 \notin Regs
<1>1. Cardinality(Regs) \in Nat BY XmmAssumption, FS_CardinalityType
<1> QED BY <1>1, XmmAssumption

LEMMA SlotsType == N \in Nat /\ Slots \subseteq Nat /\ IsFiniteSet(Slots)
<1>1. N \in Nat /\ IsFiniteSet(1..N) BY XmmAssumption, FS_Interval
<1> QED BY <1>1 DEF Slots
-----------------------------------------------------------------------------
(* Contexts whose two tables are inverse to each other, and what the        *)
(* operations on them do, slot by slot and register by register.            *)

Ctx(c) == c \in Contexts /\ Mutual(c)

LEMMA CtxType ==
    ASSUME NEW c, Ctx(c)
    PROVE  /\ \A s \in Slots : c.mode[s] \in Modes /\ c.reg[s] \in Regs \cup {0}
           /\ \A r \in Regs : c.xmm[r] \subseteq Slots
           /\ \A s \in Slots : Linked(c, s) => c.reg[s] \in Regs
           /\ \A s \in Slots : c.reg[s] \in Regs => Linked(c, s)
           /\ \A s \in Slots, r \in Regs : s \in c.xmm[r] => Linked(c, s) /\ c.reg[s] = r
           /\ \A s \in Slots, r \in Regs : Linked(c, s) /\ c.reg[s] = r => s \in c.xmm[r]
BY DEF Ctx, Contexts, Mutual

(* What has these tables is such a context. *)
LEMMA CtxIntro ==
    ASSUME NEW m \in [Slots -> Modes], NEW g \in [Slots -> Regs \cup {0}],
           NEW x \in [Regs -> SUBSET Slots],
           \A s \in Slots : m[s] # "none" <=> g[s] \in Regs,
           \A s \in Slots, r \in Regs : s \in x[r] <=> (m[s] # "none" /\ g[s] = r)
    PROVE  Ctx([mode |-> m, reg |-> g, xmm |-> x])
BY DEF Ctx, Contexts, Mutual, Linked

LEMMA CtxNoLinks == Ctx(NoLinks) /\ \A s \in Slots : ~Linked(NoLinks, s)
<1>1. 0 \notin Regs BY RegsType
<1> QED BY <1>1, CtxIntro DEF NoLinks, Modes, Linked

LEMMA FreeRegs ==
    ASSUME NEW c, Free(c) # {}
    PROVE  AllocXmm(c) \in Regs /\ c.xmm[AllocXmm(c)] = {}
<1>1. Free(c) \in SUBSET Nat BY RegsType DEF Free
<1>2. \E r \in Free(c) : \A q \in Free(c) : r <= q BY <1>1, Least
<1>3. AllocXmm(c) \in Free(c) BY <1>2 DEF AllocXmm
<1> QED BY <1>3 DEF Free

LEMMA CtxLink ==
    ASSUME NEW c, Ctx(c), NEW s \in Slots, ~Linked(c, s), NEW m \in {"R", "RW"}, NEW r \in Regs
    PROVE  LET d == Link(c, s, m, r)
           IN  /\ Ctx(d)
               /\ \A u \in Slots : d.mode[u] = IF u = s THEN m ELSE c.mode[u]
               /\ \A u \in Slots : d.reg[u] = IF u = s THEN r ELSE c.reg[u]
               /\ \A q \in Regs : d.xmm[q] = IF q = r THEN c.xmm[q] \cup {s} ELSE c.xmm[q]
<1> DEFINE mode == [c.mode EXCEPT ![s] = m]
           reg == [c.reg EXCEPT ![s] = r]
           xmm == [c.xmm EXCEPT ![r] = @ \cup {s}]
<1>1. c.mode \in [Slots -> Modes] /\ c.reg \in [Slots -> Regs \cup {0}]
      /\ c.xmm \in [Regs -> SUBSET Slots]
  BY DEF Ctx, Contexts
<1>2. /\ \A u \in Slots : mode[u] = IF u = s THEN m ELSE c.mode[u]
      /\ \A u \in Slots : reg[u] = IF u = s THEN r ELSE c.reg[u]
      /\ \A q \in Regs : xmm[q] = IF q = r THEN c.xmm[q] \cup {s} ELSE c.xmm[q]
      /\ mode \in [Slots -> Modes] /\ reg \in [Slots -> Regs \cup {0}]
      /\ xmm \in [Regs -> SUBSET Slots]
  BY <1>1 DEF Modes
<1>3. Link(c, s, m, r) = [mode |-> mode, reg |-> reg, xmm |-> xmm] BY DEF Link
<1> HIDE DEF mode, reg, xmm
<1>4. m # "none" OBVIOUS
<1>5. Ctx([mode |-> mode, reg |-> reg, xmm |-> xmm])
  BY <1>2, <1>4, CtxType, CtxIntro DEF Linked
<1> QED BY <1>2, <1>3, <1>5

LEMMA CtxDealloc ==
    ASSUME NEW c, Ctx(c), NEW S \in SUBSET Slots
    PROVE  LET d == DeallocAll(c, S)
           IN  /\ Ctx(d)
               /\ \A u \in Slots : d.mode[u] = IF u \in S THEN "none" ELSE c.mode[u]
               /\ \A u \in Slots : d.reg[u] = IF u \in S THEN 0 ELSE c.reg[u]
               /\ \A q \in Regs : d.xmm[q] = c.xmm[q] \ S
<1> DEFINE mode == [u \in Slots |-> IF u \in S THEN "none" ELSE c.mode[u]]
           reg == [u \in Slots |-> IF u \in S THEN 0 ELSE c.reg[u]]
           xmm == [q \in Regs |-> c.xmm[q] \ S]
<1>1. DeallocAll(c, S) = [mode |-> mode, reg |-> reg, xmm |-> xmm] BY DEF DeallocAll
<1>2. /\ mode \in [Slots -> Modes] /\ reg \in [Slots -> Regs \cup {0}]
      /\ xmm \in [Regs -> SUBSET Slots]
  BY CtxType DEF Modes
<1>3. /\ \A u \in Slots : mode[u] = IF u \in S THEN "none" ELSE c.mode[u]
      /\ \A u \in Slots : reg[u] = IF u \in S THEN 0 ELSE c.reg[u]
      /\ \A q \in Regs : xmm[q] = c.xmm[q] \ S
  OBVIOUS
<1> HIDE DEF mode, reg, xmm
<1>4. Ctx([mode |-> mode, reg |-> reg, xmm |-> xmm])
  BY <1>2, <1>3, CtxType, CtxIntro, RegsType DEF Linked
<1> QED BY <1>1, <1>3, <1>4

LEMMA CtxWriteBack ==
    ASSUME NEW c, Ctx(c), NEW S
    PROVE  LET d == WriteBack(c, S)
           IN  /\ Ctx(d)
               /\ \A u \in Slots : d.mode[u] = IF u \in S /\ c.mode[u] = "RW" THEN "R" ELSE c.mode[u]
               /\ d.reg = c.reg /\ d.xmm = c.xmm
<1> DEFINE mode == [u \in Slots |-> IF u \in S /\ c.mode[u] = "RW" THEN "R" ELSE c.mode[u]]
<1>1. c = [mode |-> c.mode, reg |-> c.reg, xmm |-> c.xmm]
      /\ c.reg \in [Slots -> Regs \cup {0}] /\ c.xmm \in [Regs -> SUBSET Slots]
  BY DEF Ctx, Contexts
<1>2. WriteBack(c, S) = [mode |-> mode, reg |-> c.reg, xmm |-> c.xmm]
  BY <1>1 DEF WriteBack
<1>3. mode \in [Slots -> Modes] BY CtxType DEF Modes
<1>4. \A u \in Slots : mode[u] = IF u \in S /\ c.mode[u] = "RW" THEN "R" ELSE c.mode[u]
  OBVIOUS
<1> HIDE DEF mode
<1>5. Ctx([mode |-> mode, reg |-> c.reg, xmm |-> c.xmm])
  BY <1>1, <1>3, <1>4, CtxType, CtxIntro DEF Linked
<1> QED BY <1>2, <1>4, <1>5

(* XmmSwap: whatever is linked to one of two registers gets the other.      *)
LEMMA CtxSwap ==
    ASSUME NEW c, Ctx(c), NEW l \in Regs, NEW r \in Regs
    PROVE  LET d == XmmSwap(c, l, r)
           IN  /\ Ctx(d)
               /\ d.mode = c.mode
               /\ \A u \in Slots : d.reg[u] = IF c.reg[u] = l THEN r
                                             ELSE IF c.reg[u] = r THEN l ELSE c.reg[u]
<1> DEFINE reg == [s \in Slots |-> IF c.reg[s] = l THEN r
                                   ELSE IF c.reg[s] = r THEN l ELSE c.reg[s]]
           xmm == [c.xmm EXCEPT ![l] = c.xmm[r], ![r] = c.xmm[l]]
<1>1. c = [mode |-> c.mode, reg |-> c.reg, xmm |-> c.xmm]
      /\ c.mode \in [Slots -> Modes] /\ c.xmm \in [Regs -> SUBSET Slots]
  BY DEF Ctx, Contexts
<1>2. XmmSwap(c, l, r) = [mode |-> c.mode, reg |-> reg, xmm |-> xmm]
  <2>1. XmmSwap(c, l, r) = [c EXCEPT !.reg = reg, !.xmm = xmm] BY DEF XmmSwap
  <2> HIDE DEF reg, xmm
  <2> QED BY <1>1, <2>1
<1>3. reg \in [Slots -> Regs \cup {0}] BY CtxType
<1>4. xmm \in [Regs -> SUBSET Slots] BY <1>1
<1>5. \A q \in Regs : xmm[q] = IF q = r THEN c.xmm[l] ELSE IF q = l THEN c.xmm[r] ELSE c.xmm[q]
  BY <1>1
<1>6. \A u \in Slots : reg[u] = IF c.reg[u] = l THEN r
                                ELSE IF c.reg[u] = r THEN l ELSE c.reg[u]
  OBVIOUS
<1> HIDE DEF reg, xmm
<1>7. \A s \in Slots : c.mode[s] # "none" <=> reg[s] \in Regs
  BY <1>6, CtxType, RegsType DEF Linked
<1>8. \A s \in Slots, q \in Regs : s \in xmm[q] <=> (c.mode[s] # "none" /\ reg[s] = q)
  BY <1>5, <1>6, CtxType, RegsType DEF Linked
<1>9. Ctx([mode |-> c.mode, reg |-> reg, xmm |-> xmm])
  BY <1>1, <1>3, <1>4, <1>7, <1>8, CtxIntro
<1> QED BY <1>2, <1>6, <1>9

(* d is c but for the slot s, linked with mode m to a register of its own.  *)
Fresh(c, d, s, m) ==
    /\ Ctx(d) /\ d.mode[s] = m /\ d.reg[s] \in Regs
    /\ \A u \in Slots \ {s} : d.mode[u] = c.mode[u] /\ d.reg[u] = c.reg[u]
    /\ \A u \in Slots \ {s} : Linked(d, u) => d.reg[u] # d.reg[s]

LEMMA FreshLink ==
    ASSUME NEW c, Ctx(c), NEW s \in Slots, ~Linked(c, s), NEW m \in {"R", "RW"},
           NEW r \in Regs, c.xmm[r] = {}
    PROVE  Fresh(c, Link(c, s, m, r), s, m)
<1> DEFINE d == Link(c, s, m, r)
<1>1. Ctx(d) /\ d.mode[s] = m /\ d.reg[s] = r
      /\ \A u \in Slots \ {s} : d.mode[u] = c.mode[u] /\ d.reg[u] = c.reg[u]
  BY CtxLink
<1> HIDE DEF d
<1>2. \A u \in Slots \ {s} : Linked(d, u) => d.reg[u] # r
  BY <1>1, CtxType DEF Linked
<1> QED BY <1>1, <1>2 DEF Fresh, d

(* dealloc_xmm, alloc_xmm, link: LoadConst and the second half of xmm_write. *)
LEMMA FreshAlloc ==
    ASSUME NEW c, Ctx(c), NEW s \in Slots, CanLink(c, s), NEW m \in {"R", "RW"}
    PROVE  LET e == DeallocXmm(c, s) IN Fresh(c, Link(e, s, m, AllocXmm(e)), s, m)
<1> DEFINE e == DeallocXmm(c, s)
<1>1. Ctx(e) /\ e.mode[s] = "none"
      /\ \A u \in Slots \ {s} : e.mode[u] = c.mode[u] /\ e.reg[u] = c.reg[u]
  BY CtxDealloc DEF DeallocXmm
<1>2. Free(e) # {} BY DEF CanLink
<1> HIDE DEF e
<1>3. AllocXmm(e) \in Regs /\ e.xmm[AllocXmm(e)] = {} BY <1>2, FreeRegs
<1>4. Fresh(e, Link(e, s, m, AllocXmm(e)), s, m) BY <1>1, <1>3, FreshLink DEF Linked
<1>5. Fresh(c, Link(e, s, m, AllocXmm(e)), s, m) BY <1>1, <1>4 DEF Fresh
<1> QED BY <1>5 DEF e

LEMMA FreshRead ==
    ASSUME NEW c, Ctx(c), NEW s \in Slots, CanRead(c, s), ~Linked(c, s)
    PROVE  Fresh(c, XmmRead(c, s), s, "R")
BY FreeRegs, FreshLink DEF CanRead, XmmRead

LEMMA CtxRead ==
    ASSUME NEW c, Ctx(c), NEW s \in Slots, CanRead(c, s)
    PROVE  Ctx(XmmRead(c, s)) /\ Linked(XmmRead(c, s), s)
BY FreshRead DEF XmmRead, Fresh, Linked

LEMMA FreshWrite ==
    ASSUME NEW c, Ctx(c), NEW s \in Slots, CanWrite(c, s)
    PROVE  Fresh(c, XmmWrite(c, s), s, "RW")
<1>1. CASE c.mode[s] = "RW" /\ c.xmm[c.reg[s]] = {s}
  <2>1. XmmWrite(c, s) = c /\ c.reg[s] \in Regs BY <1>1, CtxType DEF XmmWrite, Linked
  <2> QED BY <1>1, <2>1, CtxType DEF Fresh
<1>2. CASE ~(c.mode[s] = "RW" /\ c.xmm[c.reg[s]] = {s})
  BY <1>2, FreshAlloc DEF XmmWrite, CanWrite
<1> QED BY <1>1, <1>2

(* copy_slot: the copy shares the register of the source. *)
LEMMA CtxCopy ==
    ASSUME NEW c, Ctx(c), NEW src \in Slots, NEW dst \in Slots, src # dst
    PROVE  LET d == CopySlot(c, src, dst)
           IN  /\ Ctx(d)
               /\ \A u \in Slots \ {dst} : d.mode[u] = c.mode[u] /\ d.reg[u] = c.reg[u]
               /\ Linked(c, src) => d.mode[dst] = "RW" /\ d.reg[dst] = c.reg[src]
               /\ ~Linked(c, src) => d.mode[dst] = "none"
<1> DEFINE e == DeallocXmm(c, dst)
<1>1. Ctx(e) /\ e.mode[dst] = "none"
      /\ \A u \in Slots \ {dst} : e.mode[u] = c.mode[u] /\ e.reg[u] = c.reg[u]
  BY CtxDealloc DEF DeallocXmm
<1>2. CopySlot(c, src, dst) = IF Linked(e, src) THEN Link(e, dst, "RW", e.reg[src]) ELSE e
  BY DEF CopySlot
<1> HIDE DEF e
<1>3. CASE Linked(e, src)
  <2>1. e.reg[src] \in Regs /\ ~Linked(e, dst) BY <1>1, <1>3, CtxType DEF Linked
  <2> QED BY <1>1, <1>2, <1>3, <2>1, CtxLink DEF Linked
<1>4. CASE ~Linked(e, src)
  BY <1>1, <1>2, <1>4 DEF Linked
<1> QED BY <1>3, <1>4
-----------------------------------------------------------------------------
(* The contexts where branches meet.                                        *)

LEMMA CtxMerge ==
    ASSUME NEW c, Ctx(c), NEW e, Ctx(e)
    PROVE  LET d == MergeEntries(c, e)
           IN  /\ Ctx(d)
               /\ \A s \in Slots : d.mode[s] = MergeMode(c.mode[s], e.mode[s])
<1> DEFINE mode == [s \in Slots |-> MergeMode(c.mode[s], e.mode[s])]
           reg == [s \in Slots |-> IF mode[s] = "none" THEN 0 ELSE c.reg[s]]
           xmm == [r \in Regs |-> {s \in Slots : mode[s] # "none" /\ c.reg[s] = r}]
<1>1. MergeEntries(c, e) = [mode |-> mode, reg |-> reg, xmm |-> xmm] BY DEF MergeEntries
<1>2. mode \in [Slots -> Modes] BY DEF MergeMode, Modes
<1>3. \A s \in Slots : mode[s] # "none" => c.reg[s] \in Regs
  BY CtxType DEF MergeMode, Linked
<1>4. /\ \A s \in Slots : mode[s] = MergeMode(c.mode[s], e.mode[s])
      /\ \A s \in Slots : reg[s] = IF mode[s] = "none" THEN 0 ELSE c.reg[s]
      /\ \A s \in Slots, r \in Regs : s \in xmm[r] <=> mode[s] # "none" /\ c.reg[s] = r
      /\ reg \in [Slots -> Regs \cup {0}] /\ xmm \in [Regs -> SUBSET Slots]
  BY CtxType
<1> HIDE DEF mode, reg, xmm
<1>5. Ctx([mode |-> mode, reg |-> reg, xmm |-> xmm])
  BY <1>2, <1>3, <1>4, RegsType, CtxIntro
<1> QED BY <1>1, <1>4, <1>5

LEMMA CtxOfLinks == ASSUME NEW c \in MutualContexts PROVE Ctx(c)
<1>1. PICK l \in Links :
        c = [mode |-> l.mode, reg |-> l.reg, xmm |-> [r \in Regs |-> {s \in Slots : l.reg[s] = r}]]
  BY DEF MutualContexts
<1>2. /\ l.mode \in [Slots -> Modes] /\ l.reg \in [Slots -> Regs \cup {0}]
      /\ \A s \in Slots : l.mode[s] = "none" <=> l.reg[s] = 0
  BY DEF Links
<1> DEFINE xmm == [r \in Regs |-> {s \in Slots : l.reg[s] = r}]
<1>3. xmm \in [Regs -> SUBSET Slots]
      /\ \A s \in Slots, r \in Regs : s \in xmm[r] <=> l.reg[s] = r
  OBVIOUS
<1>4. c = [mode |-> l.mode, reg |-> l.reg, xmm |-> xmm] BY <1>1
<1> HIDE DEF xmm
<1> QED BY <1>2, <1>3, <1>4, RegsType, CtxIntro

(* The context of a loop header gives every slot a register of its own. *)
LEMMA CtxLoop ==
    ASSUME NEW m \in [Slots -> Modes],
           Cardinality({s \in Slots : m[s] # "none"}) \in Regs \cup {0}
    PROVE  LET d == LoopContext(m)
           IN  /\ Ctx(d) /\ d.mode = m
               /\ \A u, v \in Slots : Linked(d, u) /\ Linked(d, v) /\ u # v
                                        => d.reg[u] # d.reg[v]
<1> DEFINE linked == {s \in Slots : m[s] # "none"}
           upto(s) == {u \in linked : u <= s}
           reg == [s \in Slots |-> IF s \in linked THEN Cardinality(upto(s)) ELSE 0]
           xmm == [r \in Regs |-> {s \in Slots : reg[s] = r}]
<1>1. LoopContext(m) = [mode |-> m, reg |-> reg, xmm |-> xmm] BY DEF LoopContext
<1>2. IsFiniteSet(linked) /\ Cardinality(linked) \in Nat
  BY SlotsType, FS_Subset, FS_CardinalityType
<1>3. \A s \in Slots : IsFiniteSet(upto(s)) /\ Cardinality(upto(s)) \in Nat
                       /\ Cardinality(upto(s)) <= Cardinality(linked)
  <2> TAKE s \in Slots
  <2>1. upto(s) \in SUBSET linked OBVIOUS
  <2> QED BY <1>2, <2>1, FS_Subset, FS_CardinalityType
<1>4. ASSUME NEW s \in linked PROVE Cardinality(upto(s)) \in Regs
  <2>1. s \in upto(s) BY SlotsType
  <2>2. Cardinality(upto(s)) # 0 /\ Cardinality(linked) # 0
    BY <1>2, <1>3, <2>1, FS_EmptySet
  <2>3. Cardinality(linked) \in 1..Cardinality(Regs) BY <2>2, XmmAssumption
  <2>4. \A a, b, n \in Nat : a # 0 /\ a <= b /\ b \in 1..n => a \in 1..n OBVIOUS
  <2>5. Cardinality(upto(s)) \in Nat /\ Cardinality(upto(s)) <= Cardinality(linked)
    BY <1>3
  <2> HIDE DEF upto, linked
  <2>6. Cardinality(upto(s)) \in 1..Cardinality(Regs)
    BY <1>2, <2>2, <2>3, <2>4, <2>5, RegsType
  <2> QED BY <2>6, XmmAssumption
<1>5. ASSUME NEW u \in linked, NEW v \in linked, u < v
      PROVE  Cardinality(upto(u)) # Cardinality(upto(v))
  <2>1. u \in Nat /\ v \in Nat /\ linked \subseteq Nat BY SlotsType
  <2>2. upto(u) \in SUBSET upto(v) /\ v \in upto(v) /\ v \notin upto(u) BY <1>5, <2>1
  <2> HIDE DEF upto, linked
  <2>3. IsFiniteSet(upto(v)) BY <1>3 DEF linked
  <2> QED BY <2>2, <2>3, FS_Subset
<1>6. reg \in [Slots -> Regs \cup {0}] BY <1>4
<1>7. \A s \in Slots : reg[s] = IF m[s] # "none" THEN Cardinality(upto(s)) ELSE 0 OBVIOUS
<1>8. \A s \in Slots : m[s] # "none" => Cardinality(upto(s)) \in Regs BY <1>4
<1>9. \A u, v \in Slots : m[u] # "none" /\ m[v] # "none" /\ u # v
                            => Cardinality(upto(u)) # Cardinality(upto(v))
  BY <1>5, SlotsType
<1>10. xmm \in [Regs -> SUBSET Slots]
       /\ \A s \in Slots, r \in Regs : s \in xmm[r] <=> reg[s] = r
  OBVIOUS
<1> HIDE DEF upto, linked, reg, xmm
<1>11. Ctx([mode |-> m, reg |-> reg, xmm |-> xmm])
  BY <1>6, <1>7, <1>8, <1>10, RegsType, CtxIntro
<1> QED BY <1>1, <1>7, <1>9, <1>11 DEF Linked
-----------------------------------------------------------------------------
(* Sound, of a context, registers, slots and what the interpreter would     *)
(* have in them, where no slot waits for a conversion or a check.           *)

SoundIn(c, x, sl, rf) ==
    /\ \A s \in Slots : c.mode[s] # "RW" => sl[s] = rf[s]
    /\ \A s \in Slots : c.mode[s] = "RW" => rf[s] \in Floats
    /\ \A s \in Slots : Linked(c, s) =>
          rf[s] \in Floats \cup Ints /\ BoxOf[x[c.reg[s]]] = NumberOf(rf[s])
    /\ \A s, t \in Slots : /\ Linked(c, s) /\ Linked(c, t) /\ c.reg[s] = c.reg[t]
                           /\ rf[t] \in Floats
                           => rf[s] \in Floats

(* The same with the slots cv and gd that wait. *)
SoundWith(c, x, sl, rf, cv, gd) ==
    /\ \A s \in Slots : c.mode[s] = "RW" /\ s \notin gd => BoxOf[x[c.reg[s]]] = rf[s]
    /\ \A s \in Slots : c.mode[s] # "RW" \/ s \in gd => sl[s] = rf[s]
    /\ \A s \in Slots : Linked(c, s) /\ s \notin cv =>
         /\ rf[s] \in Floats \cup Ints
         /\ BoxOf[x[c.reg[s]]] = NumberOf(rf[s])
         /\ \A t \in c.xmm[c.reg[s]] \ cv : rf[t] \in Floats => rf[s] \in Floats

LEMMA Numbers ==
    /\ \A f \in Floats : NumberOf(f) = f /\ f \in Nums /\ BoxOf[f] = f /\ f \in Values
    /\ \A v \in Floats \cup Ints : /\ NumberOf(v) \in Floats /\ BoxOf[NumberOf(v)] = NumberOf(v)
                                   /\ v \in Values
    /\ \A n \in Nums : BoxOf[n] \in Floats
    /\ \A v \in Ints : v \notin Floats
    /\ Nil \in Values
BY XmmAssumption DEF NumberOf, Values

LEMMA SoundNow ==
    ASSUME NEW c, Ctx(c), NEW x \in [Regs -> Nums], NEW sl, NEW rf
    PROVE  SoundWith(c, x, sl, rf, {}, {}) <=> SoundIn(c, x, sl, rf)
<1>1. ASSUME SoundWith(c, x, sl, rf, {}, {}) PROVE SoundIn(c, x, sl, rf)
  <2>1. \A s \in Slots : c.mode[s] = "RW" => rf[s] \in Floats
    BY <1>1, CtxType, Numbers DEF SoundWith, Linked
  <2> QED BY <1>1, <2>1, CtxType DEF SoundWith, SoundIn
<1>2. ASSUME SoundIn(c, x, sl, rf) PROVE SoundWith(c, x, sl, rf, {}, {})
  <2>1. \A s \in Slots : c.mode[s] = "RW" => BoxOf[x[c.reg[s]]] = rf[s]
    BY <1>2, Numbers DEF SoundIn, Linked
  <2> QED BY <1>2, <2>1, CtxType DEF SoundWith, SoundIn
<1> QED BY <1>1, <1>2

LEMMA SoundRW ==
    ASSUME NEW c, NEW x, NEW sl, NEW rf, SoundIn(c, x, sl, rf), NEW s \in Slots, c.mode[s] = "RW"
    PROVE  BoxOf[x[c.reg[s]]] = rf[s]
BY Numbers DEF SoundIn, Linked

(* A slot whose link is dropped holds what it should by then. *)
LEMMA SoundDealloc ==
    ASSUME NEW c, Ctx(c), NEW S \in SUBSET Slots,
           NEW x, NEW sl, NEW rf, SoundIn(c, x, sl, rf), NEW sl2, NEW rf2,
           \A s \in S : sl2[s] = rf2[s],
           \A s \in Slots \ S : sl2[s] = sl[s] /\ rf2[s] = rf[s]
    PROVE  SoundIn(DeallocAll(c, S), x, sl2, rf2)
<1> DEFINE d == DeallocAll(c, S)
<1>1. /\ \A u \in Slots : d.mode[u] = IF u \in S THEN "none" ELSE c.mode[u]
      /\ \A u \in Slots \ S : d.reg[u] = c.reg[u]
  BY CtxDealloc
<1> HIDE DEF d
<1>2. SoundIn(d, x, sl2, rf2) BY <1>1 DEF SoundIn, Linked
<1> QED BY <1>2 DEF d

(* The slots of S that are linked RW, boxed and stored. *)
BoxedIn(c, S, x, sl) ==
    [s \in Slots |-> IF s \in S /\ c.mode[s] = "RW" THEN BoxOf[x[c.reg[s]]] ELSE sl[s]]

LEMMA BoxedType ==
    ASSUME NEW c, Ctx(c), NEW S, NEW x \in [Regs -> Nums], NEW sl \in [Slots -> Values]
    PROVE  BoxedIn(c, S, x, sl) \in [Slots -> Values]
<1>1. \A s \in Slots : c.mode[s] = "RW" => BoxOf[x[c.reg[s]]] \in Values
  BY CtxType, Numbers DEF Linked
<1> QED BY <1>1 DEF BoxedIn

LEMMA BoxedAgrees ==
    ASSUME NEW c, NEW S, NEW x, NEW sl, NEW rf, SoundIn(c, x, sl, rf),
           NEW s \in Slots, s \in S
    PROVE  BoxedIn(c, S, x, sl)[s] = rf[s]
BY SoundRW DEF BoxedIn, SoundIn

LEMMA SoundWriteBack ==
    ASSUME NEW c, Ctx(c), NEW S, NEW x, NEW sl, NEW rf, SoundIn(c, x, sl, rf)
    PROVE  SoundIn(WriteBack(c, S), x, BoxedIn(c, S, x, sl), rf)
<1> DEFINE d == WriteBack(c, S)
           sl2 == BoxedIn(c, S, x, sl)
<1>1. /\ \A u \in Slots : d.mode[u] = IF u \in S /\ c.mode[u] = "RW" THEN "R" ELSE c.mode[u]
      /\ d.reg = c.reg
  BY CtxWriteBack
<1>2. \A s \in Slots : sl2[s] = IF s \in S /\ c.mode[s] = "RW" THEN rf[s] ELSE sl[s]
  BY SoundRW DEF BoxedIn
<1> HIDE DEF d, sl2
<1>3. SoundIn(d, x, sl2, rf) BY <1>1, <1>2 DEF SoundIn, Linked
<1> QED BY <1>3 DEF d, sl2

(* A number n is put in a register of its own, for the slot s. *)
LEMMA SoundFresh ==
    ASSUME NEW c, NEW d, NEW s \in Slots, NEW m \in {"R", "RW"}, Fresh(c, d, s, m),
           NEW x \in [Regs -> Nums], NEW sl \in [Slots -> Values],
           NEW rf \in [Slots -> Values], SoundIn(c, x, sl, rf),
           NEW n \in Nums, NEW y, y[d.reg[s]] = n,
           \A r \in Regs : r # d.reg[s] => y[r] = x[r],
           NEW sl2 \in [Slots -> Values], NEW rf2 \in [Slots -> Values],
           \A u \in Slots : u # s => sl2[u] = sl[u],
           \A u \in Slots : u # s => rf2[u] = rf[u],
           rf2[s] \in Floats \cup Ints, BoxOf[n] = NumberOf(rf2[s]),
           m = "RW" => rf2[s] \in Floats,
           m = "R" => sl2[s] = rf2[s]
    PROVE  SoundIn(d, y, sl2, rf2)
<1>1. y[d.reg[s]] = n /\ \A r \in Regs : r # d.reg[s] => y[r] = x[r]
  OBVIOUS
<1>2. \A u \in Slots \ {s} : Linked(d, u) => d.reg[u] # d.reg[s] /\ d.reg[u] \in Regs
  BY CtxType DEF Fresh
<1>3. \A u \in Slots \ {s} : d.mode[u] = c.mode[u] /\ d.reg[u] = c.reg[u]
  BY DEF Fresh
<1>4. d.mode[s] = m BY DEF Fresh
<1>5. \A u \in Slots : d.mode[u] # "RW" => sl2[u] = rf2[u]
  BY <1>3, <1>4 DEF SoundIn
<1>6. \A u \in Slots : d.mode[u] = "RW" => rf2[u] \in Floats
  BY <1>3, <1>4 DEF SoundIn
<1>7. \A u \in Slots : Linked(d, u) =>
        rf2[u] \in Floats \cup Ints /\ BoxOf[y[d.reg[u]]] = NumberOf(rf2[u])
  BY <1>1, <1>2, <1>3 DEF SoundIn, Linked
<1>8. \A u, v \in Slots : /\ Linked(d, u) /\ Linked(d, v) /\ d.reg[u] = d.reg[v]
                          /\ rf2[v] \in Floats
                          => rf2[u] \in Floats
  BY <1>2, <1>3 DEF SoundIn, Linked
<1> QED BY <1>5, <1>6, <1>7, <1>8 DEF SoundIn

(* A copy of a Float shares its register; a slot that is not linked is      *)
(* copied as it is.                                                         *)
LEMMA SoundCopy ==
    ASSUME NEW c, Ctx(c), NEW src \in Slots, NEW dst \in Slots, src # dst,
           NEW x, NEW sl \in [Slots -> Values], NEW rf \in [Slots -> Values],
           SoundIn(c, x, sl, rf), Linked(c, src) => rf[src] \in Floats
    PROVE  SoundIn(CopySlot(c, src, dst), x,
                   IF Linked(c, src) THEN sl ELSE [sl EXCEPT ![dst] = sl[src]],
                   [rf EXCEPT ![dst] = rf[src]])
<1> DEFINE d == CopySlot(c, src, dst)
           sl2 == IF Linked(c, src) THEN sl ELSE [sl EXCEPT ![dst] = sl[src]]
           rf2 == [rf EXCEPT ![dst] = rf[src]]
<1>1. /\ \A u \in Slots \ {dst} : d.mode[u] = c.mode[u] /\ d.reg[u] = c.reg[u]
      /\ Linked(c, src) => d.mode[dst] = "RW" /\ d.reg[dst] = c.reg[src]
      /\ ~Linked(c, src) => d.mode[dst] = "none"
  BY CtxCopy
<1>2. /\ \A u \in Slots \ {dst} : sl2[u] = sl[u] /\ rf2[u] = rf[u]
      /\ rf2[dst] = rf[src]
      /\ ~Linked(c, src) => sl2[dst] = sl[src]
  OBVIOUS
<1> HIDE DEF d, sl2, rf2
<1>3. \A u \in Slots : d.mode[u] # "RW" => sl2[u] = rf2[u]
  BY <1>1, <1>2 DEF SoundIn, Linked
<1>4. \A u \in Slots : d.mode[u] = "RW" => rf2[u] \in Floats
  BY <1>1, <1>2 DEF SoundIn, Linked
<1>5. \A u \in Slots : Linked(d, u) =>
        rf2[u] \in Floats \cup Ints /\ BoxOf[x[d.reg[u]]] = NumberOf(rf2[u])
  BY <1>1, <1>2 DEF SoundIn, Linked
<1>6. \A u, v \in Slots : /\ Linked(d, u) /\ Linked(d, v) /\ d.reg[u] = d.reg[v]
                          /\ rf2[v] \in Floats
                          => rf2[u] \in Floats
  BY <1>1, <1>2 DEF SoundIn, Linked
<1> QED BY <1>3, <1>4, <1>5, <1>6 DEF SoundIn, d, sl2, rf2

(* A slot that is not linked may be set, in the slots and in ref alike. *)
LEMMA SoundSet ==
    ASSUME NEW c, NEW x, NEW sl \in [Slots -> Values], NEW rf \in [Slots -> Values],
           SoundIn(c, x, sl, rf), NEW s \in Slots, ~Linked(c, s), NEW v
    PROVE  SoundIn(c, x, [sl EXCEPT ![s] = v], [rf EXCEPT ![s] = v])
<1> DEFINE sl2 == [sl EXCEPT ![s] = v]
           rf2 == [rf EXCEPT ![s] = v]
<1>1. sl2[s] = rf2[s] /\ \A u \in Slots \ {s} : sl2[u] = sl[u] /\ rf2[u] = rf[u]
  OBVIOUS
<1> HIDE DEF sl2, rf2
<1>2. SoundIn(c, x, sl2, rf2) BY <1>1 DEF SoundIn, Linked
<1> QED BY <1>2 DEF sl2, rf2

LEMMA SoundNone ==
    ASSUME NEW x, NEW sl, NEW rf
    PROVE  SoundIn(NoLinks, x, sl, rf) <=> \A s \in Slots : sl[s] = rf[s]
BY CtxNoLinks DEF SoundIn, Linked

(* Everything that is linked RW is written back: no link is needed any more. *)
LEMMA SoundExit ==
    ASSUME NEW c, Ctx(c), NEW x, NEW sl, NEW rf, SoundIn(c, x, sl, rf), NEW sl2,
           \A s \in Slots : sl2[s] = IF c.mode[s] = "RW" THEN BoxOf[x[c.reg[s]]] ELSE sl[s]
    PROVE  SoundIn(NoLinks, x, sl2, rf)
<1>1. \A s \in Slots : sl2[s] = rf[s] BY SoundRW DEF SoundIn
<1> QED BY <1>1, SoundNone

(* A call: the link of the result is dropped, the operands are written back. *)
LEMMA SoundCall ==
    ASSUME NEW c, Ctx(c), NEW ret \in Slots, NEW ops \in SUBSET Slots,
           NEW x \in [Regs -> Nums], NEW sl \in [Slots -> Values],
           NEW rf \in [Slots -> Values], SoundIn(c, x, sl, rf),
           NEW rf1 \in [Slots -> Values], rf1[ret] = sl[ret], \A u \in Slots : u # ret => rf1[u] = rf[u]
    PROVE  LET read == BoxedIn(DeallocXmm(c, ret), ops, x, sl)
               d == AfterCall(c, ret, ops)
           IN  /\ Ctx(d) /\ ~Linked(d, ret)
               /\ \A u \in Slots \ {ret} : /\ d.reg[u] = c.reg[u]
                                           /\ Linked(d, u) <=> Linked(c, u)
               /\ read \in [Slots -> Values]
               /\ SoundIn(d, x, read, rf1)
               /\ read[ret] = sl[ret]
               /\ \A s \in ops : s # ret => read[s] = rf[s]
               /\ \A s \in Slots : s # ret /\ c.mode[s] # "RW" => read[s] = sl[s]
<1> DEFINE e == DeallocXmm(c, ret)
           read == BoxedIn(e, ops, x, sl)
<1>1. /\ Ctx(e) /\ e.mode[ret] = "none"
      /\ \A u \in Slots \ {ret} : e.mode[u] = c.mode[u] /\ e.reg[u] = c.reg[u]
  BY CtxDealloc DEF DeallocXmm
<1>2. rf1[ret] = sl[ret] /\ \A u \in Slots : u # ret => rf1[u] = rf[u] OBVIOUS
<1>3. SoundIn(e, x, sl, rf1) BY <1>2, SoundDealloc DEF DeallocXmm
<1>4. AfterCall(c, ret, ops) = WriteBack(e, ops) BY DEF AfterCall
<1> HIDE DEF e
<1>5. /\ Ctx(WriteBack(e, ops)) /\ WriteBack(e, ops).reg = e.reg
      /\ \A u \in Slots : Linked(WriteBack(e, ops), u) <=> Linked(e, u)
  BY <1>1, CtxWriteBack DEF Linked
<1>6. /\ read \in [Slots -> Values]
      /\ SoundIn(WriteBack(e, ops), x, read, rf1)
      /\ \A s \in ops : read[s] = rf1[s]
  <2>1. read \in [Slots -> Values] BY <1>1, BoxedType
  <2>2. SoundIn(WriteBack(e, ops), x, read, rf1) BY <1>1, <1>3, SoundWriteBack
  <2>3. \A s \in ops : read[s] = rf1[s] BY <1>3, BoxedAgrees
  <2> QED BY <2>1, <2>2, <2>3
<1>7. \A s \in Slots : e.mode[s] # "RW" => read[s] = sl[s] BY DEF BoxedIn
<1> HIDE DEF read
<1>8. /\ ~Linked(WriteBack(e, ops), ret)
      /\ \A u \in Slots \ {ret} : Linked(WriteBack(e, ops), u) <=> Linked(c, u)
  BY <1>1, <1>5 DEF Linked
<1>9. /\ read[ret] = sl[ret]
      /\ \A s \in ops : s # ret => read[s] = rf[s]
      /\ \A s \in Slots : s # ret /\ c.mode[s] # "RW" => read[s] = sl[s]
  BY <1>1, <1>2, <1>6, <1>7
<1> QED BY <1>1, <1>4, <1>5, <1>6, <1>8, <1>9 DEF e, read

(* An operand is read: it is linked, or converted to a register of its own. *)
LEMMA SoundRead ==
    ASSUME NEW c, Ctx(c), NEW s \in Slots, CanRead(c, s),
           NEW x \in [Regs -> Nums], NEW sl \in [Slots -> Values],
           NEW rf \in [Slots -> Values], SoundIn(c, x, sl, rf),
           Linked(c, s) \/ sl[s] \in Floats \cup Ints
    PROVE  LET d == XmmRead(c, s)
               y == IF Linked(c, s) THEN x ELSE [x EXCEPT ![d.reg[s]] = NumberOf(sl[s])]
           IN  /\ Ctx(d) /\ Linked(d, s)
               /\ y \in [Regs -> Nums] /\ SoundIn(d, y, sl, rf)
               /\ \A u \in Slots : Linked(c, u) => d.reg[u] = c.reg[u]
               /\ \A u \in Slots \ {s} : Linked(d, u) <=> Linked(c, u)
               /\ ~Linked(c, s) => \A u \in Slots \ {s} : Linked(d, u) => d.reg[u] # d.reg[s]
<1> DEFINE d == XmmRead(c, s)
<1>1. CASE Linked(c, s) BY <1>1 DEF XmmRead
<1>2. CASE ~Linked(c, s)
  <2>1. Fresh(c, d, s, "R") BY <1>2, FreshRead
  <2>2. sl[s] \in Floats \cup Ints /\ sl[s] = rf[s] BY <1>2 DEF SoundIn, Linked
  <2>3. NumberOf(sl[s]) \in Nums /\ BoxOf[NumberOf(sl[s])] = NumberOf(rf[s])
    BY <2>2, Numbers
  <2> HIDE DEF d
  <2> DEFINE y == [x EXCEPT ![d.reg[s]] = NumberOf(sl[s])]
  <2>6. /\ y \in [Regs -> Nums] /\ y[d.reg[s]] = NumberOf(sl[s])
        /\ \A r \in Regs : r # d.reg[s] => y[r] = x[r]
    BY <2>1, <2>3 DEF Fresh
  <2>4. SoundIn(d, y, sl, rf)
    <3> HIDE DEF d, y
    <3> QED BY <2>1, <2>2, <2>3, <2>6, SoundFresh
  <2>5. /\ Ctx(d) /\ Linked(d, s)
        /\ \A u \in Slots : Linked(c, u) => d.reg[u] = c.reg[u]
        /\ \A u \in Slots \ {s} : Linked(d, u) <=> Linked(c, u)
        /\ \A u \in Slots \ {s} : Linked(d, u) => d.reg[u] # d.reg[s]
    BY <1>2, <2>1 DEF Fresh, Linked
  <2> QED BY <1>2, <2>4, <2>5, <2>6 DEF d
<1> QED BY <1>1, <1>2

(* The result of arithmetic is put in a register of its own. *)
LEMMA SoundWrite ==
    ASSUME NEW c, Ctx(c), NEW s \in Slots, CanWrite(c, s), NEW n \in Nums,
           NEW x \in [Regs -> Nums], NEW sl \in [Slots -> Values],
           NEW rf \in [Slots -> Values],
           SoundIn(c, x, sl, rf)
    PROVE  LET d == XmmWrite(c, s)
           IN  /\ Ctx(d)
               /\ [x EXCEPT ![d.reg[s]] = n] \in [Regs -> Nums]
               /\ SoundIn(d, [x EXCEPT ![d.reg[s]] = n], sl, [rf EXCEPT ![s] = BoxOf[n]])
<1> DEFINE d == XmmWrite(c, s)
           rf2 == [rf EXCEPT ![s] = BoxOf[n]]
<1>1. Fresh(c, d, s, "RW") BY FreshWrite
<1>2. rf2[s] = BoxOf[n] /\ \A u \in Slots \ {s} : rf2[u] = rf[u] OBVIOUS
<1>3. BoxOf[n] \in Floats /\ NumberOf(BoxOf[n]) = BoxOf[n] BY Numbers
<1> HIDE DEF d, rf2
<1> DEFINE y == [x EXCEPT ![d.reg[s]] = n]
<1>4. /\ y \in [Regs -> Nums] /\ y[d.reg[s]] = n
      /\ \A r \in Regs : r # d.reg[s] => y[r] = x[r]
  BY <1>1 DEF Fresh
<1>5. SoundIn(d, y, sl, rf2)
  <2>1. rf2[s] \in Floats \cup Ints /\ BoxOf[n] = NumberOf(rf2[s]) /\ rf2[s] \in Floats
    BY <1>2, <1>3
  <2>2. \A u \in Slots : u # s => rf2[u] = rf[u] BY <1>2
  <2>3. rf2 \in [Slots -> Values] BY <1>3, Numbers DEF rf2
  <2> HIDE DEF y
  <2> QED BY <1>1, <1>4, <2>1, <2>2, <2>3, SoundFresh
<1> QED BY <1>1, <1>4, <1>5 DEF Fresh, d, rf2
-----------------------------------------------------------------------------
(* The inductive invariant.  While a merge moves slots one by one: a slot   *)
(* that target does not link has lost its link, what waits for a conversion *)
(* or a check has been moved and is in its slot, and so is a slot that has  *)
(* been moved and is not linked RW afterwards.                              *)

Moved(u) == N + u < at
Kept(u) == Linked(target, u) /\ Linked(ctx, u) /\ u \notin conv

Idle == at = 0 => target = NoLinks /\ conv = {} /\ guards = {}
OnlyFollowed == at # 0 => strayed = "no"
LinksDropped == \A u \in Slots : u < at /\ ~Linked(target, u) => ~Linked(ctx, u)
Waiting ==
    /\ \A u \in conv : Moved(u) /\ Linked(target, u) /\ ctx.mode[u] = "R" /\ u \notin guards
    /\ \A u \in guards : Moved(u) /\ target.mode[u] = "RW" /\ Kept(u)
MovedStored ==
    \A u \in Slots : Moved(u) =>
       /\ Linked(target, u) => Linked(ctx, u)
       /\ target.mode[u] # "RW" => slots[u] = ref[u]

MergeInv == Idle /\ OnlyFollowed /\ LinksDropped /\ Waiting /\ MovedStored

(* If the slots that stay linked share registers in the same way in both    *)
(* contexts: those that share one by now will share one, and have the same  *)
(* number and kind; the register a moved slot will have holds its number,   *)
(* and no slot that will not share it is linked to it; slots are converted  *)
(* only where no register is shared, and never to be written.               *)
Own == \A u, v \in Slots : Linked(target, u) /\ Linked(target, v) /\ u # v
                              => target.reg[u] # target.reg[v]
Grouped == \A u, v \in Slots : Kept(u) /\ Kept(v) /\ ctx.reg[u] = ctx.reg[v]
                                  => target.reg[u] = target.reg[v]
SameNumber == \A u, v \in Slots :
    Kept(u) /\ Kept(v) /\ target.reg[u] = target.reg[v]
       => /\ xmms[ctx.reg[u]] = xmms[ctx.reg[v]]
          /\ ref[u] \in Floats => ref[v] \in Floats
Alone == \A u, v \in Slots : Kept(u) /\ Kept(v) /\ Moved(u) /\ ctx.reg[v] = target.reg[u]
                                => target.reg[v] = target.reg[u]
InPlace == \A u \in Slots : Kept(u) /\ Moved(u) => xmms[target.reg[u]] = xmms[ctx.reg[u]]
OwnInPlace == Own => \A u \in Slots : Kept(u) /\ Moved(u) => ctx.reg[u] = target.reg[u]
AllKept == Own \/ \A u \in Slots : Linked(target, u) => Kept(u)
WritableKept == \A u \in Slots : target.mode[u] = "RW" => Kept(u)
Checked == \A u \in Slots :
    Moved(u) /\ target.mode[u] = "RW" /\ u \notin guards => ctx.mode[u] = "RW"

AlikeInv == at # 0 /\ alike =>
    /\ Grouped /\ SameNumber /\ Alone /\ InPlace /\ OwnInPlace
    /\ AllKept /\ WritableKept /\ Checked

XmmInv == /\ TypeOK /\ LinksMutual /\ Faithful /\ ReadsAgree /\ UnaliasedMergesArrive
          /\ MergeInv /\ AlikeInv

LEMMA Now ==
    ASSUME XmmInv
    PROVE  /\ Ctx(ctx) /\ Ctx(target) /\ xmms \in [Regs -> Nums]
           /\ slots \in [Slots -> Values] /\ ref \in [Slots -> Values]
           /\ Running => SoundIn(ctx, xmms, slots, ref) /\ conv = {} /\ guards = {}
<1>1. Ctx(ctx) /\ Ctx(target) BY DEF XmmInv, TypeOK, LinksMutual, Ctx
<1>2. /\ xmms \in [Regs -> Nums] /\ slots \in [Slots -> Values] /\ ref \in [Slots -> Values]
  BY DEF XmmInv, TypeOK
<1>3. ASSUME Running PROVE SoundIn(ctx, xmms, slots, ref) /\ conv = {} /\ guards = {}
  <2>1. conv = {} /\ guards = {} BY <1>3 DEF XmmInv, MergeInv, Idle, Running
  <2>2. SoundWith(ctx, xmms, slots, ref, conv, guards)
    BY <1>3 DEF XmmInv, Faithful, Sound, SoundWith, Running
  <2> QED BY <1>1, <1>2, <2>1, <2>2, SoundNow
<1> QED BY <1>1, <1>2, <1>3

(* What is to be shown of an instruction. *)
LEMMA AfterInstr ==
    ASSUME XmmInv, at = 0, SameMerge, Ctx(ctx'), xmms' \in [Regs -> Nums],
           slots' \in [Slots -> Values], ref' \in [Slots -> Values],
           strayed' \in {"no", "integer", "zero", "array", "operand", "receiver"},
           strayed' = "no" => SoundIn(ctx', xmms', slots', ref'),
           agreed' = TRUE
    PROVE  XmmInv'
<1>1. /\ target = NoLinks /\ target' = NoLinks /\ at' = 0 /\ alike' = alike
      /\ conv' = {} /\ guards' = {}
  BY DEF XmmInv, MergeInv, Idle, SameMerge
<1>2. TypeOK' BY <1>1, CtxNoLinks DEF XmmInv, TypeOK, Ctx
<1>3. LinksMutual' BY <1>1, CtxNoLinks DEF LinksMutual, Ctx
<1>4. Faithful'
  <2>1. strayed' = "no" => SoundWith(ctx', xmms', slots', ref', conv', guards')
    BY <1>1, SoundNow
  <2> QED BY <2>1 DEF Faithful, Sound, SoundWith
<1>5. MergeInv'
  <2>1. \A u \in Slots : ~(u < at') /\ ~Moved(u)'
    BY <1>1, SlotsType DEF Moved, Slots
  <2> QED BY <1>1, <2>1 DEF MergeInv, Idle, OnlyFollowed, LinksDropped, Waiting, MovedStored
<1>6. AlikeInv' BY <1>1 DEF AlikeInv
<1>7. ReadsAgree' BY DEF ReadsAgree
<1>8. UnaliasedMergesArrive' BY DEF UnaliasedMergesArrive
<1> QED BY <1>2, <1>3, <1>4, <1>5, <1>6, <1>7, <1>8 DEF XmmInv
-----------------------------------------------------------------------------
(* The instructions.                                                        *)

LEMMA LocalSlots == Locals \subseteq Slots
BY XmmAssumption DEF Locals, Slots

LEMMA StoreStep ==
    ASSUME XmmInv, NEW ret \in Slots, NEW v \in Values, Store(ret, v) PROVE XmmInv'
<1>1. /\ ctx' = DeallocAll(ctx, {ret}) /\ slots' = [slots EXCEPT ![ret] = v]
      /\ ref' = [ref EXCEPT ![ret] = v] /\ xmms' = xmms
      /\ strayed' = "no" /\ agreed' = TRUE /\ at = 0 /\ SameMerge
  BY DEF Store, Finish, Running, DeallocXmm
<1>2. /\ Ctx(ctx) /\ xmms \in [Regs -> Nums] /\ SoundIn(ctx, xmms, slots, ref)
      /\ slots \in [Slots -> Values] /\ ref \in [Slots -> Values]
  BY Now DEF Store
<1>3. /\ slots' \in [Slots -> Values] /\ ref' \in [Slots -> Values]
      /\ \A s \in {ret} : slots'[s] = ref'[s]
      /\ \A s \in Slots \ {ret} : slots'[s] = slots[s] /\ ref'[s] = ref[s]
  BY <1>1, <1>2
<1>4. SoundIn(DeallocAll(ctx, {ret}), xmms, slots', ref') BY <1>2, <1>3, SoundDealloc
<1>5. Ctx(ctx') BY <1>1, <1>2, CtxDealloc
<1> QED BY <1>1, <1>2, <1>3, <1>4, <1>5, AfterInstr

LEMMA LoadFloatStep ==
    ASSUME XmmInv, NEW ret \in Slots, NEW f \in Floats, LoadFloat(ret, f) PROVE XmmInv'
<1> DEFINE c == AfterLoadFloat(ctx, ret)
<1>1. /\ ctx' = c /\ slots' = [slots EXCEPT ![ret] = f]
      /\ ref' = [ref EXCEPT ![ret] = f] /\ xmms' = [xmms EXCEPT ![c.reg[ret]] = f]
      /\ strayed' = "no" /\ agreed' = TRUE /\ at = 0 /\ SameMerge /\ CanLink(ctx, ret)
  BY DEF LoadFloat, Finish, Running
<1>2. /\ Ctx(ctx) /\ xmms \in [Regs -> Nums] /\ SoundIn(ctx, xmms, slots, ref)
      /\ slots \in [Slots -> Values] /\ ref \in [Slots -> Values]
  BY Now DEF LoadFloat
<1>3. Fresh(ctx, c, ret, "R") BY <1>1, <1>2, FreshAlloc DEF AfterLoadFloat
<1> HIDE DEF c
<1>4. f \in Values /\ f \in Nums /\ BoxOf[f] = NumberOf(f) BY Numbers
<1>5. /\ slots' \in [Slots -> Values] /\ ref' \in [Slots -> Values]
      /\ \A u \in Slots : u # ret => slots'[u] = slots[u]
      /\ \A u \in Slots : u # ret => ref'[u] = ref[u]
      /\ slots'[ret] = f /\ ref'[ret] = f
  BY <1>1, <1>2, <1>4
<1>6. /\ xmms' \in [Regs -> Nums] /\ xmms'[c.reg[ret]] = f
      /\ \A r \in Regs : r # c.reg[ret] => xmms'[r] = xmms[r]
  BY <1>1, <1>2, <1>3, <1>4 DEF Fresh
<1>7. SoundIn(c, xmms', slots', ref')
  BY <1>2, <1>3, <1>4, <1>5, <1>6, SoundFresh
<1>8. Ctx(ctx') BY <1>1, <1>3 DEF Fresh
<1> QED BY <1>1, <1>5, <1>6, <1>7, <1>8, AfterInstr

LEMMA CopyStep ==
    ASSUME XmmInv, NEW dst \in Slots, NEW src \in Slots, Copy(dst, src) PROVE XmmInv'
<1>1. /\ ctx' = CopySlot(ctx, src, dst) /\ dst # src
      /\ slots' = IF Linked(ctx, src) THEN slots ELSE [slots EXCEPT ![dst] = slots[src]]
      /\ ref' = [ref EXCEPT ![dst] = ref[src]] /\ xmms' = xmms
      /\ strayed' = IF ctx.mode[src] = "R" /\ ref[src] \in Ints THEN "integer" ELSE "no"
      /\ agreed' = TRUE /\ at = 0 /\ SameMerge
  BY DEF Copy, Running
<1>2. /\ Ctx(ctx) /\ xmms \in [Regs -> Nums] /\ SoundIn(ctx, xmms, slots, ref)
      /\ slots \in [Slots -> Values] /\ ref \in [Slots -> Values]
  BY Now DEF Copy
<1>3. slots' \in [Slots -> Values] /\ ref' \in [Slots -> Values] BY <1>1, <1>2
<1>4. Ctx(ctx') BY <1>1, <1>2, CtxCopy
<1>5. ASSUME strayed' = "no" PROVE Linked(ctx, src) => ref[src] \in Floats
  <2>1. ctx.mode[src] \in Modes BY <1>2, CtxType
  <2> QED BY <1>1, <1>2, <1>5, <2>1 DEF SoundIn, Linked, Modes
<1>6. strayed' = "no" => SoundIn(ctx', xmms', slots', ref')
  BY <1>1, <1>2, <1>5, SoundCopy
<1> QED BY <1>1, <1>2, <1>3, <1>4, <1>6, AfterInstr

(* The number machine code gets for an operand is what the interpreter uses. *)
LEMMA OperandAgrees ==
    ASSUME XmmInv, Running, NEW s \in Slots, IsNumber(s)
    PROVE  BoxOf[Operand(s)] = NumberOf(ref[s])
<1>1. SoundIn(ctx, xmms, slots, ref) BY Now
<1>2. CASE Linked(ctx, s) BY <1>1, <1>2 DEF SoundIn, Operand
<1>3. CASE ~Linked(ctx, s)
  <2>1. slots[s] = ref[s] /\ slots[s] \in Floats \cup Ints
    BY <1>1, <1>3 DEF SoundIn, Linked, IsNumber
  <2> QED BY <1>3, <2>1, Numbers DEF Operand
<1> QED BY <1>2, <1>3

(* Two operands, which may be one slot, are read and converted. *)
LEMMA SoundReadBinary ==
    ASSUME XmmInv, Running, NEW l \in Slots, NEW r \in Slots,
           CanReadBinary(ctx, l, r), GuardsPass({l, r})
    PROVE  LET c == XmmReadBinary(ctx, l, r)
               x == XmmsRead(c, {l, r})
           IN  Ctx(c) /\ x \in [Regs -> Nums] /\ SoundIn(c, x, slots, ref)
<1>1. /\ Ctx(ctx) /\ xmms \in [Regs -> Nums] /\ SoundIn(ctx, xmms, slots, ref)
      /\ slots \in [Slots -> Values] /\ ref \in [Slots -> Values]
  BY Now
<1>2. \A s \in {l, r} : Linked(ctx, s) \/ slots[s] \in Floats \cup Ints
  BY DEF GuardsPass, IsNumber
<1> DEFINE c1 == XmmRead(ctx, l)
           x1 == IF Linked(ctx, l) THEN xmms ELSE [xmms EXCEPT ![c1.reg[l]] = NumberOf(slots[l])]
<1>3. /\ Ctx(c1) /\ Linked(c1, l) /\ x1 \in [Regs -> Nums] /\ SoundIn(c1, x1, slots, ref)
      /\ \A u \in Slots : Linked(ctx, u) => c1.reg[u] = ctx.reg[u]
      /\ \A u \in Slots \ {l} : Linked(c1, u) <=> Linked(ctx, u)
  BY <1>1, <1>2, SoundRead DEF CanReadBinary
<1>4. Linked(ctx, l) => x1 = xmms OBVIOUS
<1>5. c1.reg[l] \in Regs BY <1>3, CtxType
<1>6. ~Linked(ctx, l) => \A q \in Regs : x1[q] = IF q = c1.reg[l] THEN NumberOf(slots[l]) ELSE xmms[q]
  BY <1>1, <1>5
<1>7. CanRead(c1, r) BY DEF CanReadBinary
<1> HIDE DEF c1, x1
<1> DEFINE c2 == XmmRead(c1, r)
           x2 == IF Linked(c1, r) THEN x1 ELSE [x1 EXCEPT ![c2.reg[r]] = NumberOf(slots[r])]
<1>8. /\ Ctx(c2) /\ Linked(c2, r) /\ x2 \in [Regs -> Nums] /\ SoundIn(c2, x2, slots, ref)
      /\ \A u \in Slots : Linked(c1, u) => c2.reg[u] = c1.reg[u]
      /\ \A u \in Slots \ {r} : Linked(c2, u) <=> Linked(c1, u)
      /\ ~Linked(c1, r) => \A u \in Slots \ {r} : Linked(c2, u) => c2.reg[u] # c2.reg[r]
  <2>1. Linked(c1, r) \/ slots[r] \in Floats \cup Ints BY <1>2, <1>3
  <2> QED BY <1>1, <1>3, <1>7, <2>1, SoundRead
<1>9. Linked(c1, r) => x2 = x1 OBVIOUS
<1>10. c2.reg[r] \in Regs BY <1>8, CtxType
<1>11. ~Linked(c1, r) => \A q \in Regs : x2[q] = IF q = c2.reg[r] THEN NumberOf(slots[r]) ELSE x1[q]
  BY <1>3, <1>10
<1>12. c2 = XmmReadBinary(ctx, l, r) BY DEF c1, XmmReadBinary
<1> HIDE DEF c2, x2
<1> DEFINE y == [q \in Regs |-> IF \E s \in {l, r} : ~Linked(ctx, s) /\ c2.reg[s] = q
                                THEN NumberOf(slots[CHOOSE s \in {l, r} :
                                                      ~Linked(ctx, s) /\ c2.reg[s] = q])
                                ELSE xmms[q]]
<1>13. ASSUME NEW q \in Regs PROVE y[q] = x2[q]
  <2>1. CASE \E s \in {l, r} : ~Linked(ctx, s) /\ c2.reg[s] = q
    <3> DEFINE w == CHOOSE s \in {l, r} : ~Linked(ctx, s) /\ c2.reg[s] = q
    <3>1. w \in {l, r} /\ ~Linked(ctx, w) /\ c2.reg[w] = q BY <2>1
    <3>2. y[q] = NumberOf(slots[w]) BY <2>1
    <3> HIDE DEF w, y
    <3>3. CASE w = l
      <4>1. x1[q] = NumberOf(slots[l]) BY <1>3, <1>6, <1>8, <3>1, <3>3
      <4>2. CASE Linked(c1, r) BY <1>9, <3>2, <3>3, <4>1, <4>2
      <4>3. CASE ~Linked(c1, r)
        <5>1. l # r /\ Linked(c2, l) BY <1>3, <1>8, <4>3
        <5>2. c2.reg[r] # q BY <1>8, <3>1, <3>3, <4>3, <5>1
        <5> QED BY <1>11, <3>2, <3>3, <4>1, <4>3, <5>2
      <4> QED BY <4>2, <4>3
    <3>4. CASE w = r /\ w # l
      <4>1. ~Linked(c1, r) BY <1>3, <3>1, <3>4
      <4> QED BY <1>11, <3>1, <3>2, <3>4, <4>1
    <3> QED BY <3>1, <3>3, <3>4
  <2>2. CASE ~\E s \in {l, r} : ~Linked(ctx, s) /\ c2.reg[s] = q
    <3>1. y[q] = xmms[q] BY <2>2
    <3> HIDE DEF y
    <3>2. x1[q] = xmms[q]
      BY <1>3, <1>4, <1>6, <1>8, <2>2
    <3>3. x2[q] = x1[q]
      BY <1>3, <1>9, <1>11, <2>2
    <3> QED BY <3>1, <3>2, <3>3
  <2> QED BY <2>1, <2>2
<1>14. y = x2
  <2>1. y = [q \in Regs |-> y[q]] OBVIOUS
  <2>2. x2 = [q \in Regs |-> x2[q]] BY <1>8
  <2> HIDE DEF y
  <2> QED BY <1>13, <2>1, <2>2
<1>15. y = XmmsRead(c2, {l, r}) BY DEF XmmsRead
<1> QED BY <1>8, <1>12, <1>14, <1>15

LEMMA FloatOpStep ==
    ASSUME XmmInv, NEW ret \in Slots, NEW l \in Slots, NEW r \in Slots, NEW n \in Nums,
           FloatOp(ret, l, r, n)
    PROVE  XmmInv'
<1> DEFINE c == XmmReadBinary(ctx, l, r)
           x == XmmsRead(c, {l, r})
           d == XmmWrite(c, ret)
<1>1. /\ ctx' = d /\ slots' = slots /\ ref' = [ref EXCEPT ![ret] = BoxOf[n]]
      /\ xmms' = [x EXCEPT ![ctx'.reg[ret]] = n]
      /\ agreed' = \A s \in {l, r} : BoxOf[Operand(s)] = NumberOf(ref[s])
      /\ strayed' = FloatStray({l, r}) /\ at = 0 /\ SameMerge
      /\ CanReadBinary(ctx, l, r) /\ CanWrite(c, ret) /\ GuardsPass({l, r}) /\ Running
  BY DEF FloatOp, Running, AfterFloatOp
<1>2. slots \in [Slots -> Values] /\ ref \in [Slots -> Values] BY Now
<1>3. Ctx(c) /\ x \in [Regs -> Nums] /\ SoundIn(c, x, slots, ref)
  BY <1>1, SoundReadBinary
<1> HIDE DEF c, x
<1>4. /\ Ctx(d) /\ [x EXCEPT ![d.reg[ret]] = n] \in [Regs -> Nums]
      /\ SoundIn(d, [x EXCEPT ![d.reg[ret]] = n], slots, [ref EXCEPT ![ret] = BoxOf[n]])
  BY <1>1, <1>2, <1>3, SoundWrite
<1> HIDE DEF d
<1>5. agreed' = TRUE BY <1>1, OperandAgrees DEF GuardsPass
<1>6. strayed' \in {"no", "integer", "zero"} BY <1>1 DEF FloatStray
<1>7. ref' \in [Slots -> Values] /\ slots' \in [Slots -> Values] BY <1>1, <1>2, Numbers
<1>8. /\ Ctx(ctx') /\ xmms' \in [Regs -> Nums] /\ SoundIn(ctx', xmms', slots', ref')
  BY <1>1, <1>4
<1> QED BY <1>1, <1>5, <1>6, <1>7, <1>8, AfterInstr

LEMMA FloatCmpStep ==
    ASSUME XmmInv, NEW ret \in Slots, NEW l \in Slots, NEW r \in Slots, NEW v \in Others,
           FloatCmp(ret, l, r, v)
    PROVE  XmmInv'
<1> DEFINE c == XmmReadBinary(ctx, l, r)
           x == XmmsRead(c, {l, r})
<1>1. /\ ctx' = DeallocAll(c, {ret}) /\ slots' = [slots EXCEPT ![ret] = v]
      /\ ref' = [ref EXCEPT ![ret] = v] /\ xmms' = x
      /\ agreed' = \A s \in {l, r} : BoxOf[Operand(s)] = NumberOf(ref[s])
      /\ strayed' = FloatStray({l, r}) /\ at = 0 /\ SameMerge
      /\ CanReadBinary(ctx, l, r) /\ GuardsPass({l, r}) /\ Running
  BY DEF FloatCmp, Finish, Running, AfterFloatCmp, DeallocXmm
<1>2. slots \in [Slots -> Values] /\ ref \in [Slots -> Values] BY Now
<1>3. Ctx(c) /\ x \in [Regs -> Nums] /\ SoundIn(c, x, slots, ref)
  BY <1>1, SoundReadBinary
<1> HIDE DEF c, x
<1>4. v \in Values BY DEF Values
<1>5. /\ slots' \in [Slots -> Values] /\ ref' \in [Slots -> Values]
      /\ \A s \in {ret} : slots'[s] = ref'[s]
      /\ \A s \in Slots \ {ret} : slots'[s] = slots[s] /\ ref'[s] = ref[s]
  BY <1>1, <1>2, <1>4
<1>6. SoundIn(DeallocAll(c, {ret}), x, slots', ref') BY <1>3, <1>5, SoundDealloc
<1>7. Ctx(ctx') BY <1>1, <1>3, CtxDealloc
<1>8. agreed' = TRUE BY <1>1, OperandAgrees DEF GuardsPass
<1>9. strayed' \in {"no", "integer", "zero"} BY <1>1 DEF FloatStray
<1> QED BY <1>1, <1>3, <1>5, <1>6, <1>7, <1>8, <1>9, AfterInstr

(* An instruction that set an unlinked slot, by machine code or, after a    *)
(* side exit, by the interpreter.                                           *)
LEMMA FinishSound ==
    ASSUME XmmInv, NEW c, Ctx(c), NEW ret \in Slots, ~Linked(c, ret), NEW v \in Values,
           NEW exits \in BOOLEAN, NEW sl \in [Slots -> Values], NEW rf \in [Slots -> Values],
           SoundIn(c, xmms, sl, rf), \A u \in Slots \ {ret} : rf[u] = ref[u],
           Finish(c, sl, ret, v, exits)
    PROVE  /\ Ctx(ctx') /\ slots' \in [Slots -> Values] /\ ref' \in [Slots -> Values]
           /\ SoundIn(ctx', xmms, slots', ref')
<1> DEFINE sl2 == [sl EXCEPT ![ret] = v]
           rf2 == [rf EXCEPT ![ret] = v]
<1>1. /\ ref' = [ref EXCEPT ![ret] = v] /\ ref \in [Slots -> Values]
      /\ xmms \in [Regs -> Nums]
  BY Now DEF Finish
<1>2. ref' = rf2 /\ ref' \in [Slots -> Values] BY <1>1
<1>3. SoundIn(c, xmms, sl2, rf2) BY SoundSet
<1>4. CASE ~exits
  <2>1. ctx' = c /\ slots' = sl2 BY <1>4 DEF Finish
  <2> QED BY <1>2, <1>3, <2>1
<1>5. CASE exits
  <2>1. ctx' = NoLinks BY <1>5 DEF Finish
  <2>2. slots' = [s \in Slots |-> IF s = ret THEN v
                    ELSE IF c.mode[s] = "RW" THEN BoxOf[xmms[c.reg[s]]] ELSE sl[s]]
    BY <1>5 DEF Finish
  <2>3. \A s \in Slots : slots'[s] = IF c.mode[s] = "RW" THEN BoxOf[xmms[c.reg[s]]] ELSE sl2[s]
    BY <2>2 DEF Linked
  <2>4. slots' \in [Slots -> Values]
    BY <1>1, <2>2, CtxType, Numbers DEF Linked
  <2> HIDE DEF sl2, rf2
  <2>5. SoundIn(NoLinks, xmms, slots', rf2) BY <1>3, <2>3, SoundExit
  <2> QED BY <1>2, <2>1, <2>4, <2>5, CtxNoLinks
<1> QED BY <1>4, <1>5

LEMMA StoredIsBoxed ==
    \A c, S : Stored(c, S) = BoxedIn(c, S, xmms, slots)
BY DEF Stored, BoxedIn

(* The operands are written back, then the link of the result is dropped. *)
LEMMA SoundGeneric ==
    ASSUME XmmInv, Running, NEW ret \in Slots, NEW ops \in SUBSET Slots
    PROVE  LET c == AfterGeneric(ctx, ret, ops)
               sl == Stored(ctx, ops)
           IN  /\ Ctx(c) /\ ~Linked(c, ret)
               /\ \A u \in Slots \ {ret} : Linked(c, u) => Linked(ctx, u)
               /\ sl \in [Slots -> Values] /\ \A s \in ops : sl[s] = ref[s]
               /\ SoundIn(c, xmms, sl, [ref EXCEPT ![ret] = sl[ret]])
<1>1. /\ Ctx(ctx) /\ xmms \in [Regs -> Nums] /\ SoundIn(ctx, xmms, slots, ref)
      /\ slots \in [Slots -> Values] /\ ref \in [Slots -> Values]
  BY Now
<1> DEFINE b == WriteBack(ctx, ops)
           sl == BoxedIn(ctx, ops, xmms, slots)
           rf == [ref EXCEPT ![ret] = sl[ret]]
<1>2. /\ Ctx(b) /\ SoundIn(b, xmms, sl, ref) /\ \A s \in ops : sl[s] = ref[s]
      /\ sl \in [Slots -> Values] /\ \A u \in Slots : Linked(b, u) => Linked(ctx, u)
  BY <1>1, CtxWriteBack, SoundWriteBack, BoxedAgrees, BoxedType DEF Linked
<1> HIDE DEF b, sl
<1>3. /\ \A s \in {ret} : sl[s] = rf[s]
      /\ \A s \in Slots \ {ret} : sl[s] = sl[s] /\ rf[s] = ref[s]
  BY <1>1
<1> HIDE DEF rf
<1> DEFINE c == DeallocAll(b, {ret})
<1>4. SoundIn(c, xmms, sl, rf) BY <1>2, <1>3, SoundDealloc
<1>5. Ctx(c) /\ ~Linked(c, ret) /\ \A u \in Slots \ {ret} : Linked(c, u) => Linked(ctx, u)
  BY <1>2, CtxDealloc DEF Linked
<1>6. c = AfterGeneric(ctx, ret, ops) BY DEF AfterGeneric, DeallocXmm, b
<1> HIDE DEF c
<1> QED BY <1>2, <1>4, <1>5, <1>6, StoredIsBoxed DEF rf, sl

LEMMA GenericStep ==
    ASSUME XmmInv, NEW ret \in Slots, NEW ops \in SUBSET Slots, NEW v \in Values,
           NEW exits \in BOOLEAN, Generic(ret, ops, v, exits)
    PROVE  XmmInv'
<1> DEFINE c == AfterGeneric(ctx, ret, ops)
           sl == Stored(ctx, ops)
           rf == [ref EXCEPT ![ret] = sl[ret]]
<1>1. /\ Finish(c, sl, ret, v, exits) /\ agreed' = \A s \in ops : sl[s] = ref[s]
      /\ xmms' = xmms /\ strayed' = "no" /\ at = 0 /\ SameMerge /\ Running
  BY DEF Generic, Running
<1>2. ref \in [Slots -> Values] /\ xmms \in [Regs -> Nums] BY Now
<1>3. /\ Ctx(c) /\ ~Linked(c, ret) /\ sl \in [Slots -> Values]
      /\ \A s \in ops : sl[s] = ref[s] /\ SoundIn(c, xmms, sl, rf)
  BY <1>1, SoundGeneric
<1>4. SoundIn(c, xmms, sl, rf) BY <1>1, SoundGeneric
<1>5. rf \in [Slots -> Values] /\ \A u \in Slots \ {ret} : rf[u] = ref[u] BY <1>2, <1>3
<1> HIDE DEF c, sl, rf
<1>6. /\ Ctx(ctx') /\ slots' \in [Slots -> Values] /\ ref' \in [Slots -> Values]
      /\ SoundIn(ctx', xmms, slots', ref')
  BY <1>1, <1>3, <1>4, <1>5, FinishSound
<1> QED BY <1>1, <1>2, <1>3, <1>6, AfterInstr

LEMMA MakeArrayStep ==
    ASSUME XmmInv, NEW ret \in Slots, NEW ops \in SUBSET Slots, NEW v \in Others,
           NEW junk \in [Regs -> Nums], MakeArray(ret, ops, v, junk)
    PROVE  XmmInv'
<1> DEFINE c == AfterGeneric(ctx, ret, ops)
           sl == Stored(ctx, ops)
           rf == [ref EXCEPT ![ret] = sl[ret]]
<1>1. /\ Finish(c, sl, ret, v, FALSE) /\ agreed' = \A s \in ops : sl[s] = ref[s]
      /\ strayed' = IF \E s \in Slots \ {ret} : Linked(ctx, s) THEN "array" ELSE "no"
      /\ xmms' = junk /\ at = 0 /\ SameMerge /\ Running
  BY DEF MakeArray, Running
<1>2. ref \in [Slots -> Values] BY Now
<1>3. /\ Ctx(c) /\ ~Linked(c, ret) /\ sl \in [Slots -> Values]
      /\ \A s \in ops : sl[s] = ref[s]
      /\ \A u \in Slots \ {ret} : Linked(c, u) => Linked(ctx, u)
  BY <1>1, SoundGeneric
<1>4. SoundIn(c, xmms, sl, rf) BY <1>1, SoundGeneric
<1>5. rf \in [Slots -> Values] /\ \A u \in Slots \ {ret} : rf[u] = ref[u] BY <1>2, <1>3
<1> HIDE DEF c, sl, rf
<1>6. v \in Values BY DEF Values
<1>7. /\ Ctx(ctx') /\ slots' \in [Slots -> Values] /\ ref' \in [Slots -> Values]
      /\ SoundIn(ctx', xmms, slots', ref')
  BY <1>1, <1>3, <1>4, <1>5, <1>6, FinishSound
<1>8. ASSUME strayed' = "no" PROVE SoundIn(ctx', xmms', slots', ref')
  <2>1. \A s \in Slots : ~Linked(c, s) BY <1>1, <1>3, <1>8
  <2>2. ctx' = c BY <1>1 DEF Finish
  <2> QED BY <1>7, <2>1, <2>2 DEF SoundIn, Linked
<1> QED BY <1>1, <1>3, <1>7, <1>8, AfterInstr

LEMMA MakeRangeStep ==
    ASSUME XmmInv, NEW ret \in Slots, NEW ops \in SUBSET Slots, NEW v \in Others,
           MakeRange(ret, ops, v)
    PROVE  XmmInv'
<1>1. /\ ctx' = ctx /\ xmms' = xmms /\ slots' = [slots EXCEPT ![ret] = v]
      /\ ref' = [ref EXCEPT ![ret] = v] /\ agreed' = TRUE /\ at = 0 /\ SameMerge
      /\ strayed' \in {"no", "operand"} /\ (strayed' = "no" => ~Linked(ctx, ret)) /\ Running
  BY DEF MakeRange, Running
<1>2. /\ Ctx(ctx) /\ xmms \in [Regs -> Nums] /\ SoundIn(ctx, xmms, slots, ref)
      /\ slots \in [Slots -> Values] /\ ref \in [Slots -> Values]
  BY <1>1, Now
<1>3. v \in Values BY DEF Values
<1>4. slots' \in [Slots -> Values] /\ ref' \in [Slots -> Values] BY <1>1, <1>2, <1>3
<1>5. strayed' = "no" => SoundIn(ctx', xmms', slots', ref') BY <1>1, <1>2, SoundSet
<1> QED BY <1>1, <1>2, <1>4, <1>5, AfterInstr

LEMMA ConsumeStep ==
    ASSUME XmmInv, NEW ops \in SUBSET Slots, Consume(ops) PROVE XmmInv'
<1>1. /\ ctx' = WriteBack(ctx, ops) /\ slots' = BoxedIn(ctx, ops, xmms, slots)
      /\ agreed' = \A s \in ops : slots'[s] = ref[s]
      /\ xmms' = xmms /\ ref' = ref /\ strayed' = "no" /\ at = 0 /\ SameMerge /\ Running
  BY StoredIsBoxed DEF Consume, Running
<1>2. /\ Ctx(ctx) /\ xmms \in [Regs -> Nums] /\ SoundIn(ctx, xmms, slots, ref)
      /\ slots \in [Slots -> Values] /\ ref \in [Slots -> Values]
  BY <1>1, Now
<1>3. Ctx(ctx') /\ slots' \in [Slots -> Values] BY <1>1, <1>2, CtxWriteBack, BoxedType
<1>4. SoundIn(ctx', xmms', slots', ref') BY <1>1, <1>2, SoundWriteBack
<1>5. agreed' = TRUE BY <1>1, <1>2, BoxedAgrees
<1> QED BY <1>1, <1>2, <1>3, <1>4, <1>5, AfterInstr

LEMMA CallStep ==
    ASSUME XmmInv, NEW ret \in Slots, NEW recv \in Slots, NEW args \in SUBSET Slots,
           NEW v \in Values, NEW exits \in BOOLEAN, Call(ret, recv, args, v, exits)
    PROVE  XmmInv'
<1> DEFINE ops == {recv} \cup args
           c == AfterCall(ctx, ret, ops)
           read == BoxedIn(DeallocXmm(ctx, ret), ops, xmms, slots)
           rf == [ref EXCEPT ![ret] = slots[ret]]
<1>1. /\ Finish(c, read, ret, v, exits) /\ ret \notin args
      /\ strayed' = IF recv = ret /\ ctx.mode[ret] = "RW" THEN "receiver" ELSE "no"
      /\ agreed' = (strayed' = "no" => \A s \in ops : read[s] = ref[s])
      /\ xmms' = xmms /\ at = 0 /\ SameMerge /\ Running
  BY StoredIsBoxed DEF Call, Running
<1>2. /\ Ctx(ctx) /\ xmms \in [Regs -> Nums] /\ SoundIn(ctx, xmms, slots, ref)
      /\ slots \in [Slots -> Values] /\ ref \in [Slots -> Values]
  BY <1>1, Now
<1>3. ops \in SUBSET Slots OBVIOUS
<1>4. /\ rf \in [Slots -> Values] /\ rf[ret] = slots[ret]
      /\ \A u \in Slots : u # ret => rf[u] = ref[u]
  BY <1>2
<1> HIDE DEF rf, ops
<1>5. /\ Ctx(c) /\ ~Linked(c, ret) /\ read \in [Slots -> Values]
      /\ SoundIn(c, xmms, read, rf) /\ read[ret] = slots[ret]
      /\ \A s \in ops : s # ret => read[s] = ref[s]
      /\ \A s \in Slots : s # ret /\ ctx.mode[s] # "RW" => read[s] = slots[s]
  BY <1>2, <1>3, <1>4, SoundCall, SMTT(60)
<1> HIDE DEF c, read
<1>6. /\ Ctx(ctx') /\ slots' \in [Slots -> Values] /\ ref' \in [Slots -> Values]
      /\ SoundIn(ctx', xmms, slots', ref')
  BY <1>1, <1>4, <1>5, FinishSound
<1>7. agreed' = TRUE
  <2>1. strayed' = "no" /\ recv = ret => read[ret] = ref[ret]
    BY <1>1, <1>2, <1>5 DEF SoundIn
  <2>2. strayed' = "no" => \A s \in ops : read[s] = ref[s] BY <1>1, <1>5, <2>1 DEF ops
  <2> QED BY <1>1, <2>2
<1>8. strayed' \in {"no", "receiver"} BY <1>1
<1> QED BY <1>1, <1>2, <1>6, <1>7, <1>8, AfterInstr

(* Dropping the links of slots after some of them are written back, or all. *)
LEMMA WriteBackDealloc ==
    ASSUME NEW c, Ctx(c), NEW S, NEW T
    PROVE  DeallocAll(WriteBack(c, S), T) = DeallocAll(WriteBack(c, S \cup T), T)
<1>1. /\ \A u \in Slots : WriteBack(c, S).mode[u] = IF u \in S /\ c.mode[u] = "RW" THEN "R" ELSE c.mode[u]
      /\ WriteBack(c, S).reg = c.reg /\ WriteBack(c, S).xmm = c.xmm
  BY CtxWriteBack
<1>2. /\ \A u \in Slots : WriteBack(c, S \cup T).mode[u]
                            = IF u \in S \cup T /\ c.mode[u] = "RW" THEN "R" ELSE c.mode[u]
      /\ WriteBack(c, S \cup T).reg = c.reg /\ WriteBack(c, S \cup T).xmm = c.xmm
  BY CtxWriteBack
<1>3. [u \in Slots |-> IF u \in T THEN "none" ELSE WriteBack(c, S).mode[u]]
        = [u \in Slots |-> IF u \in T THEN "none" ELSE WriteBack(c, S \cup T).mode[u]]
  BY <1>1, <1>2
<1> QED BY <1>1, <1>2, <1>3 DEF DeallocAll

LEMMA CallBlockStep ==
    ASSUME XmmInv, NEW ret \in Slots, NEW recv \in Slots, NEW args \in SUBSET Slots,
           NEW v \in Values, NEW l \in Locals, NEW w \in Values,
           CallBlock(ret, recv, args, v, l, w)
    PROVE  XmmInv'
<1> DEFINE ops == args \cup Locals
           c == AfterCall(ctx, ret, ops)
           d == DeallocAll(c, Locals)
           read == BoxedIn(DeallocXmm(ctx, ret), ops, xmms, slots)
           rf == [ref EXCEPT ![ret] = slots[ret]]
           sl1 == [read EXCEPT ![l] = w]
           rf1 == [rf EXCEPT ![l] = w]
<1>1. /\ ctx' = AfterCallBlock(ctx, ret, args) /\ ret \notin args
      /\ slots' = [[read EXCEPT ![l] = w] EXCEPT ![ret] = v]
      /\ ref' = [[ref EXCEPT ![l] = w] EXCEPT ![ret] = v]
      /\ strayed' = IF ctx.mode[recv] = "RW" /\ (recv = ret \/ recv \notin args \cup Locals)
                    THEN "receiver" ELSE "no"
      /\ agreed' = (strayed' = "no" => \A s \in {recv} \cup args : read[s] = ref[s])
      /\ xmms' = xmms /\ at = 0 /\ SameMerge /\ Running
  BY StoredIsBoxed DEF CallBlock, Running
<1>2. /\ Ctx(ctx) /\ xmms \in [Regs -> Nums] /\ SoundIn(ctx, xmms, slots, ref)
      /\ slots \in [Slots -> Values] /\ ref \in [Slots -> Values]
  BY <1>1, Now
<1>3. ops \in SUBSET Slots /\ l \in Slots /\ Locals \in SUBSET Slots BY LocalSlots
<1>4. /\ Ctx(c) /\ ~Linked(c, ret) /\ read \in [Slots -> Values]
      /\ SoundIn(c, xmms, read, rf) /\ read[ret] = slots[ret]
      /\ \A s \in ops : s # ret => read[s] = ref[s]
      /\ \A s \in Slots : s # ret /\ ctx.mode[s] # "RW" => read[s] = slots[s]
  <2>1. /\ rf \in [Slots -> Values] /\ rf[ret] = slots[ret]
        /\ \A u \in Slots : u # ret => rf[u] = ref[u]
    BY <1>2
  <2> HIDE DEF rf, ops
  <2> QED BY <1>2, <1>3, <2>1, SoundCall
<1>5. ctx' = d
  <2>1. Ctx(DeallocXmm(ctx, ret)) BY <1>2, CtxDealloc DEF DeallocXmm
  <2> QED BY <1>1, <2>1, WriteBackDealloc DEF AfterCallBlock, AfterCall
<1>6. rf \in [Slots -> Values] BY <1>2
<1>7. /\ Ctx(d) /\ ~Linked(d, ret) /\ ~Linked(d, l)
      /\ \A u \in Locals : ~Linked(d, u)
  <2> HIDE DEF c
  <2> QED BY <1>3, <1>4, CtxDealloc DEF Linked
<1>8. SoundIn(d, xmms, read, rf)
  <2>1. \A s \in Locals : read[s] = rf[s]
    BY <1>2, <1>3, <1>4
  <2>2. \A s \in Slots \ Locals : read[s] = read[s] /\ rf[s] = rf[s] OBVIOUS
  <2> HIDE DEF c, read, rf
  <2> QED BY <1>3, <1>4, <2>1, <2>2, SoundDealloc
<1> HIDE DEF c, d, read
<1>9. SoundIn(d, xmms, sl1, rf1) /\ sl1 \in [Slots -> Values] /\ rf1 \in [Slots -> Values]
  <2> HIDE DEF rf
  <2> QED BY <1>3, <1>4, <1>6, <1>7, <1>8, SoundSet
<1>10. SoundIn(d, xmms, [sl1 EXCEPT ![ret] = v], [rf1 EXCEPT ![ret] = v])
  <2> HIDE DEF sl1, rf1
  <2> QED BY <1>7, <1>9, SoundSet
<1>11. ref' = [rf1 EXCEPT ![ret] = v] /\ slots' = [sl1 EXCEPT ![ret] = v]
       /\ ref' \in [Slots -> Values] /\ slots' \in [Slots -> Values]
  BY <1>1, <1>2, <1>3, <1>9
<1>12. agreed' = TRUE
  <2>1. ASSUME strayed' = "no" PROVE read[recv] = ref[recv]
    <3>1. CASE recv = ret BY <1>1, <1>2, <1>4, <2>1, <3>1 DEF SoundIn
    <3>2. CASE recv # ret /\ recv \in ops BY <1>4, <3>2
    <3>3. CASE recv # ret /\ recv \notin ops
      BY <1>1, <1>2, <1>4, <2>1, <3>3 DEF SoundIn
    <3> QED BY <3>1, <3>2, <3>3
  <2>2. \A s \in args : read[s] = ref[s] BY <1>1, <1>4
  <2> QED BY <1>1, <2>1, <2>2
<1>13. strayed' \in {"no", "receiver"} BY <1>1
<1> HIDE DEF sl1, rf1
<1>14. SoundIn(ctx', xmms', slots', ref') BY <1>1, <1>5, <1>10, <1>11
<1> QED BY <1>1, <1>2, <1>5, <1>7, <1>11, <1>12, <1>13, <1>14, AfterInstr

LEMMA TofStep ==
    ASSUME XmmInv, NEW ret \in Slots, NEW recv \in Slots, Tof(ret, recv) PROVE XmmInv'
<1> DEFINE ops == {recv}
           c == AfterCall(ctx, ret, ops)
           d == XmmWrite(c, ret)
           read == BoxedIn(DeallocXmm(ctx, ret), ops, xmms, slots)
           rf == [ref EXCEPT ![ret] = slots[ret]]
           n == ToF[read[recv]]
<1>1. /\ ctx' = d /\ CanWrite(c, ret) /\ slots' = read /\ read[recv] \in Ints
      /\ xmms' = [xmms EXCEPT ![ctx'.reg[ret]] = n] /\ ref' = [ref EXCEPT ![ret] = n]
      /\ strayed' = IF recv = ret /\ ctx.mode[ret] = "RW" THEN "receiver" ELSE "no"
      /\ agreed' = (strayed' = "no" => read[recv] = ref[recv])
      /\ at = 0 /\ SameMerge /\ Running
  BY StoredIsBoxed DEF Tof, Running, AfterTof
<1>2. /\ Ctx(ctx) /\ xmms \in [Regs -> Nums] /\ SoundIn(ctx, xmms, slots, ref)
      /\ slots \in [Slots -> Values] /\ ref \in [Slots -> Values]
  BY <1>1, Now
<1>3. /\ Ctx(c) /\ read \in [Slots -> Values]
      /\ SoundIn(c, xmms, read, rf) /\ read[ret] = slots[ret]
      /\ \A s \in ops : s # ret => read[s] = ref[s]
  <2>1. /\ rf \in [Slots -> Values] /\ rf[ret] = slots[ret]
        /\ \A u \in Slots : u # ret => rf[u] = ref[u]
    BY <1>2
  <2>2. ops \in SUBSET Slots OBVIOUS
  <2> HIDE DEF rf, ops
  <2> QED BY <1>2, <2>1, <2>2, SoundCall
<1>4. n \in Nums /\ BoxOf[n] = n /\ n \in Values BY <1>1, Numbers, XmmAssumption
<1>5. rf \in [Slots -> Values] /\ [rf EXCEPT ![ret] = n] = [ref EXCEPT ![ret] = n]
  BY <1>2
<1> HIDE DEF c, read, rf, n
<1>6. /\ Ctx(d) /\ [xmms EXCEPT ![d.reg[ret]] = n] \in [Regs -> Nums]
      /\ SoundIn(d, [xmms EXCEPT ![d.reg[ret]] = n], read, [rf EXCEPT ![ret] = BoxOf[n]])
  BY <1>1, <1>2, <1>3, <1>4, <1>5, SoundWrite
<1> HIDE DEF d
<1>7. /\ Ctx(ctx') /\ xmms' \in [Regs -> Nums] /\ SoundIn(ctx', xmms', slots', ref')
  BY <1>1, <1>4, <1>5, <1>6
<1>8. slots' \in [Slots -> Values] /\ ref' \in [Slots -> Values] BY <1>1, <1>2, <1>3, <1>4
<1>9. agreed' = TRUE BY <1>1, <1>2, <1>3 DEF SoundIn
<1>10. strayed' \in {"no", "receiver"} BY <1>1
<1> QED BY <1>1, <1>7, <1>8, <1>9, <1>10, AfterInstr

LEMMA SqrtStep ==
    ASSUME XmmInv, NEW ret \in Slots, NEW recv \in Slots, NEW arg \in Slots, NEW n \in Nums,
           Sqrt(ret, recv, arg, n)
    PROVE  XmmInv'
<1> DEFINE ops == {recv}
           c == AfterCall(ctx, ret, ops)
           e == XmmRead(c, arg)
           x == XmmsRead(e, {arg})
           d == XmmWrite(e, ret)
           read == BoxedIn(DeallocXmm(ctx, ret), ops, xmms, slots)
           rf == [ref EXCEPT ![ret] = slots[ret]]
<1>1. /\ ctx' = d /\ arg # ret /\ CanRead(c, arg) /\ CanWrite(e, ret)
      /\ Linked(ctx, arg) \/ slots[arg] \in Floats
      /\ slots' = read
      /\ xmms' = [x EXCEPT ![ctx'.reg[ret]] = n] /\ ref' = [ref EXCEPT ![ret] = BoxOf[n]]
      /\ strayed' = IF recv = ret /\ ctx.mode[ret] = "RW" THEN "receiver"
                    ELSE IF Operand(arg) # NumberOf(ref[arg]) THEN "zero" ELSE "no"
      /\ agreed' = (strayed' = "no" => /\ BoxOf[Operand(arg)] = NumberOf(ref[arg])
                                       /\ slots'[recv] = ref[recv])
      /\ at = 0 /\ SameMerge /\ Running
  BY StoredIsBoxed DEF Sqrt, Running, AfterSqrt
<1>2. /\ Ctx(ctx) /\ xmms \in [Regs -> Nums] /\ SoundIn(ctx, xmms, slots, ref)
      /\ slots \in [Slots -> Values] /\ ref \in [Slots -> Values]
  BY <1>1, Now
<1>3. /\ Ctx(c) /\ read \in [Slots -> Values]
      /\ SoundIn(c, xmms, read, rf) /\ read[ret] = slots[ret]
      /\ \A s \in ops : s # ret => read[s] = ref[s]
      /\ \A s \in Slots : s # ret /\ ctx.mode[s] # "RW" => read[s] = slots[s]
      /\ Linked(c, arg) <=> Linked(ctx, arg)
  <2>1. /\ rf \in [Slots -> Values] /\ rf[ret] = slots[ret]
        /\ \A u \in Slots : u # ret => rf[u] = ref[u]
    BY <1>2
  <2>2. ops \in SUBSET Slots OBVIOUS
  <2> HIDE DEF rf, ops
  <2> QED BY <1>1, <1>2, <2>1, <2>2, SoundCall
<1>4. rf \in [Slots -> Values] /\ [rf EXCEPT ![ret] = BoxOf[n]] = [ref EXCEPT ![ret] = BoxOf[n]]
  BY <1>2
<1>5. ~Linked(ctx, arg) => read[arg] = slots[arg] /\ slots[arg] \in Floats
  BY <1>1, <1>3 DEF Linked
<1> HIDE DEF c, read, rf
<1> DEFINE y == IF Linked(c, arg) THEN xmms ELSE [xmms EXCEPT ![e.reg[arg]] = NumberOf(read[arg])]
<1>6. Ctx(e) /\ Linked(e, arg) /\ y \in [Regs -> Nums] /\ SoundIn(e, y, read, rf)
  <2>1. Linked(c, arg) \/ read[arg] \in Floats \cup Ints BY <1>3, <1>5
  <2> QED BY <1>1, <1>2, <1>3, <1>4, <2>1, SoundRead
<1>7. x = y
  <2>1. e.reg[arg] \in Regs BY <1>6, CtxType
  <2>2. x = [q \in Regs |-> IF \E s \in {arg} : ~Linked(ctx, s) /\ e.reg[s] = q
                            THEN NumberOf(slots[CHOOSE s \in {arg} :
                                                  ~Linked(ctx, s) /\ e.reg[s] = q])
                            ELSE xmms[q]]
    BY DEF XmmsRead
  <2> HIDE DEF e, x
  <2>3. CASE Linked(ctx, arg)
    <3>1. \A q \in Regs : x[q] = xmms[q] BY <2>2, <2>3
    <3>2. y = xmms BY <1>3, <2>3
    <3>3. xmms = [q \in Regs |-> xmms[q]] /\ x = [q \in Regs |-> x[q]] BY <1>2, <2>2
    <3> QED BY <3>1, <3>2, <3>3
  <2>4. CASE ~Linked(ctx, arg)
    <3>1. \A q \in Regs : x[q] = IF e.reg[arg] = q THEN NumberOf(slots[arg]) ELSE xmms[q]
      <4> TAKE q \in Regs
      <4>1. CASE e.reg[arg] = q
        <5>1. (CHOOSE s \in {arg} : ~Linked(ctx, s) /\ e.reg[s] = q) = arg BY <2>4, <4>1
        <5> QED BY <2>2, <2>4, <4>1, <5>1
      <4>2. CASE e.reg[arg] # q BY <2>2, <4>2
      <4> QED BY <4>1, <4>2
    <3>2. \A q \in Regs : y[q] = IF e.reg[arg] = q THEN NumberOf(slots[arg]) ELSE xmms[q]
      BY <1>2, <1>3, <1>5, <2>1, <2>4
    <3>3. y = [q \in Regs |-> y[q]] /\ x = [q \in Regs |-> x[q]] BY <1>6, <2>2
    <3> HIDE DEF y
    <3> QED BY <3>1, <3>2, <3>3
  <2> QED BY <2>3, <2>4
<1> HIDE DEF e, x, y
<1>8. /\ Ctx(d) /\ [x EXCEPT ![d.reg[ret]] = n] \in [Regs -> Nums]
      /\ SoundIn(d, [x EXCEPT ![d.reg[ret]] = n], read, [rf EXCEPT ![ret] = BoxOf[n]])
  BY <1>1, <1>3, <1>4, <1>6, <1>7, SoundWrite
<1> HIDE DEF d
<1>9. /\ Ctx(ctx') /\ xmms' \in [Regs -> Nums] /\ SoundIn(ctx', xmms', slots', ref')
  BY <1>1, <1>4, <1>8
<1>10. slots' \in [Slots -> Values] /\ ref' \in [Slots -> Values]
  BY <1>1, <1>2, <1>3, Numbers
<1>11. agreed' = TRUE
  <2>1. BoxOf[Operand(arg)] = NumberOf(ref[arg]) BY <1>1, OperandAgrees DEF IsNumber
  <2>2. strayed' = "no" => read[recv] = ref[recv] BY <1>1, <1>2, <1>3 DEF SoundIn
  <2> QED BY <1>1, <2>1, <2>2
<1>12. strayed' \in {"no", "receiver", "zero"} BY <1>1
<1> QED BY <1>1, <1>9, <1>10, <1>11, <1>12, AfterInstr

LEMMA CondBrStep ==
    ASSUME XmmInv, NEW cond \in Slots, CondBr(cond) PROVE XmmInv'
<1>1. /\ ctx' = ctx /\ xmms' = xmms /\ slots' = slots /\ ref' = ref
      /\ strayed' \in {"no", "operand"} /\ (strayed' = "no" => ctx.mode[cond] # "RW")
      /\ agreed' = (strayed' = "no" => slots[cond] = ref[cond])
      /\ at = 0 /\ SameMerge /\ Running
  BY DEF CondBr, Running
<1>2. /\ Ctx(ctx) /\ xmms \in [Regs -> Nums] /\ SoundIn(ctx, xmms, slots, ref)
      /\ slots \in [Slots -> Values] /\ ref \in [Slots -> Values]
  BY <1>1, Now
<1>3. agreed' = TRUE BY <1>1, <1>2 DEF SoundIn
<1> QED BY <1>1, <1>2, <1>3, AfterInstr

LEMMA DeoptStep == ASSUME XmmInv, Deopt PROVE XmmInv'
<1>1. /\ ctx' = NoLinks /\ slots' = BoxedIn(ctx, Slots, xmms, slots)
      /\ xmms' = xmms /\ ref' = ref /\ strayed' = "no" /\ agreed' = TRUE
      /\ at = 0 /\ SameMerge /\ Running
  BY StoredIsBoxed DEF Deopt, Running
<1>2. /\ Ctx(ctx) /\ xmms \in [Regs -> Nums] /\ SoundIn(ctx, xmms, slots, ref)
      /\ slots \in [Slots -> Values] /\ ref \in [Slots -> Values]
  BY <1>1, Now
<1>3. slots' \in [Slots -> Values] BY <1>1, <1>2, BoxedType
<1>4. \A s \in Slots : slots'[s] = ref[s] BY <1>1, <1>2, BoxedAgrees
<1>5. SoundIn(ctx', xmms', slots', ref') BY <1>1, <1>4, SoundNone
<1> QED BY <1>1, <1>2, <1>3, <1>5, CtxNoLinks, AfterInstr

LEMMA ReturnStep ==
    ASSUME XmmInv, NEW s \in Slots, Return(s) PROVE XmmInv'
<1> DEFINE nils == [u \in Slots |-> Nil]
           junk == [r \in Regs |-> CHOOSE f \in Floats : TRUE]
<1>1. /\ ctx' = NoLinks /\ slots' = nils /\ ref' = nils /\ xmms' = junk
      /\ strayed' = "no" /\ alike' = TRUE /\ at = 0
      /\ target' = target /\ at' = at /\ conv' = conv /\ guards' = guards
      /\ agreed' = (strayed = "no" => BoxedIn(ctx, {s}, xmms, slots)[s] = ref[s])
  BY StoredIsBoxed DEF Return
<1>2. Ctx(ctx) /\ slots \in [Slots -> Values] /\ (Running => SoundIn(ctx, xmms, slots, ref))
  BY Now
<1>3. agreed' = TRUE
  <2> DEFINE S == {s}
  <2>1. s \in S OBVIOUS
  <2>2. agreed' = (strayed = "no" => BoxedIn(ctx, S, xmms, slots)[s] = ref[s]) BY <1>1
  <2> HIDE DEF S
  <2>3. strayed = "no" => SoundIn(ctx, xmms, slots, ref) BY <1>1, <1>2 DEF Running
  <2>4. strayed = "no" => BoxedIn(ctx, S, xmms, slots)[s] = ref[s]
    BY <2>1, <2>3, BoxedAgrees
  <2> QED BY <2>2, <2>4
<1>4. target = NoLinks /\ conv = {} /\ guards = {} BY <1>1 DEF XmmInv, MergeInv, Idle
<1>5. junk \in [Regs -> Nums] BY XmmAssumption
<1>6. nils \in [Slots -> Values] BY Numbers
<1>7. TypeOK' BY <1>1, <1>3, <1>4, <1>5, <1>6, CtxNoLinks DEF XmmInv, TypeOK, Ctx
<1>8. LinksMutual' BY <1>1, <1>4, CtxNoLinks DEF LinksMutual, Ctx
<1>9. Faithful'
  <2>1. SoundIn(ctx', xmms', slots', ref') BY <1>1, SoundNone
  <2>2. SoundWith(ctx', xmms', slots', ref', conv', guards')
    BY <1>1, <1>4, <1>5, <2>1, SoundNow, CtxNoLinks
  <2> QED BY <2>2 DEF Faithful, Sound, SoundWith
<1>10. MergeInv'
  <2>1. \A u \in Slots : ~(u < at') /\ ~Moved(u)'
    BY <1>1, SlotsType DEF Moved, Slots
  <2> QED BY <1>1, <1>4, <2>1
        DEF MergeInv, Idle, OnlyFollowed, LinksDropped, Waiting, MovedStored
<1>11. AlikeInv' /\ ReadsAgree' /\ UnaliasedMergesArrive'
  BY <1>1, <1>3 DEF AlikeInv, ReadsAgree, UnaliasedMergesArrive
<1> QED BY <1>7, <1>8, <1>9, <1>10, <1>11 DEF XmmInv
-----------------------------------------------------------------------------
(* Where branches meet: the steps of a merge.                               *)

(* What holds between two steps of a merge. *)
LEMMA Merging ==
    ASSUME XmmInv, at # 0
    PROVE  /\ SoundWith(ctx, xmms, slots, ref, conv, guards)
           /\ strayed = "no" /\ agreed = TRUE
           /\ LinksDropped /\ Waiting /\ MovedStored /\ (alike => AlikeInv)
           /\ conv \subseteq Slots /\ guards \subseteq Slots /\ alike \in BOOLEAN
           /\ at \in 0..(2 * N + 1)
<1>1. strayed = "no" BY DEF XmmInv, MergeInv, OnlyFollowed
<1>2. SoundWith(ctx, xmms, slots, ref, conv, guards)
  BY <1>1 DEF XmmInv, Faithful, Sound, SoundWith
<1> QED BY <1>1, <1>2 DEF XmmInv, MergeInv, TypeOK, ReadsAgree

(* What is to be shown of a step that a merge goes on with. *)
LEMMA AfterMove ==
    ASSUME XmmInv, at # 0, at' = at + 1, at < 2 * N + 1, Moving,
           Ctx(ctx'), xmms' \in [Regs -> Nums], slots' \in [Slots -> Values],
           conv' \subseteq Slots, guards' \subseteq Slots,
           SoundWith(ctx', xmms', slots', ref, conv', guards'),
           LinksDropped', Waiting', MovedStored', alike => AlikeInv'
    PROVE  XmmInv'
<1>1. /\ target' = target /\ alike' = alike /\ ref' = ref /\ strayed' = strayed
      /\ agreed' = agreed
  BY DEF Moving
<1>2. at' \in 0..(2 * N + 1) /\ at' # 0 BY Merging, SlotsType
<1>3. TypeOK' BY <1>1, <1>2 DEF XmmInv, TypeOK, Ctx
<1>4. LinksMutual' BY <1>1 DEF XmmInv, LinksMutual, Ctx
<1>5. Faithful' BY <1>1 DEF Faithful, Sound, SoundWith
<1>6. MergeInv' BY <1>1, <1>2, Merging DEF MergeInv, Idle, OnlyFollowed
<1>7. AlikeInv' BY <1>1 DEF AlikeInv
<1>8. ReadsAgree' /\ UnaliasedMergesArrive'
  BY <1>1 DEF XmmInv, ReadsAgree, UnaliasedMergesArrive
<1> QED BY <1>3, <1>4, <1>5, <1>6, <1>7, <1>8 DEF XmmInv

(* Begin, where slots that are written without a check were linked before,  *)
(* and slots are converted only if no register is shared.                   *)
LEMMA BeginStep ==
    ASSUME XmmInv, NEW c, Ctx(c), NEW t, Ctx(t), Begin(c, t),
           ref' \in [Slots -> Values], SoundIn(c, xmms, slots, ref'),
           \A u \in Slots : t.mode[u] = "RW" => Linked(c, u),
           \/ \A u \in Slots : Linked(t, u) => Linked(c, u)
           \/ \A u, v \in Slots : Linked(t, u) /\ Linked(t, v) /\ u # v => t.reg[u] # t.reg[v]
    PROVE  XmmInv'
<1>1. /\ ctx' = c /\ target' = t /\ alike' = AliasedAs(c, t) /\ at' = 1
      /\ conv' = {} /\ guards' = {} /\ agreed' = TRUE
      /\ xmms' = xmms /\ slots' = slots /\ strayed' = "no" /\ at = 0
  BY DEF Begin, Running
<1>2. xmms \in [Regs -> Nums] /\ slots \in [Slots -> Values] BY Now
<1>3. \A u \in Slots : ~(u < at') /\ ~Moved(u)'
  BY <1>1, SlotsType DEF Moved, Slots
<1>4. \A u \in Slots : Kept(u)' <=> Linked(t, u) /\ Linked(c, u)
  BY <1>1 DEF Kept
<1>5. TypeOK'
  <2>1. AliasedAs(c, t) \in BOOLEAN BY DEF AliasedAs
  <2> QED BY <1>1, <1>2, <2>1, SlotsType DEF TypeOK, Ctx
<1>6. LinksMutual' BY <1>1 DEF LinksMutual, Ctx
<1>7. Faithful'
  <2>1. SoundWith(ctx', xmms', slots', ref', conv', guards') BY <1>1, <1>2, SoundNow
  <2> QED BY <2>1 DEF Faithful, Sound, SoundWith
<1>8. MergeInv'
  BY <1>1, <1>3 DEF MergeInv, Idle, OnlyFollowed, LinksDropped, Waiting, MovedStored
<1>9. ASSUME AliasedAs(c, t) PROVE (Grouped /\ SameNumber)'
  <2>1. \A u, v \in Slots : Linked(c, u) /\ Linked(t, u) /\ Linked(c, v) /\ Linked(t, v)
                              => (c.reg[u] = c.reg[v] <=> t.reg[u] = t.reg[v])
    BY <1>9 DEF AliasedAs
  <2>2. Grouped' BY <1>1, <1>4, <2>1 DEF Grouped
  <2>3. SameNumber' BY <1>1, <1>4, <2>1 DEF SameNumber, SoundIn
  <2> QED BY <2>2, <2>3
<1>10. (Alone /\ InPlace /\ OwnInPlace /\ Checked)'
  BY <1>3 DEF Alone, InPlace, OwnInPlace, Checked
<1>11. AllKept' BY <1>1, <1>4 DEF AllKept, Own
<1>12. WritableKept' BY <1>1, <1>4 DEF WritableKept, Linked
<1>13. AlikeInv' BY <1>1, <1>9, <1>10, <1>11, <1>12 DEF AlikeInv
<1>14. ReadsAgree' /\ UnaliasedMergesArrive'
  BY <1>1 DEF ReadsAgree, UnaliasedMergesArrive
<1> QED BY <1>5, <1>6, <1>7, <1>8, <1>13, <1>14 DEF XmmInv

LEMMA MeetStep ==
    ASSUME XmmInv, NEW o \in MutualContexts, NEW first \in BOOLEAN, Meet(o, first)
    PROVE  XmmInv'
<1> DEFINE t == IF first THEN MergeEntries(ctx, o) ELSE MergeEntries(o, ctx)
<1>1. Begin(ctx, t) /\ ref' = ref BY DEF Meet
<1>2. Ctx(ctx) /\ ref \in [Slots -> Values] /\ SoundIn(ctx, xmms, slots, ref)
  BY <1>1, Now DEF Begin
<1>3. Ctx(o) BY CtxOfLinks
<1>4. /\ Ctx(t)
      /\ \A s \in Slots : t.mode[s] # "none" => ctx.mode[s] # "none"
  BY <1>2, <1>3, CtxMerge DEF MergeMode
<1> HIDE DEF t
<1>5. \A s \in Slots : t.mode[s] = "RW" => Linked(ctx, s) BY <1>4 DEF Linked
<1>6. \A s \in Slots : Linked(t, s) => Linked(ctx, s) BY <1>4 DEF Linked
<1> QED BY <1>1, <1>2, <1>4, <1>5, <1>6, BeginStep

LEMMA HeaderStep ==
    ASSUME XmmInv, NEW m \in [Slots -> Modes], NEW unused \in SUBSET Slots,
           ToHeader(m, unused), \A s \in Slots : m[s] = "RW" => Linked(ctx, s)
    PROVE  XmmInv'
<1> DEFINE c == DeallocAll(ctx, unused)
           t == LoopContext(m)
<1>1. /\ Begin(c, t) /\ \A s \in unused : m[s] = "none"
      /\ ref' = [s \in Slots |-> IF s \in unused THEN slots[s] ELSE ref[s]]
      /\ Cardinality({s \in Slots : m[s] # "none"}) \in Regs \cup {0}
  BY DEF ToHeader
<1>2. /\ Ctx(ctx) /\ slots \in [Slots -> Values] /\ ref \in [Slots -> Values]
      /\ SoundIn(ctx, xmms, slots, ref)
  BY <1>1, Now DEF Begin
<1>3. /\ Ctx(t) /\ t.mode = m
      /\ \A u, v \in Slots : Linked(t, u) /\ Linked(t, v) /\ u # v => t.reg[u] # t.reg[v]
  BY <1>1, CtxLoop
<1>4. ref' \in [Slots -> Values] BY <1>1, <1>2
<1>5. SoundIn(c, xmms, slots, ref')
  <2>1. \A s \in unused : slots[s] = ref'[s] BY <1>1
  <2>2. \A s \in Slots \ unused : slots[s] = slots[s] /\ ref'[s] = ref[s] BY <1>1
  <2> QED BY <1>2, <2>1, <2>2, SoundDealloc
<1>6. Ctx(c) /\ \A u \in Slots : c.mode[u] = IF u \in unused THEN "none" ELSE ctx.mode[u]
  BY <1>2, CtxDealloc
<1> HIDE DEF c, t
<1>7. \A u \in Slots : t.mode[u] = "RW" => Linked(c, u) BY <1>1, <1>3, <1>6 DEF Linked
<1> QED BY <1>1, <1>3, <1>4, <1>5, <1>6, <1>7, BeginStep

LEMMA EnterLoopStep ==
    ASSUME XmmInv, NEW m \in [Slots -> Modes], NEW unused \in SUBSET Slots,
           EnterLoop(m, unused)
    PROVE  XmmInv'
<1>1. \A s \in Slots : m[s] = "RW" => Linked(ctx, s)
  BY DEF EnterLoop, MergeMode, Linked
<1> QED BY <1>1, HeaderStep DEF EnterLoop

LEMMA BackEdgeStep ==
    ASSUME XmmInv, NEW m \in [Slots -> Modes], NEW unused \in SUBSET Slots,
           BackEdge(m, unused)
    PROVE  XmmInv'
BY HeaderStep DEF BackEdge

(* Unlink takes the link of a slot that target does not link, and nothing   *)
(* else of what stays.                                                      *)
LEMMA AfterUnlink ==
    ASSUME XmmInv, NEW s \in Slots, at = s, at' = at + 1, Moving,
           xmms' = xmms, conv' = conv, guards' = guards,
           Ctx(ctx'), slots' \in [Slots -> Values], SoundIn(ctx', xmms, slots', ref),
           \A u \in Slots : Linked(target, u) => /\ ctx'.reg[u] = ctx.reg[u]
                                                 /\ Linked(ctx', u) <=> Linked(ctx, u),
           \A u \in Slots : Linked(ctx', u) => Linked(ctx, u),
           ~Linked(target, s) => ~Linked(ctx', s)
    PROVE  XmmInv'
<1>1. s \in Nat /\ s # 0 /\ s <= N /\ N \in Nat BY SlotsType DEF Slots
<1>2. at # 0 /\ at < 2 * N + 1 BY <1>1
<1>3. \A u \in Slots : ~Moved(u) /\ ~Moved(u)' /\ (u < at' => u < at \/ u = s)
  BY <1>1 DEF Moved, Slots
<1>4. conv = {} /\ guards = {} BY <1>2, <1>3, Merging DEF Waiting
<1>5. target' = target /\ alike' = alike /\ ref' = ref BY DEF Moving
<1>6. xmms \in [Regs -> Nums] BY Now
<1>7. SoundWith(ctx', xmms', slots', ref, conv', guards') BY <1>4, <1>6, SoundNow
<1>8. LinksDropped' BY <1>2, <1>3, <1>5, Merging DEF LinksDropped
<1>9. Waiting' /\ MovedStored' BY <1>3, <1>4 DEF Waiting, MovedStored
<1>10. ASSUME alike PROVE AlikeInv'
  <2>1. Grouped /\ SameNumber /\ AllKept /\ WritableKept
    BY <1>2, <1>10, Merging DEF AlikeInv
  <2>2. \A u \in Slots : /\ Kept(u)' <=> Kept(u)
                         /\ Kept(u) => ctx'.reg[u] = ctx.reg[u]
    BY <1>4, <1>5 DEF Kept
  <2>3. Grouped' BY <1>5, <2>1, <2>2 DEF Grouped
  <2>4. SameNumber' BY <1>5, <2>1, <2>2 DEF SameNumber
  <2>5. AllKept' BY <1>5, <2>1, <2>2 DEF AllKept, Own
  <2>6. WritableKept' BY <1>5, <2>1, <2>2 DEF WritableKept
  <2>7. (Alone /\ InPlace /\ OwnInPlace /\ Checked)'
    BY <1>3 DEF Alone, InPlace, OwnInPlace, Checked
  <2> QED BY <2>3, <2>4, <2>5, <2>6, <2>7 DEF AlikeInv
<1> QED BY <1>2, <1>4, <1>6, <1>7, <1>8, <1>9, <1>10, AfterMove

LEMMA UnlinkStep ==
    ASSUME XmmInv, NEW s \in Slots, Unlink(s) PROVE XmmInv'
<1>1. /\ at = s /\ at' = at + 1 /\ Moving
      /\ xmms' = xmms /\ conv' = conv /\ guards' = guards
  BY DEF Unlink
<1>2. s \in Nat /\ s # 0 /\ s <= N /\ N \in Nat BY SlotsType DEF Slots
<1>3. /\ Ctx(ctx) /\ xmms \in [Regs -> Nums] /\ slots \in [Slots -> Values]
      /\ ref \in [Slots -> Values]
  BY Now
<1>4. SoundIn(ctx, xmms, slots, ref)
  <2>1. \A u \in Slots : ~Moved(u) BY <1>1, <1>2 DEF Moved, Slots
  <2>2. conv = {} /\ guards = {} BY <1>1, <1>2, <2>1, Merging DEF Waiting
  <2> QED BY <1>1, <1>2, <1>3, <2>2, Merging, SoundNow
<1>5. CASE Linked(target, s) \/ ~Linked(ctx, s)
  <2>1. ctx' = ctx /\ slots' = slots BY <1>5 DEF Unlink
  <2> QED BY <1>1, <1>3, <1>4, <1>5, <2>1, AfterUnlink
<1>6. CASE ~Linked(target, s) /\ ctx.mode[s] = "R"
  <2> DEFINE S == {s}
  <2>1. ctx' = DeallocAll(ctx, S) /\ slots' = slots BY <1>6 DEF Unlink, Linked, DeallocXmm
  <2>2. S \in SUBSET Slots /\ \A u \in S : slots[u] = ref[u] BY <1>4, <1>6 DEF SoundIn
  <2>3. /\ Ctx(ctx')
        /\ \A u \in Slots : ctx'.mode[u] = IF u = s THEN "none" ELSE ctx.mode[u]
        /\ \A u \in Slots : u # s => ctx'.reg[u] = ctx.reg[u]
    BY <1>3, <2>1, <2>2, CtxDealloc
  <2>4. SoundIn(ctx', xmms, slots', ref)
    <3> HIDE DEF S
    <3> QED BY <1>3, <1>4, <2>1, <2>2, SoundDealloc
  <2> QED BY <1>1, <1>3, <1>6, <2>1, <2>3, <2>4, AfterUnlink DEF Linked
<1>7. CASE ~Linked(target, s) /\ Linked(ctx, s) /\ ctx.mode[s] # "R"
  <2> DEFINE S == {s}
             mates == ctx.xmm[ctx.reg[s]]
             c == WriteBack(ctx, mates)
             d == [ctx EXCEPT !.mode = [u \in Slots |-> IF u \in mates THEN "R" ELSE ctx.mode[u]]]
             sl == BoxedIn(ctx, mates, xmms, slots)
  <2>1. /\ ctx' = DeallocAll(d, S)
        /\ slots' = [u \in Slots |-> IF u \in mates THEN BoxOf[xmms[ctx.reg[s]]] ELSE slots[u]]
    BY <1>7 DEF Unlink, DeallocXmm
  <2>2. ctx.mode[s] = "RW" BY <1>3, <1>7, CtxType DEF Modes, Linked
  <2>3. ctx.reg[s] \in Regs BY <1>3, <1>7, CtxType
  <2>4. \A u \in mates : /\ u \in Slots /\ Linked(ctx, u) /\ ctx.reg[u] = ctx.reg[s]
                         /\ ctx.mode[u] \in {"R", "RW"}
    BY <1>3, <2>3, CtxType DEF Modes, Linked
  <2>5. d = c
    <3>1. [u \in Slots |-> IF u \in mates THEN "R" ELSE ctx.mode[u]]
            = [u \in Slots |-> IF u \in mates /\ ctx.mode[u] = "RW" THEN "R" ELSE ctx.mode[u]]
      BY <2>4
    <3> QED BY <3>1 DEF WriteBack
  <2>6. slots' = sl
    <3>1. ref[s] \in Floats BY <1>4, <2>2 DEF SoundIn
    <3>2. \A u \in mates : BoxOf[xmms[ctx.reg[s]]] = ref[u]
      BY <1>4, <1>7, <2>4, <3>1, Numbers DEF SoundIn
    <3>3. \A u \in mates : ctx.mode[u] # "RW" => slots[u] = ref[u] BY <1>4, <2>4 DEF SoundIn
    <3>4. \A u \in Slots : (IF u \in mates THEN BoxOf[xmms[ctx.reg[s]]] ELSE slots[u])
                         = (IF u \in mates /\ ctx.mode[u] = "RW" THEN BoxOf[xmms[ctx.reg[u]]] ELSE slots[u])
      BY <2>4, <3>2, <3>3
    <3> QED BY <2>1, <3>4 DEF BoxedIn
  <2>7. SoundIn(c, xmms, sl, ref) /\ sl \in [Slots -> Values]
    BY <1>3, <1>4, SoundWriteBack, BoxedType
  <2>8. /\ Ctx(c) /\ c.reg = ctx.reg /\ c.mode[s] = "R"
        /\ \A u \in Slots : Linked(c, u) <=> Linked(ctx, u)
    <3>1. s \in mates BY <1>3, <1>7, <2>3, CtxType
    <3> HIDE DEF mates
    <3> QED BY <1>3, <2>2, <3>1, CtxWriteBack DEF Linked
  <2> HIDE DEF c, d, sl
  <2>9. S \in SUBSET Slots /\ \A u \in S : sl[u] = ref[u] BY <2>7, <2>8 DEF SoundIn
  <2>10. /\ Ctx(ctx')
         /\ \A u \in Slots : ctx'.mode[u] = IF u = s THEN "none" ELSE c.mode[u]
         /\ \A u \in Slots : u # s => ctx'.reg[u] = c.reg[u]
    BY <2>1, <2>5, <2>8, <2>9, CtxDealloc
  <2>11. SoundIn(ctx', xmms, slots', ref)
    <3> HIDE DEF S
    <3> QED BY <1>3, <2>1, <2>5, <2>6, <2>7, <2>8, <2>9, SoundDealloc
  <2> QED BY <1>1, <1>7, <2>6, <2>7, <2>8, <2>10, <2>11, AfterUnlink DEF Linked
<1> QED BY <1>5, <1>6, <1>7

(* Transfer: wherever the numbers are moved to, the links follow them, no   *)
(* two slots get to share a register, and only two registers are touched.   *)
LEMMA Transferred ==
    ASSUME NEW s \in Slots, Ctx(ctx), Linked(ctx, s), xmms \in [Regs -> Nums],
           NEW r \in Regs, NEW m \in {"R", "RW"}, Transfer(s, ctx.reg[s], r, m)
    PROVE  /\ Ctx(ctx') /\ xmms' \in [Regs -> Nums]
           /\ ctx'.reg[s] = r /\ ctx'.mode[s] \in {m, ctx.mode[s]}
           /\ ctx'.mode[s] # m => ctx'.mode[s] = ctx.mode[s]
           /\ \A u \in Slots : u # s => ctx'.mode[u] = ctx.mode[u]
           /\ \A u \in Slots : Linked(ctx, u) => xmms'[ctx'.reg[u]] = xmms[ctx.reg[u]]
           /\ \A u, v \in Slots : Linked(ctx, u) /\ Linked(ctx, v) /\ ctx'.reg[u] = ctx'.reg[v]
                                    => ctx.reg[u] = ctx.reg[v]
           /\ \A u \in Slots : u # s /\ Linked(ctx, u) /\ ctx.reg[u] # ctx.reg[s] /\ ctx.reg[u] # r
                                 => ctx'.reg[u] = ctx.reg[u]
           /\ \A u \in Slots : Linked(ctx, u) /\ ctx'.reg[u] # ctx.reg[s] /\ ctx'.reg[u] # r
                                 => ctx.reg[u] = ctx'.reg[u]
           /\ \A q \in Regs : q # ctx.reg[s] /\ q # r => xmms'[q] = xmms[q]
<1> DEFINE l == ctx.reg[s]
<1>1. l \in Regs /\ m \in Modes /\ m # "none" BY CtxType DEF Modes
<1>2. /\ ctx.mode \in [Slots -> Modes] /\ ctx.reg \in [Slots -> Regs \cup {0}]
      /\ ctx.xmm \in [Regs -> SUBSET Slots]
      /\ ctx = [mode |-> ctx.mode, reg |-> ctx.reg, xmm |-> ctx.xmm]
  BY DEF Ctx, Contexts
<1>3. CASE l = r
  <2> DEFINE mode == [ctx.mode EXCEPT ![s] = m]
  <2>1. ctx' = [mode |-> mode, reg |-> ctx.reg, xmm |-> ctx.xmm] /\ xmms' = xmms
    BY <1>2, <1>3 DEF Transfer
  <2>2. mode \in [Slots -> Modes] /\ \A u \in Slots : mode[u] = IF u = s THEN m ELSE ctx.mode[u]
    BY <1>1, <1>2
  <2> HIDE DEF mode
  <2>3. Ctx([mode |-> mode, reg |-> ctx.reg, xmm |-> ctx.xmm])
    <3>1. \A u \in Slots : mode[u] # "none" <=> ctx.reg[u] \in Regs
      BY <1>1, <2>2, CtxType DEF Linked
    <3>2. \A u \in Slots, q \in Regs : u \in ctx.xmm[q] <=> (mode[u] # "none" /\ ctx.reg[u] = q)
      BY <1>1, <2>2, CtxType DEF Linked
    <3> QED BY <1>2, <2>2, <3>1, <3>2, CtxIntro
  <2> QED BY <1>3, <2>1, <2>2, <2>3
<1>4. CASE l # r /\ ctx.xmm[r] = {}
  <2> DEFINE e == DeallocXmm(ctx, s)
  <2>1. ctx' = Link(e, s, m, r) /\ xmms' = [xmms EXCEPT ![r] = xmms[l]]
    BY <1>4 DEF Transfer
  <2>2. /\ Ctx(e) /\ e.mode[s] = "none" /\ e.xmm[r] = {}
        /\ \A u \in Slots : u # s => e.mode[u] = ctx.mode[u] /\ e.reg[u] = ctx.reg[u]
    BY <1>4, CtxDealloc DEF DeallocXmm
  <2> HIDE DEF e
  <2>3. Fresh(e, ctx', s, m) BY <2>1, <2>2, FreshLink DEF Linked
  <2>4. ctx'.reg[s] = r BY <1>1, <2>1, <2>2, CtxLink DEF Linked
  <2>5. /\ Ctx(ctx') /\ ctx'.mode[s] = m
        /\ \A u \in Slots : u # s => ctx'.mode[u] = ctx.mode[u] /\ ctx'.reg[u] = ctx.reg[u]
    BY <2>2, <2>3 DEF Fresh
  <2>6. \A u \in Slots : u # s /\ Linked(ctx, u) => ctx.reg[u] \in Regs /\ ctx.reg[u] # r
    BY <1>4, CtxType
  <2>7. xmms' \in [Regs -> Nums] /\ xmms'[r] = xmms[l] /\ \A q \in Regs : q # r => xmms'[q] = xmms[q]
    BY <1>1, <2>1
  <2> QED BY <1>1, <2>4, <2>5, <2>6, <2>7
<1>5. CASE l # r /\ ctx.xmm[r] # {}
  <2>1. ctx' = XmmSwap(ctx, l, r) /\ xmms' = [xmms EXCEPT ![l] = xmms[r], ![r] = xmms[l]]
    BY <1>5 DEF Transfer
  <2>2. /\ Ctx(ctx') /\ ctx'.mode = ctx.mode
        /\ \A u \in Slots : ctx'.reg[u] = IF ctx.reg[u] = l THEN r
                                          ELSE IF ctx.reg[u] = r THEN l ELSE ctx.reg[u]
    BY <1>1, <2>1, CtxSwap
  <2>3. /\ xmms' \in [Regs -> Nums] /\ xmms'[r] = xmms[l] /\ xmms'[l] = xmms[r]
        /\ \A q \in Regs : q # r /\ q # l => xmms'[q] = xmms[q]
    BY <1>1, <1>5, <2>1
  <2>4. \A u \in Slots : Linked(ctx, u) => ctx.reg[u] \in Regs BY CtxType
  <2> HIDE DEF l
  <2>5. \A u \in Slots : Linked(ctx, u) => xmms'[ctx'.reg[u]] = xmms[ctx.reg[u]]
    BY <2>2, <2>3, <2>4
  <2>6. ctx'.reg[s] = r BY <2>2 DEF l
  <2>7. \A u, v \in Slots : Linked(ctx, u) /\ Linked(ctx, v) /\ ctx'.reg[u] = ctx'.reg[v]
                              => ctx.reg[u] = ctx.reg[v]
    BY <1>5, <2>2
  <2>8. \A u \in Slots : ctx.reg[u] # l /\ ctx.reg[u] # r => ctx'.reg[u] = ctx.reg[u]
    BY <2>2
  <2>9. \A u \in Slots : ctx'.reg[u] # l /\ ctx'.reg[u] # r => ctx.reg[u] = ctx'.reg[u]
    BY <2>2
  <2> QED BY <2>2, <2>3, <2>5, <2>6, <2>7, <2>8, <2>9 DEF l
<1> QED BY <1>3, <1>4, <1>5

(* What every move has in common: which slots have been moved. *)
LEMMA MovedNow ==
    ASSUME XmmInv, NEW s \in Slots, at = N + s, at' = at + 1
    PROVE  /\ at # 0 /\ at < 2 * N + 1 /\ ~Moved(s)
           /\ \A u \in Slots : Moved(u)' <=> Moved(u) \/ u = s
           /\ \A u \in Slots : u < at /\ u < at'
<1>1. s \in Nat /\ s # 0 /\ s <= N /\ N \in Nat BY SlotsType DEF Slots
<1> QED BY <1>1 DEF Moved, Slots

LEMMA MoveNone ==
    ASSUME XmmInv, NEW s \in Slots, Move(s), ~Linked(target, s) PROVE XmmInv'
<1>1. /\ at = N + s /\ at' = at + 1 /\ Moving
      /\ ctx' = ctx /\ xmms' = xmms /\ slots' = slots /\ conv' = conv /\ guards' = guards
      /\ target' = target /\ ref' = ref /\ target.mode[s] = "none"
  BY DEF Move, Moving, Linked
<1>2. /\ Ctx(ctx) /\ xmms \in [Regs -> Nums] /\ slots \in [Slots -> Values]
  BY Now
<1>3. /\ SoundWith(ctx, xmms, slots, ref, conv, guards)
      /\ LinksDropped /\ Waiting /\ MovedStored /\ (alike => AlikeInv)
      /\ conv \subseteq Slots /\ guards \subseteq Slots
  BY <1>1, MovedNow, Merging
<1>4. ~Linked(ctx, s) /\ slots[s] = ref[s]
  BY <1>1, <1>3, MovedNow DEF LinksDropped, Linked, SoundWith
<1>5. \A u \in Slots : Kept(u)' <=> Kept(u) BY <1>1 DEF Kept
<1>6. LinksDropped' BY <1>1, <1>3, MovedNow DEF LinksDropped
<1>7. Waiting' BY <1>1, <1>3, <1>5, MovedNow DEF Waiting
<1>8. MovedStored' BY <1>1, <1>3, <1>4, MovedNow DEF MovedStored
<1>9. ASSUME alike PROVE AlikeInv'
  <2>1. /\ Grouped /\ SameNumber /\ Alone /\ InPlace /\ OwnInPlace
        /\ AllKept /\ WritableKept /\ Checked
    BY <1>1, <1>3, <1>9, MovedNow DEF AlikeInv
  <2>2. ~Kept(s) BY DEF Kept
  <2>3. (Grouped /\ SameNumber)' BY <1>1, <1>5, <2>1 DEF Grouped, SameNumber
  <2>4. (Alone /\ InPlace)' BY <1>1, <1>5, <2>1, <2>2, MovedNow DEF Alone, InPlace
  <2>5. (OwnInPlace /\ AllKept)'
    BY <1>1, <1>5, <2>1, <2>2, MovedNow DEF OwnInPlace, AllKept, Own
  <2>6. (WritableKept /\ Checked)'
    BY <1>1, <1>5, <2>1, <2>2, MovedNow DEF WritableKept, Checked
  <2> QED BY <2>3, <2>4, <2>5, <2>6 DEF AlikeInv
<1> QED BY <1>1, <1>2, <1>3, <1>6, <1>7, <1>8, <1>9, MovedNow, AfterMove

(* A slot without a register gets one, for the conversion to come. *)
LEMMA MoveLink ==
    ASSUME XmmInv, NEW s \in Slots, Move(s), Linked(target, s), ~Linked(ctx, s) PROVE XmmInv'
<1>1. /\ at = N + s /\ at' = at + 1 /\ Moving
      /\ ctx' = Link(ctx, s, "R", target.reg[s]) /\ xmms' = xmms /\ slots' = slots
      /\ conv' = conv \cup {s} /\ guards' = guards
      /\ target' = target /\ ref' = ref /\ ctx.mode[s] = "none"
  BY DEF Move, Moving, Linked
<1>2. /\ Ctx(ctx) /\ Ctx(target) /\ xmms \in [Regs -> Nums] /\ slots \in [Slots -> Values]
  BY Now
<1>3. /\ SoundWith(ctx, xmms, slots, ref, conv, guards)
      /\ LinksDropped /\ Waiting /\ MovedStored /\ (alike => AlikeInv)
      /\ conv \subseteq Slots /\ guards \subseteq Slots
  BY <1>1, MovedNow, Merging
<1>4. target.reg[s] \in Regs BY <1>2, CtxType
<1>5. /\ Ctx(ctx') /\ ctx'.mode[s] = "R"
      /\ \A u \in Slots : u # s => ctx'.mode[u] = ctx.mode[u] /\ ctx'.reg[u] = ctx.reg[u]
  BY <1>1, <1>2, <1>4, CtxLink
<1>6. ~Kept(s) /\ ~Kept(s)' /\ s \notin guards
  BY <1>1, <1>3 DEF Kept, Waiting
<1>7. \A u \in Slots : /\ Kept(u)' <=> Kept(u)
                       /\ Kept(u) => u # s /\ ctx'.reg[u] = ctx.reg[u]
  BY <1>1, <1>5, <1>6 DEF Kept, Linked
<1>8. slots[s] = ref[s] BY <1>1, <1>3 DEF SoundWith
<1>9. SoundWith(ctx', xmms', slots', ref, conv', guards')
  <2>1. \A u \in Slots : ctx'.mode[u] = "RW" /\ u \notin guards
                           => BoxOf[xmms[ctx'.reg[u]]] = ref[u]
    BY <1>3, <1>5 DEF SoundWith
  <2>2. \A u \in Slots : ctx'.mode[u] # "RW" \/ u \in guards => slots[u] = ref[u]
    BY <1>3, <1>5, <1>8 DEF SoundWith
  <2>3. ASSUME NEW u \in Slots, Linked(ctx', u), u \notin conv \cup {s}
        PROVE  /\ ref[u] \in Floats \cup Ints
               /\ BoxOf[xmms[ctx'.reg[u]]] = NumberOf(ref[u])
               /\ \A t \in ctx'.xmm[ctx'.reg[u]] \ (conv \cup {s}) : ref[t] \in Floats => ref[u] \in Floats
    <3>1. u # s /\ Linked(ctx, u) /\ u \notin conv /\ ctx'.reg[u] = ctx.reg[u] /\ ctx.reg[u] \in Regs
      BY <1>2, <1>5, <2>3, CtxType DEF Linked
    <3>2. \A t \in ctx'.xmm[ctx'.reg[u]] : t # s => t \in ctx.xmm[ctx.reg[u]]
      BY <1>2, <1>5, <3>1, CtxType DEF Linked
    <3> QED BY <1>3, <3>1, <3>2 DEF SoundWith
  <2> QED BY <1>1, <2>1, <2>2, <2>3 DEF SoundWith
<1>10. LinksDropped'
  BY <1>1, <1>3, <1>5, MovedNow DEF LinksDropped, Linked
<1>11. Waiting' BY <1>1, <1>3, <1>5, <1>6, <1>7, MovedNow DEF Waiting
<1>12. MovedStored' BY <1>1, <1>3, <1>5, <1>8, MovedNow DEF MovedStored, Linked
<1>13. ASSUME alike PROVE AlikeInv'
  <2>1. /\ Grouped /\ SameNumber /\ Alone /\ InPlace /\ OwnInPlace
        /\ AllKept /\ WritableKept /\ Checked
    BY <1>1, <1>3, <1>13, MovedNow DEF AlikeInv
  <2>2. (Grouped /\ SameNumber)' BY <1>1, <1>7, <2>1 DEF Grouped, SameNumber
  <2>3. (Alone /\ InPlace)' BY <1>1, <1>7, <2>1, MovedNow DEF Alone, InPlace
  <2>4. (OwnInPlace /\ AllKept)'
    BY <1>1, <1>7, <2>1, MovedNow DEF OwnInPlace, AllKept, Own
  <2>5. WritableKept' BY <1>1, <1>7, <2>1 DEF WritableKept
  <2>6. target.mode[s] # "RW" BY <1>6, <2>1 DEF WritableKept
  <2>7. Checked' BY <1>1, <1>5, <2>1, <2>6, MovedNow DEF Checked
  <2> QED BY <2>2, <2>3, <2>4, <2>5, <2>7 DEF AlikeInv
<1>14. conv' \subseteq Slots BY <1>1, <1>3
<1> QED BY <1>1, <1>2, <1>3, <1>5, <1>9, <1>10, <1>11, <1>12, <1>13, <1>14, MovedNow, AfterMove

(* A slot's number moves to the register it will have.  No register that a  *)
(* moved slot was given before is touched, but the one they will share.     *)
LEMMA MoveTransfer ==
    ASSUME XmmInv, NEW s \in Slots, Move(s), Linked(target, s), Linked(ctx, s) PROVE XmmInv'
<1> DEFINE l == ctx.reg[s]
           r == target.reg[s]
           m == target.mode[s]
<1>1. /\ at = N + s /\ at' = at + 1 /\ Moving /\ Transfer(s, l, r, m)
      /\ slots' = IF m = "R" THEN Stored(ctx, {s}) ELSE slots
      /\ conv' = conv
      /\ guards' = IF m = "RW" /\ ctx.mode[s] = "R" THEN guards \cup {s} ELSE guards
      /\ target' = target /\ ref' = ref
  BY DEF Move, Moving
<1>2. /\ Ctx(ctx) /\ Ctx(target) /\ xmms \in [Regs -> Nums] /\ slots \in [Slots -> Values]
  BY Now
<1>3. /\ SoundWith(ctx, xmms, slots, ref, conv, guards)
      /\ LinksDropped /\ Waiting /\ MovedStored /\ (alike => AlikeInv)
      /\ conv \subseteq Slots /\ guards \subseteq Slots
  BY <1>1, MovedNow, Merging
<1>4. r \in Regs /\ m \in {"R", "RW"} /\ l \in Regs /\ ctx.mode[s] \in {"R", "RW"}
  BY <1>2, CtxType DEF Modes, Linked
<1>5. s \notin conv /\ s \notin guards BY <1>1, <1>3, MovedNow DEF Waiting
<1>6. /\ Ctx(ctx') /\ xmms' \in [Regs -> Nums]
      /\ ctx'.reg[s] = r /\ ctx'.mode[s] \in {m, ctx.mode[s]}
      /\ \A u \in Slots : u # s => ctx'.mode[u] = ctx.mode[u]
      /\ \A u \in Slots : Linked(ctx, u) => xmms'[ctx'.reg[u]] = xmms[ctx.reg[u]]
      /\ \A u, v \in Slots : Linked(ctx, u) /\ Linked(ctx, v) /\ ctx'.reg[u] = ctx'.reg[v]
                               => ctx.reg[u] = ctx.reg[v]
      /\ \A u \in Slots : u # s /\ Linked(ctx, u) /\ ctx.reg[u] # l /\ ctx.reg[u] # r
                            => ctx'.reg[u] = ctx.reg[u]
      /\ \A u \in Slots : Linked(ctx, u) /\ ctx'.reg[u] # l /\ ctx'.reg[u] # r
                            => ctx.reg[u] = ctx'.reg[u]
      /\ \A q \in Regs : q # l /\ q # r => xmms'[q] = xmms[q]
  <2> HIDE DEF m, r
  <2> QED BY <1>1, <1>2, <1>4, Transferred
<1>7. /\ slots' \in [Slots -> Values] /\ \A u \in Slots : u # s => slots'[u] = slots[u]
      /\ slots'[s] = IF m = "R" /\ ctx.mode[s] = "RW" THEN BoxOf[xmms[l]] ELSE slots[s]
  <2>1. Stored(ctx, {s}) = BoxedIn(ctx, {s}, xmms, slots) BY StoredIsBoxed
  <2>2. Stored(ctx, {s}) \in [Slots -> Values] BY <1>2, <2>1, BoxedType
  <2>3. \A u \in Slots : Stored(ctx, {s})[u] = IF u = s /\ ctx.mode[s] = "RW" THEN BoxOf[xmms[l]]
                                              ELSE slots[u]
    BY DEF Stored
  <2> HIDE DEF m, l
  <2> QED BY <1>1, <1>2, <2>2, <2>3
<1>8. \A u \in Slots : /\ Linked(ctx', u) <=> Linked(ctx, u)
                       /\ Kept(u)' <=> Kept(u)
                       /\ Kept(u) => Linked(ctx, u) /\ u \notin conv
  BY <1>1, <1>4, <1>6 DEF Linked, Kept
<1>9. Kept(s) BY <1>5 DEF Kept
<1>10. m = "R" => slots'[s] = ref[s]
  BY <1>3, <1>4, <1>5, <1>7 DEF SoundWith
<1>11. ctx.mode[s] = "R" => slots'[s] = ref[s]
  BY <1>3, <1>7 DEF SoundWith
<1>12. ctx'.mode[s] = "RW" /\ s \notin guards' => ctx.mode[s] = "RW"
  BY <1>1, <1>4, <1>6
<1>13. ctx'.mode[s] # "RW" \/ s \in guards' => m = "R" \/ ctx.mode[s] = "R"
  BY <1>1, <1>4, <1>5, <1>6
<1>14. \A u \in Slots : u # s => (u \in guards' <=> u \in guards) BY <1>1
<1> HIDE DEF l, m, r
<1>15. SoundWith(ctx', xmms', slots', ref, conv', guards')
  <2>1. \A u \in Slots : ctx'.mode[u] = "RW" /\ u \notin guards'
                           => BoxOf[xmms'[ctx'.reg[u]]] = ref[u]
    BY <1>3, <1>5, <1>6, <1>8, <1>12, <1>14 DEF SoundWith, Linked
  <2>2. \A u \in Slots : ctx'.mode[u] # "RW" \/ u \in guards' => slots'[u] = ref[u]
    BY <1>3, <1>6, <1>7, <1>10, <1>11, <1>13, <1>14 DEF SoundWith
  <2>3. ASSUME NEW u \in Slots, Linked(ctx', u), u \notin conv
        PROVE  /\ ref[u] \in Floats \cup Ints
               /\ BoxOf[xmms'[ctx'.reg[u]]] = NumberOf(ref[u])
               /\ \A t \in ctx'.xmm[ctx'.reg[u]] \ conv : ref[t] \in Floats => ref[u] \in Floats
    <3>1. Linked(ctx, u) /\ ctx.reg[u] \in Regs /\ ctx'.reg[u] \in Regs
      BY <1>2, <1>6, <1>8, <2>3, CtxType
    <3>2. \A t \in ctx'.xmm[ctx'.reg[u]] : t \in ctx.xmm[ctx.reg[u]]
      <4> TAKE t \in ctx'.xmm[ctx'.reg[u]]
      <4>1. t \in Slots /\ Linked(ctx', t) /\ ctx'.reg[t] = ctx'.reg[u] BY <1>6, <3>1, CtxType
      <4>2. Linked(ctx, t) /\ ctx.reg[t] = ctx.reg[u] BY <1>6, <1>8, <3>1, <4>1
      <4> QED BY <1>2, <3>1, <4>1, <4>2, CtxType
    <3> QED BY <1>3, <1>6, <2>3, <3>1, <3>2 DEF SoundWith
  <2> QED BY <1>1, <2>1, <2>2, <2>3 DEF SoundWith
<1>16. LinksDropped' BY <1>1, <1>3, <1>8, MovedNow DEF LinksDropped
<1>17. Waiting'
  <2>1. \A u \in conv : Moved(u)' /\ Linked(target, u) /\ ctx'.mode[u] = "R" /\ u \notin guards'
    BY <1>3, <1>5, <1>6, <1>14, MovedNow, <1>1 DEF Waiting
  <2>2. \A u \in guards' : Moved(u)' /\ target.mode[u] = "RW" /\ Kept(u)'
    BY <1>1, <1>3, <1>8, <1>9, MovedNow DEF Waiting, m
  <2> QED BY <1>1, <2>1, <2>2 DEF Waiting
<1>18. MovedStored'
  BY <1>1, <1>3, <1>4, <1>7, <1>8, <1>10, MovedNow DEF MovedStored, m
<1>19. ASSUME alike PROVE AlikeInv'
  <2>1. /\ Grouped /\ SameNumber /\ Alone /\ InPlace /\ OwnInPlace
        /\ AllKept /\ WritableKept /\ Checked
    BY <1>1, <1>3, <1>19, MovedNow DEF AlikeInv
  <2>2. Grouped' BY <1>1, <1>6, <1>8, <2>1 DEF Grouped
  <2>3. SameNumber' BY <1>1, <1>6, <1>8, <2>1 DEF SameNumber
  <2>4. \A u \in Slots : Kept(u) /\ Moved(u) /\ target.reg[u] = l => l = r
    BY <1>9, <2>1 DEF Alone, l, r
  <2>5. ASSUME NEW u \in Slots, Kept(u), Moved(u), target.reg[u] # r
        PROVE  target.reg[u] # l /\ u # s
    BY <1>1, <2>4, <2>5, MovedNow
  <2>6. Alone'
    <3>1. ASSUME NEW u \in Slots, NEW v \in Slots, Kept(u), Kept(v), Moved(u)',
                 ctx'.reg[v] = target.reg[u]
          PROVE  target.reg[v] = target.reg[u]
      <4>1. CASE target.reg[u] = r
        <5>1. ctx.reg[v] = ctx.reg[s] BY <1>6, <1>8, <1>9, <3>1, <4>1
        <5> QED BY <1>9, <2>1, <3>1, <4>1, <5>1 DEF Grouped, r
      <4>2. CASE target.reg[u] # r
        <5>1. u # s BY <4>2 DEF r
        <5>2. Moved(u) BY <1>1, <3>1, <5>1, MovedNow
        <5>3. ctx.reg[v] = target.reg[u] BY <1>6, <1>8, <2>5, <3>1, <4>2, <5>2
        <5> QED BY <2>1, <3>1, <5>2, <5>3 DEF Alone
      <4> QED BY <4>1, <4>2
    <3> QED BY <1>1, <1>8, <3>1 DEF Alone
  <2>7. InPlace'
    <3>1. ASSUME NEW u \in Slots, Kept(u), Moved(u)'
          PROVE  xmms'[target.reg[u]] = xmms'[ctx'.reg[u]]
      <4>1. CASE target.reg[u] = r
        <5>1. xmms[ctx.reg[u]] = xmms[ctx.reg[s]]
          BY <1>9, <2>1, <3>1, <4>1 DEF SameNumber, r
        <5> QED BY <1>6, <1>8, <1>9, <3>1, <4>1, <5>1
      <4>2. CASE target.reg[u] # r
        <5>1. u # s BY <4>2 DEF r
        <5>2. Moved(u) BY <1>1, <3>1, <5>1, MovedNow
        <5>3. target.reg[u] \in Regs BY <1>2, <3>1, CtxType DEF Kept
        <5>4. xmms'[target.reg[u]] = xmms[target.reg[u]] BY <1>6, <2>5, <3>1, <4>2, <5>2, <5>3
        <5> QED BY <1>6, <1>8, <2>1, <3>1, <5>2, <5>4 DEF InPlace
      <4> QED BY <4>1, <4>2
    <3> QED BY <1>1, <1>8, <3>1 DEF InPlace
  <2>8. OwnInPlace'
    <3>1. ASSUME Own, NEW u \in Slots, Kept(u), Moved(u)' PROVE ctx'.reg[u] = target.reg[u]
      <4>1. CASE u = s BY <1>6, <4>1 DEF r
      <4>2. CASE u # s
        <5>1. Moved(u) BY <1>1, <3>1, <4>2, MovedNow
        <5>2. target.reg[u] # r BY <1>9, <3>1, <4>2 DEF Own, Kept, r
        <5>3. ctx.reg[u] = target.reg[u] BY <2>1, <3>1, <5>1 DEF OwnInPlace
        <5> QED BY <1>6, <1>8, <2>5, <3>1, <4>2, <5>1, <5>2, <5>3
      <4> QED BY <4>1, <4>2
    <3> QED BY <1>1, <1>8, <3>1 DEF OwnInPlace, Own
  <2>9. (AllKept /\ WritableKept)' BY <1>1, <1>8, <2>1 DEF AllKept, WritableKept, Own
  <2>10. Checked'
    <3>1. ASSUME NEW u \in Slots, Moved(u)', target.mode[u] = "RW", u \notin guards'
          PROVE  ctx'.mode[u] = "RW"
      <4>1. CASE u = s BY <1>1, <1>4, <1>6, <3>1, <4>1 DEF m
      <4>2. CASE u # s BY <1>1, <1>6, <1>14, <2>1, <3>1, <4>2, MovedNow DEF Checked
      <4> QED BY <4>1, <4>2
    <3> QED BY <1>1, <3>1 DEF Checked
  <2> QED BY <2>2, <2>3, <2>6, <2>7, <2>8, <2>9, <2>10 DEF AlikeInv
<1>20. conv' \subseteq Slots /\ guards' \subseteq Slots BY <1>1, <1>3
<1> QED BY <1>1, <1>6, <1>7, <1>15, <1>16, <1>17, <1>18, <1>19, <1>20, MovedNow, AfterMove

LEMMA MoveStep ==
    ASSUME XmmInv, NEW s \in Slots, Move(s) PROVE XmmInv'
BY MoveNone, MoveLink, MoveTransfer

(* What is to be shown of the end of a merge. *)
LEMMA AfterMerge ==
    ASSUME XmmInv, target' = NoLinks, at' = 0, conv' = {}, guards' = {},
           alike' = alike, agreed' = TRUE,
           Ctx(ctx'), xmms' \in [Regs -> Nums], slots' \in [Slots -> Values],
           ref' \in [Slots -> Values], strayed' \in {"no", "guard", "merge"},
           strayed' = "no" => SoundIn(ctx', xmms', slots', ref'),
           strayed' = "merge" => ~alike
    PROVE  XmmInv'
<1>1. TypeOK' BY SlotsType, CtxNoLinks DEF XmmInv, TypeOK, Ctx
<1>2. LinksMutual' BY CtxNoLinks DEF LinksMutual, Ctx
<1>3. Faithful'
  <2>1. strayed' = "no" => SoundWith(ctx', xmms', slots', ref', conv', guards') BY SoundNow
  <2> QED BY <2>1 DEF Faithful, Sound, SoundWith
<1>4. MergeInv'
  <2>1. \A u \in Slots : ~(u < at') /\ ~Moved(u)' BY SlotsType DEF Moved, Slots
  <2> QED BY <2>1 DEF MergeInv, Idle, OnlyFollowed, LinksDropped, Waiting, MovedStored
<1>5. AlikeInv' /\ ReadsAgree' /\ UnaliasedMergesArrive'
  BY DEF AlikeInv, ReadsAgree, UnaliasedMergesArrive
<1> QED BY <1>1, <1>2, <1>3, <1>4, <1>5 DEF XmmInv

(* At the end of a merge every slot has been moved. *)
LEMMA AllMoved ==
    ASSUME XmmInv, at = 2 * N + 1
    PROVE  /\ at # 0 /\ \A u \in Slots : Moved(u) /\ u < at
           /\ SoundWith(ctx, xmms, slots, ref, conv, guards)
           /\ \A u \in Slots : Linked(target, u) <=> Linked(ctx, u)
           /\ \A u \in Slots : target.mode[u] # "RW" => slots[u] = ref[u]
           /\ \A u \in conv : u \in Slots /\ ctx.mode[u] = "R" /\ slots[u] = ref[u]
           /\ \A u \in guards : u \in Slots /\ slots[u] = ref[u]
           /\ alike => AlikeInv
<1>1. at # 0 /\ \A u \in Slots : Moved(u) /\ u < at BY SlotsType DEF Moved, Slots
<1>2. /\ SoundWith(ctx, xmms, slots, ref, conv, guards)
      /\ LinksDropped /\ Waiting /\ MovedStored /\ (alike => AlikeInv)
      /\ conv \subseteq Slots /\ guards \subseteq Slots
  BY <1>1, Merging
<1>3. \A u \in Slots : Linked(target, u) <=> Linked(ctx, u)
  BY <1>1, <1>2 DEF LinksDropped, MovedStored
<1>4. \A u \in conv : u \in Slots /\ ctx.mode[u] = "R" /\ slots[u] = ref[u]
  BY <1>2 DEF Waiting, SoundWith
<1>5. \A u \in guards : u \in Slots /\ slots[u] = ref[u] BY <1>2 DEF SoundWith
<1> QED BY <1>1, <1>2, <1>3, <1>4, <1>5 DEF MovedStored

(* What is converted is a number by then. *)
LEMMA ConvertedNumbers ==
    ASSUME XmmInv
    PROVE  /\ \A u \in Converted : u \in conv /\ slots[u] \in Floats \cup Ints
           /\ XmmsConverted \in [Regs -> Nums]
           /\ \A q \in Regs : (\A u \in Converted : target.reg[u] # q) => XmmsConverted[q] = xmms[q]
           /\ \A q \in Regs : (\E u \in Converted : target.reg[u] = q) =>
                \E u \in Converted : target.reg[u] = q /\ XmmsConverted[q] = NumberOf(slots[u])
<1>1. xmms \in [Regs -> Nums] /\ conv \subseteq Slots BY DEF XmmInv, TypeOK
<1>2. \A u \in Converted : u \in conv /\ slots[u] \in Floats \cup Ints
  <2> TAKE u \in Converted
  <2>1. u \in conv /\ \A w \in Failing : u < w BY DEF Converted
  <2>2. u \in Nat BY <1>1, <2>1, SlotsType
  <2>3. u \notin Failing BY <2>1, <2>2
  <2> QED BY <2>1, <2>3 DEF Failing
<1> DEFINE there(q) == {s \in Converted : target.reg[s] = q}
           first(q) == CHOOSE s \in there(q) : TRUE
<1>3. XmmsConverted
        = [q \in Regs |-> IF there(q) = {} THEN xmms[q] ELSE NumberOf(slots[first(q)])]
  BY DEF XmmsConverted
<1>4. \A q \in Regs : there(q) # {} => first(q) \in there(q) OBVIOUS
<1>5. \A q \in Regs : there(q) # {} =>
        first(q) \in Converted /\ target.reg[first(q)] = q
  BY <1>4
<1>6. \A q \in Regs : there(q) = {} <=> \A u \in Converted : target.reg[u] # q OBVIOUS
<1> HIDE DEF there, first
<1>7. \A q \in Regs : there(q) # {} => NumberOf(slots[first(q)]) \in Nums
  BY <1>2, <1>5, Numbers
<1>8. XmmsConverted \in [Regs -> Nums] BY <1>1, <1>3, <1>7
<1>9. \A q \in Regs : (\A u \in Converted : target.reg[u] # q) => XmmsConverted[q] = xmms[q]
  BY <1>3, <1>6
<1>10. \A q \in Regs : (\E u \in Converted : target.reg[u] = q) =>
         \E u \in Converted : target.reg[u] = q /\ XmmsConverted[q] = NumberOf(slots[u])
  BY <1>3, <1>5, <1>6
<1> QED BY <1>2, <1>8, <1>9, <1>10

(* If the slots that stay linked share registers in the same way in both    *)
(* contexts, no conversion overwrites a register of another slot.           *)
LEMMA ConvertedInPlace ==
    ASSUME XmmInv, at = 2 * N + 1, alike, NEW s \in Slots, Linked(target, s), s \notin conv
    PROVE  /\ Kept(s)
           /\ XmmsConverted[target.reg[s]] = xmms[ctx.reg[s]]
           /\ XmmsConverted[ctx.reg[s]] = xmms[ctx.reg[s]]
<1>1. AllKept /\ InPlace /\ OwnInPlace BY AllMoved DEF AlikeInv
<1>2. Kept(s) /\ Moved(s) BY AllMoved DEF Kept
<1>3. target.reg[s] \in Regs /\ ctx.reg[s] \in Regs
  BY <1>2, Now, CtxType DEF Kept
<1>4. xmms[target.reg[s]] = xmms[ctx.reg[s]] BY <1>1, <1>2 DEF InPlace
<1>5. \A u \in Converted : /\ target.reg[u] # target.reg[s]
                           /\ target.reg[u] # ctx.reg[s]
  <2> TAKE u \in Converted
  <2>1. u \in conv /\ u \in Slots BY ConvertedNumbers, AllMoved
  <2>2. Linked(target, u) BY <2>1, AllMoved DEF Linked
  <2>3. Own BY <1>1, <2>1, <2>2 DEF AllKept, Kept
  <2>4. target.reg[u] # target.reg[s] BY <2>1, <2>2, <2>3 DEF Own
  <2>5. ctx.reg[s] = target.reg[s] BY <1>1, <1>2, <2>3 DEF OwnInPlace
  <2> QED BY <2>4, <2>5
<1> QED BY <1>2, <1>3, <1>4, <1>5, ConvertedNumbers

LEMMA AlikeArrives ==
    ASSUME XmmInv, at = 2 * N + 1, ~GuardFails, alike PROVE Arrived
<1>1. /\ SoundWith(ctx, xmms, slots, ref, conv, guards)
      /\ \A u \in Slots : Moved(u) /\ (Linked(target, u) <=> Linked(ctx, u))
      /\ \A u \in conv : u \in Slots /\ slots[u] = ref[u]
      /\ \A u \in guards : u \in Slots /\ slots[u] = ref[u]
  BY AllMoved
<1>2. SameNumber /\ AllKept /\ Checked BY AllMoved DEF AlikeInv
<1>3. Ctx(ctx) /\ Ctx(target) /\ xmms \in [Regs -> Nums] BY Now
<1>4. \A u \in conv : slots[u] \in Floats \cup Ints /\ u \in Converted
  BY DEF GuardFails, Failing, Converted
<1> SUFFICES ASSUME NEW s \in Slots, Linked(target, s)
             PROVE  /\ BoxOf[XmmsConverted[target.reg[s]]] = NumberOf(ref[s])
                    /\ target.mode[s] = "RW" => ref[s] \in Floats
                    /\ \A t \in target.xmm[target.reg[s]] : ref[t] \in Floats => ref[s] \in Floats
  BY DEF Arrived
<1>5. target.reg[s] \in Regs BY <1>3, CtxType
<1>6. BoxOf[XmmsConverted[target.reg[s]]] = NumberOf(ref[s])
  <2>1. CASE s \in conv
    <3>1. PICK u \in Converted : /\ target.reg[u] = target.reg[s]
                                 /\ XmmsConverted[target.reg[s]] = NumberOf(slots[u])
      BY <1>4, <1>5, <2>1, ConvertedNumbers
    <3>2. Own BY <1>2, <2>1 DEF AllKept, Kept
    <3>3. u \in Slots /\ Linked(target, u)
      BY <1>1, ConvertedNumbers, AllMoved DEF Linked
    <3>4. u = s BY <3>1, <3>2, <3>3 DEF Own
    <3> QED BY <1>1, <1>4, <2>1, <3>1, <3>4, Numbers
  <2>2. CASE s \notin conv
    BY <1>1, <2>2, ConvertedInPlace DEF SoundWith
  <2> QED BY <2>1, <2>2
<1>7. ASSUME target.mode[s] = "RW" PROVE ref[s] \in Floats
  <2>1. CASE s \in guards BY <1>1, <2>1 DEF GuardFails
  <2>2. CASE s \notin guards
    <3>1. ctx.mode[s] = "RW" BY <1>1, <1>2, <1>7, <2>2 DEF Checked
    <3>2. ctx.reg[s] \in Regs BY <1>3, <3>1, CtxType DEF Linked
    <3> QED BY <1>1, <1>3, <2>2, <3>1, <3>2, Numbers DEF SoundWith
  <2> QED BY <2>1, <2>2
<1>8. ASSUME NEW t \in target.xmm[target.reg[s]], ref[t] \in Floats PROVE ref[s] \in Floats
  <2>1. t \in Slots /\ Linked(target, t) /\ target.reg[t] = target.reg[s]
    BY <1>3, <1>5, CtxType
  <2>2. CASE t = s BY <1>8, <2>2
  <2>3. CASE t # s
    <3>1. ~Own BY <2>1, <2>3 DEF Own
    <3>2. Kept(s) /\ Kept(t) BY <1>2, <2>1, <3>1 DEF AllKept
    <3> QED BY <1>2, <1>8, <2>1, <3>2 DEF SameNumber
  <2> QED BY <2>2, <2>3
<1> QED BY <1>6, <1>7, <1>8

LEMMA ArriveStep == ASSUME XmmInv, Arrive PROVE XmmInv'
<1>1. /\ at = 2 * N + 1 /\ ~GuardFails /\ ctx' = target /\ xmms' = XmmsConverted
      /\ target' = NoLinks /\ at' = 0 /\ conv' = {} /\ guards' = {}
      /\ strayed' = IF Arrived THEN "no" ELSE "merge"
      /\ alike' = alike /\ slots' = slots /\ ref' = ref /\ agreed' = agreed
  BY DEF Arrive
<1>2. /\ SoundWith(ctx, xmms, slots, ref, conv, guards)
      /\ \A u \in Slots : Linked(target, u) <=> Linked(ctx, u)
      /\ \A u \in Slots : target.mode[u] # "RW" => slots[u] = ref[u]
      /\ \A u \in conv : slots[u] = ref[u]
  BY <1>1, AllMoved
<1>3. /\ Ctx(target) /\ slots \in [Slots -> Values] /\ ref \in [Slots -> Values]
  BY Now
<1>4. XmmsConverted \in [Regs -> Nums] BY ConvertedNumbers
<1>5. ASSUME Arrived PROVE SoundIn(target, XmmsConverted, slots, ref)
  <2>1. \A u \in conv : slots[u] \in Floats \cup Ints BY <1>1 DEF GuardFails, Failing
  <2>2. \A u \in Slots : Linked(target, u) => ref[u] \in Floats \cup Ints
    BY <1>2, <2>1 DEF SoundWith
  <2>3. \A u \in Slots : target.mode[u] = "RW" => ref[u] \in Floats
    BY <1>5 DEF Arrived, Linked
  <2>4. \A u, v \in Slots : /\ Linked(target, u) /\ Linked(target, v)
                            /\ target.reg[u] = target.reg[v] /\ ref[v] \in Floats
                            => ref[u] \in Floats
    BY <1>3, <1>5, CtxType DEF Arrived
  <2> QED BY <1>2, <1>5, <2>2, <2>3, <2>4 DEF SoundIn, Arrived
<1>6. alike => Arrived BY <1>1, AlikeArrives
<1>7. agreed' = TRUE BY <1>1, Merging, AllMoved
<1> QED BY <1>1, <1>3, <1>4, <1>5, <1>6, <1>7, AfterMerge

LEMMA LeaveAtHeaderStep == ASSUME XmmInv, LeaveAtHeader PROVE XmmInv'
<1>1. /\ at = 2 * N + 1 /\ ctx' = NoLinks /\ xmms' = XmmsConverted
      /\ slots' = [s \in Slots |-> IF ctx.mode[s] = "RW" THEN BoxOf[XmmsConverted[ctx.reg[s]]]
                                   ELSE slots[s]]
      /\ target' = NoLinks /\ at' = 0 /\ conv' = {} /\ guards' = {}
      /\ strayed' = IF slots' = ref THEN "no"
                    ELSE IF \E s \in guards : ref[s] \in Ints THEN "guard" ELSE "merge"
      /\ alike' = alike /\ ref' = ref /\ agreed' = agreed
  BY DEF LeaveAtHeader
<1>2. /\ SoundWith(ctx, xmms, slots, ref, conv, guards)
      /\ \A u \in Slots : Linked(target, u) <=> Linked(ctx, u)
      /\ \A u \in conv : ctx.mode[u] = "R"
  BY <1>1, AllMoved
<1>3. /\ Ctx(ctx) /\ slots \in [Slots -> Values] /\ ref \in [Slots -> Values]
  BY Now
<1>4. XmmsConverted \in [Regs -> Nums] BY ConvertedNumbers
<1>5. slots' \in [Slots -> Values]
  <2>1. \A s \in Slots : ctx.mode[s] = "RW" => BoxOf[XmmsConverted[ctx.reg[s]]] \in Values
    BY <1>3, <1>4, CtxType, Numbers DEF Linked
  <2> QED BY <1>1, <1>3, <2>1
<1>6. strayed' = "no" => SoundIn(ctx', xmms', slots', ref') BY <1>1, SoundNone
<1>7. ASSUME alike, \A s \in guards : ref[s] \notin Ints PROVE slots' = ref
  <2>1. ASSUME NEW s \in Slots, ctx.mode[s] = "RW"
        PROVE  BoxOf[XmmsConverted[ctx.reg[s]]] = ref[s]
    <3>1. s \notin conv /\ Linked(target, s) /\ Linked(ctx, s) BY <1>2, <2>1 DEF Linked
    <3>2. XmmsConverted[ctx.reg[s]] = xmms[ctx.reg[s]]
      BY <1>1, <1>7, <3>1, ConvertedInPlace
    <3>3. s \in guards => ref[s] \in Floats BY <1>2, <1>7, <3>1 DEF SoundWith
    <3>4. BoxOf[xmms[ctx.reg[s]]] = ref[s]
      BY <1>2, <2>1, <3>1, <3>3, Numbers DEF SoundWith
    <3> QED BY <3>2, <3>4
  <2>2. \A s \in Slots : ctx.mode[s] # "RW" => slots[s] = ref[s] BY <1>2 DEF SoundWith
  <2>3. \A s \in Slots : slots'[s] = ref[s] BY <1>1, <2>1, <2>2
  <2>4. slots' = [s \in Slots |-> slots'[s]] /\ ref = [s \in Slots |-> ref[s]] BY <1>3, <1>5
  <2> QED BY <2>3, <2>4
<1>8. strayed' = "merge" => ~alike BY <1>1, <1>7
<1>9. strayed' \in {"no", "guard", "merge"} BY <1>1
<1>10. agreed' = TRUE BY <1>1, Merging, AllMoved
<1> QED BY <1>1, <1>3, <1>4, <1>5, <1>6, <1>8, <1>9, <1>10, CtxNoLinks, AfterMerge
-----------------------------------------------------------------------------
(* The invariant holds at first and is kept by every step.                  *)

LEMMA InitInv == Init => XmmInv
<1> SUFFICES ASSUME Init PROVE XmmInv OBVIOUS
<1> DEFINE nils == [u \in Slots |-> Nil]
           junk == [r \in Regs |-> CHOOSE f \in Floats : TRUE]
<1>1. /\ ctx = NoLinks /\ target = NoLinks /\ at = 0 /\ alike = TRUE /\ conv = {} /\ guards = {}
      /\ xmms = junk /\ slots = nils /\ ref = nils /\ strayed = "no" /\ agreed = TRUE
  BY DEF Init
<1>2. junk \in [Regs -> Nums] BY XmmAssumption
<1>3. nils \in [Slots -> Values] BY Numbers
<1>4. TypeOK BY <1>1, <1>2, <1>3, CtxNoLinks, SlotsType DEF TypeOK, Ctx
<1>5. LinksMutual BY <1>1, CtxNoLinks DEF LinksMutual, Ctx
<1>6. Faithful
  <2>1. SoundIn(ctx, xmms, slots, ref) BY <1>1, SoundNone
  <2>2. SoundWith(ctx, xmms, slots, ref, conv, guards)
    BY <1>1, <1>2, <2>1, SoundNow, CtxNoLinks
  <2> QED BY <2>2 DEF Faithful, Sound, SoundWith
<1>7. MergeInv
  <2>1. \A u \in Slots : ~(u < at) /\ ~Moved(u) BY <1>1, SlotsType DEF Moved, Slots
  <2> QED BY <1>1, <2>1 DEF MergeInv, Idle, OnlyFollowed, LinksDropped, Waiting, MovedStored
<1>8. AlikeInv /\ ReadsAgree /\ UnaliasedMergesArrive
  BY <1>1 DEF AlikeInv, ReadsAgree, UnaliasedMergesArrive
<1> QED BY <1>4, <1>5, <1>6, <1>7, <1>8 DEF XmmInv

LEMMA InstructionStep ==
    ASSUME XmmInv,
           \/ \E s \in Slots, v \in Values : Store(s, v)
           \/ \E s \in Slots, f \in Floats : LoadFloat(s, f)
           \/ \E s, t \in Slots : Copy(s, t)
           \/ \E s, t, u \in Slots, n \in Nums : FloatOp(s, t, u, n)
           \/ \E s, t, u \in Slots, v \in Others : FloatCmp(s, t, u, v)
           \/ \E s, t, u \in Slots, v \in Values, exits \in BOOLEAN : Generic(s, {t, u}, v, exits)
           \/ \E t, u \in Slots : Consume({t, u})
           \/ \E s, t, u \in Slots, v \in Others, n \in Nums :
                MakeArray(s, {t, u}, v, [r \in Regs |-> n])
           \/ \E s, t, u \in Slots, v \in Others : MakeRange(s, {t, u}, v)
    PROVE  XmmInv'
<1> DEFINE all(n) == [r \in Regs |-> n]
<1>1. \A t, u \in Slots : {t, u} \in SUBSET Slots OBVIOUS
<1>2. \A n \in Nums : all(n) \in [Regs -> Nums] OBVIOUS
<1> HIDE DEF all
<1>3. CASE \E s \in Slots, v \in Values : Store(s, v) BY <1>3, StoreStep
<1>4. CASE \E s \in Slots, f \in Floats : LoadFloat(s, f) BY <1>4, LoadFloatStep
<1>5. CASE \E s, t \in Slots : Copy(s, t) BY <1>5, CopyStep
<1>6. CASE \E s, t, u \in Slots, n \in Nums : FloatOp(s, t, u, n) BY <1>6, FloatOpStep
<1>7. CASE \E s, t, u \in Slots, v \in Others : FloatCmp(s, t, u, v) BY <1>7, FloatCmpStep
<1>8. CASE \E s, t, u \in Slots, v \in Values, exits \in BOOLEAN : Generic(s, {t, u}, v, exits)
  <2>1. PICK s \in Slots, t \in Slots, u \in Slots, v \in Values, exits \in BOOLEAN :
          Generic(s, {t, u}, v, exits)
    BY <1>8
  <2> DEFINE ops == {t, u}
  <2>2. Generic(s, ops, v, exits) /\ ops \in SUBSET Slots BY <1>1, <2>1
  <2> HIDE DEF ops
  <2> QED BY <2>2, GenericStep
<1>9. CASE \E t, u \in Slots : Consume({t, u})
  <2>1. PICK t \in Slots, u \in Slots : Consume({t, u}) BY <1>9
  <2> DEFINE ops == {t, u}
  <2>2. Consume(ops) /\ ops \in SUBSET Slots BY <1>1, <2>1
  <2> HIDE DEF ops
  <2> QED BY <2>2, ConsumeStep
<1>10. CASE \E s, t, u \in Slots, v \in Others, n \in Nums :
              MakeArray(s, {t, u}, v, [r \in Regs |-> n])
  <2>1. PICK s \in Slots, t \in Slots, u \in Slots, v \in Others, n \in Nums :
          MakeArray(s, {t, u}, v, [r \in Regs |-> n])
    BY <1>10
  <2> DEFINE ops == {t, u}
  <2>2. MakeArray(s, ops, v, all(n)) /\ ops \in SUBSET Slots BY <1>1, <2>1 DEF all
  <2> HIDE DEF ops
  <2> QED BY <1>2, <2>2, MakeArrayStep
<1>11. CASE \E s, t, u \in Slots, v \in Others : MakeRange(s, {t, u}, v)
  <2>1. PICK s \in Slots, t \in Slots, u \in Slots, v \in Others : MakeRange(s, {t, u}, v)
    BY <1>11
  <2> DEFINE ops == {t, u}
  <2>2. MakeRange(s, ops, v) /\ ops \in SUBSET Slots BY <1>1, <2>1
  <2> HIDE DEF ops
  <2> QED BY <2>2, MakeRangeStep
<1> QED BY <1>3, <1>4, <1>5, <1>6, <1>7, <1>8, <1>9, <1>10, <1>11

LEMMA CallingStep ==
    ASSUME XmmInv,
           \/ \E s, t, u \in Slots, v \in Values, exits \in BOOLEAN : Call(s, t, {u}, v, exits)
           \/ \E s, t, u, l \in Slots, v, w \in Values :
                l \in Locals /\ CallBlock(s, t, {u}, v, l, w)
           \/ \E s, t \in Slots : Tof(s, t)
           \/ \E s, t, u \in Slots, n \in Nums : Sqrt(s, t, u, n)
           \/ \E s \in Slots : CondBr(s)
           \/ Deopt
           \/ \E s \in Slots : Return(s)
    PROVE  XmmInv'
<1>1. CASE \E s, t, u \in Slots, v \in Values, exits \in BOOLEAN : Call(s, t, {u}, v, exits)
  <2>1. PICK s \in Slots, t \in Slots, u \in Slots, v \in Values, exits \in BOOLEAN :
          Call(s, t, {u}, v, exits)
    BY <1>1
  <2> DEFINE args == {u}
  <2>2. Call(s, t, args, v, exits) /\ args \in SUBSET Slots BY <2>1
  <2> HIDE DEF args
  <2> QED BY <2>2, CallStep
<1>2. CASE \E s, t, u, l \in Slots, v, w \in Values :
             l \in Locals /\ CallBlock(s, t, {u}, v, l, w)
  <2>1. PICK s \in Slots, t \in Slots, u \in Slots, l \in Locals, v \in Values, w \in Values :
          CallBlock(s, t, {u}, v, l, w)
    BY <1>2
  <2> DEFINE args == {u}
  <2>2. CallBlock(s, t, args, v, l, w) /\ args \in SUBSET Slots BY <2>1
  <2> HIDE DEF args
  <2> QED BY <2>2, CallBlockStep
<1>3. CASE \E s, t \in Slots : Tof(s, t) BY <1>3, TofStep
<1>4. CASE \E s, t, u \in Slots, n \in Nums : Sqrt(s, t, u, n) BY <1>4, SqrtStep
<1>5. CASE \E s \in Slots : CondBr(s) BY <1>5, CondBrStep
<1>6. CASE Deopt BY <1>6, DeoptStep
<1>7. CASE \E s \in Slots : Return(s) BY <1>7, ReturnStep
<1> QED BY <1>1, <1>2, <1>3, <1>4, <1>5, <1>6, <1>7

LEMMA MergeStep ==
    ASSUME XmmInv,
           \/ \E o \in MutualContexts, first \in BOOLEAN : Meet(o, first)
           \/ \E m \in [Slots -> Modes], unused \in SUBSET Slots : EnterLoop(m, unused)
           \/ \E m \in [Slots -> Modes], unused \in SUBSET Slots : BackEdge(m, unused)
           \/ \E s \in Slots : Unlink(s)
           \/ \E s \in Slots : Move(s)
           \/ Arrive \/ LeaveAtHeader
    PROVE  XmmInv'
BY MeetStep, EnterLoopStep, BackEdgeStep, UnlinkStep, MoveStep, ArriveStep, LeaveAtHeaderStep

LEMMA StutterStep == ASSUME XmmInv, UNCHANGED vars PROVE XmmInv'
<1>1. (TypeOK /\ LinksMutual /\ Faithful /\ ReadsAgree /\ UnaliasedMergesArrive)'
  BY DEF vars, XmmInv, TypeOK, LinksMutual, Faithful, Sound, ReadsAgree, UnaliasedMergesArrive
<1>2. MergeInv'
  BY DEF vars, XmmInv, MergeInv, Idle, OnlyFollowed, LinksDropped, Waiting, MovedStored, Moved, Kept
<1>3. AlikeInv'
  BY DEF vars, XmmInv, AlikeInv, Own, Grouped, SameNumber, Alone, InPlace, OwnInPlace,
         AllKept, WritableKept, Checked, Moved, Kept
<1> QED BY <1>1, <1>2, <1>3 DEF XmmInv

LEMMA NextInv == XmmInv /\ [Next]_vars => XmmInv'
BY InstructionStep, CallingStep, MergeStep, StutterStep DEF Next

LEMMA XmmInvariant == Spec => []XmmInv
BY InitInv, NextInv, PTL DEF Spec
-----------------------------------------------------------------------------
(* The theorems.                                                            *)

(* The state is well typed: registers hold numbers, slots hold values, and  *)
(* a merge visits each slot twice and ends.                                 *)
THEOREM XmmTypeCorrect == Spec => []TypeOK
<1>1. XmmInv => TypeOK BY DEF XmmInv
<1> QED BY <1>1, XmmInvariant, PTL

(* Whatever is compiled, in the middle of merges too, the link of each slot *)
(* and the slots of each register say the same (dealloc_xmm, xmm_write).    *)
THEOREM LinksStayMutual == Spec => []LinksMutual
<1>1. XmmInv => LinksMutual BY DEF XmmInv
<1> QED BY <1>1, XmmInvariant, PTL

(* Slots and registers hold what the interpreter would have, at every       *)
(* instruction and between any two moves of a merge, unless one of the      *)
(* listed reasons made the activation stray.                                *)
THEOREM RegistersStayFaithful == Spec => []Faithful
<1>1. XmmInv => Faithful BY DEF XmmInv
<1> QED BY <1>1, XmmInvariant, PTL

(* What instructions read, written back or in registers, is what the        *)
(* interpreter would read.                                                  *)
THEOREM ReadsStayExact == Spec => []ReadsAgree
<1>1. XmmInv => ReadsAgree BY DEF XmmInv
<1> QED BY <1>1, XmmInvariant, PTL

(* gen_write_back_for_target brings every number where the block that       *)
(* follows expects it, however many slots exchange registers on the way, if *)
(* the slots that stay linked share registers in the same way before and    *)
(* after.                                                                   *)
THEOREM UnaliasedMergesStayExact == Spec => []UnaliasedMergesArrive
<1>1. XmmInv => UnaliasedMergesArrive BY DEF XmmInv
<1> QED BY <1>1, XmmInvariant, PTL
=============================================================================
