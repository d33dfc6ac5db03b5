------------------------------ MODULE XmmLink ------------------------------
(***************************************************************************)
(* How the JIT keeps Floats in xmm registers.  While it compiles a method, *)
(* the compiler tracks in a BBContext which stack slots are linked to      *)
(* which registers.  A slot linked read-write (RW) has its current value   *)
(* in the register alone; the machine code boxes it and stores it to the   *)
(* slot only when some instruction needs the slot, or when control goes    *)
(* back to the interpreter.                                                *)
(*                                                                         *)
(* The model follows one activation along one path: ctx is the context the *)
(* compiler had for the instruction that is executed now, xmms and slots   *)
(* are what the machine code computes, and ref is what the interpreter     *)
(* would have in the slots had it executed everything.  Where branches     *)
(* meet, the contexts of the branches that are not taken can be any; at a  *)
(* back edge the header's context can be any that a header can have.       *)
(*                                                                         *)
(* Some instructions lose track of a value.  strayed names the first       *)
(* reason an activation had for that, and the activation is not followed   *)
(* any further; the properties say that there is no other reason.          *)
(***************************************************************************)
EXTENDS Naturals, FiniteSets

CONSTANTS
  N,          \* the slots of a frame are numbered from 1 to N
  LocalNum,   \* the first LocalNum of them are local variables
  Regs,       \* the registers that can be linked
  Nums,       \* the numbers a register can hold
  Floats,     \* the Float values; each is named by the number it unboxes to
  Ints,       \* the Integer values
  Others,     \* the values that are no numbers
  Nil,        \* what locals and temporaries hold at first
  BoxOf,      \* the Float that boxing a number gives: -0.0 becomes 0.0
  ToF         \* the number that converting an Integer gives

ASSUME XmmAssumption ==
  /\ N \in Nat /\ LocalNum \in 0..N
  /\ IsFiniteSet(Regs) /\ Regs = 1..Cardinality(Regs)
  /\ Floats \subseteq Nums /\ Floats # {}
  /\ Ints \cap Nums = {} /\ Others \cap (Ints \cup Nums) = {}
  /\ Nil \in Others
  /\ BoxOf \in [Nums -> Floats]
  /\ \A f \in Floats : BoxOf[f] = f
  /\ ToF \in [Ints -> Floats]

Slots == 1..N
Locals == 1..LocalNum
Values == Floats \cup Ints \cup Others

VARIABLES ctx, target, at, alike, conv, guards, xmms, slots, ref, strayed, agreed
vars == <<ctx, target, at, alike, conv, guards, xmms, slots, ref, strayed, agreed>>

-----------------------------------------------------------------------------
(* Contexts.                                                               *)

Modes == {"none", "R", "RW"}
Contexts == [mode : [Slots -> Modes],
             reg : [Slots -> Regs \cup {0}],
             xmm : [Regs -> SUBSET Slots]]

NoLinks == [mode |-> [s \in Slots |-> "none"],
            reg |-> [s \in Slots |-> 0],
            xmm |-> [r \in Regs |-> {}]]

Linked(c, s) == c.mode[s] # "none"
Free(c) == {r \in Regs : c.xmm[r] = {}}
AllocXmm(c) == CHOOSE r \in Free(c) : \A q \in Free(c) : r <= q

Link(c, s, m, r) ==
  [mode |-> [c.mode EXCEPT ![s] = m],
   reg |-> [c.reg EXCEPT ![s] = r],
   xmm |-> [c.xmm EXCEPT ![r] = @ \cup {s}]]

DeallocAll(c, S) ==
  [mode |-> [s \in Slots |-> IF s \in S THEN "none" ELSE c.mode[s]],
   reg |-> [s \in Slots |-> IF s \in S THEN 0 ELSE c.reg[s]],
   xmm |-> [r \in Regs |-> c.xmm[r] \ S]]

\* Mutated: the slot forgets the register, the register not the slot.
DeallocXmmHalf(c, s) == [DeallocAll(c, {s}) EXCEPT !.xmm = c.xmm]

DeallocXmm(c, s) == DeallocAll(c, {s})

\* write_back_slot of each slot in S: the register stays linked, read-only.
WriteBack(c, S) ==
  [c EXCEPT !.mode = [s \in Slots |->
      IF s \in S /\ c.mode[s] = "RW" THEN "R" ELSE c.mode[s]]]

\* xmm_read_assume_float and xmm_read_assume_integer.
XmmRead(c, s) == IF Linked(c, s) THEN c ELSE Link(c, s, "R", AllocXmm(c))

\* Mutated: a register that is shared is written as if it were not.
XmmWriteShared(c, s) ==
  IF c.mode[s] = "RW" THEN c
  ELSE LET d == DeallocXmm(c, s) IN Link(d, s, "RW", AllocXmm(d))

XmmWrite(c, s) ==
  IF c.mode[s] = "RW" /\ c.xmm[c.reg[s]] = {s}
  THEN c
  ELSE LET d == DeallocXmm(c, s) IN Link(d, s, "RW", AllocXmm(d))

XmmSwap(c, l, r) ==
  [c EXCEPT !.reg = [s \in Slots |-> IF c.reg[s] = l THEN r
                                     ELSE IF c.reg[s] = r THEN l
                                     ELSE c.reg[s]],
            !.xmm = [@ EXCEPT ![l] = c.xmm[r], ![r] = c.xmm[l]]]

\* The two tables of a context are inverse to each other.
Mutual(c) ==
  /\ \A s \in Slots : Linked(c, s) <=> c.reg[s] \in Regs
  /\ \A s \in Slots, r \in Regs : s \in c.xmm[r] <=> (Linked(c, s) /\ c.reg[s] = r)

\* The contexts that compiling some sequence of instructions leads to.
Links == {l \in [mode : [Slots -> Modes], reg : [Slots -> Regs \cup {0}]] :
            \A s \in Slots : l.mode[s] = "none" <=> l.reg[s] = 0}
MutualContexts ==
  { [mode |-> l.mode, reg |-> l.reg, xmm |-> [r \in Regs |-> {s \in Slots : l.reg[s] = r}]] :
      l \in Links }

-----------------------------------------------------------------------------
(* What compiling an instruction does to the context.                      *)

AfterLoadFloat(c, ret) ==
  LET d == DeallocXmm(c, ret) IN Link(d, ret, "R", AllocXmm(d))

CopySlot(c, src, dst) ==
  LET d == DeallocXmm(c, dst)
  IN  IF Linked(d, src) THEN Link(d, dst, "RW", d.reg[src]) ELSE d

XmmReadBinary(c, lhs, rhs) == XmmRead(XmmRead(c, lhs), rhs)
AfterFloatOp(c, ret, lhs, rhs) == XmmWrite(XmmReadBinary(c, lhs, rhs), ret)
AfterFloatCmp(c, ret, lhs, rhs) == DeallocXmm(XmmReadBinary(c, lhs, rhs), ret)
AfterGeneric(c, ret, ops) == DeallocXmm(WriteBack(c, ops), ret)
AfterCall(c, ret, ops) == WriteBack(DeallocXmm(c, ret), ops)
AfterCallBlock(c, ret, args) ==
  DeallocAll(WriteBack(DeallocXmm(c, ret), args), Locals)
AfterTof(c, ret, recv) == XmmWrite(AfterCall(c, ret, {recv}), ret)
AfterSqrt(c, ret, recv, arg) == XmmWrite(XmmRead(AfterCall(c, ret, {recv}), arg), ret)

\* alloc_xmm finds a register for what follows (otherwise the compiler panics).
CanLink(c, s) == Free(DeallocXmm(c, s)) # {}
CanRead(c, s) == Linked(c, s) \/ Free(c) # {}
CanWrite(c, s) == (c.mode[s] = "RW" /\ c.xmm[c.reg[s]] = {s}) \/ CanLink(c, s)
CanReadBinary(c, lhs, rhs) == CanRead(c, lhs) /\ CanRead(XmmRead(c, lhs), rhs)

-----------------------------------------------------------------------------
(* Where branches meet.                                                    *)

\* StackSlotInfo::merge; the registers are those of the first entry.
MergeMode(l, r) ==
  IF l = "none" \/ r = "none" THEN "none"
  ELSE IF l = "RW" /\ r = "RW" THEN "RW" ELSE "R"

\* merge_entries and BBContext::from.
MergeEntries(first, second) ==
  LET mode == [s \in Slots |-> MergeMode(first.mode[s], second.mode[s])]
  IN  [mode |-> mode,
       reg |-> [s \in Slots |-> IF mode[s] = "none" THEN 0 ELSE first.reg[s]],
       xmm |-> [r \in Regs |-> {s \in Slots : mode[s] # "none" /\ first.reg[s] = r}]]

\* The slots linked in c and t share registers in c exactly as they do in t.
AliasedAs(c, t) ==
  \A u, v \in Slots : (\A s \in {u, v} : Linked(c, s) /\ Linked(t, s)) =>
     (c.reg[u] = c.reg[v] <=> t.reg[u] = t.reg[v])

\* The context of a loop header that links slots as m says: each slot has a
\* register of its own, and they are allocated in the order of the slots.
LoopContext(m) ==
  LET linked == {s \in Slots : m[s] # "none"}
      reg == [s \in Slots |-> IF s \in linked THEN Cardinality({u \in linked : u <= s}) ELSE 0]
  IN  [mode |-> m, reg |-> reg, xmm |-> [r \in Regs |-> {s \in Slots : reg[s] = r}]]

-----------------------------------------------------------------------------
(* What the machine code does to the slots.                                *)

\* Mutated: the number is stored as it is.
StoredRaw(c, S) ==
  [s \in Slots |-> IF s \in S /\ c.mode[s] = "RW" THEN xmms[c.reg[s]] ELSE slots[s]]

\* The slots in S that are linked RW, boxed and stored.
Stored(c, S) ==
  [s \in Slots |-> IF s \in S /\ c.mode[s] = "RW" THEN BoxOf[xmms[c.reg[s]]]
                   ELSE slots[s]]

\* The number that arithmetic of the interpreter would use for a value.
NumberOf(v) == IF v \in Ints THEN ToF[v] ELSE v

\* An instruction leaves the context c and the slots sl, and gives v for ret.
\* If a guard fails, its side exit writes back all that is linked in c, and
\* the interpreter executes the instruction; exits tells which.
Finish(c, sl, ret, v, exits) ==
  /\ IF exits
     THEN /\ ctx' = NoLinks
          /\ slots' = [s \in Slots |-> IF s = ret THEN v
                        ELSE IF c.mode[s] = "RW" THEN BoxOf[xmms[c.reg[s]]]
                        ELSE sl[s]]
     ELSE /\ ctx' = c
          /\ slots' = [sl EXCEPT ![ret] = v]
  /\ ref' = [ref EXCEPT ![ret] = v]

Running == at = 0 /\ strayed = "no"
SameMerge == UNCHANGED <<target, at, alike, conv, guards>>

Init ==
  /\ ctx = NoLinks
  /\ target = NoLinks /\ at = 0 /\ alike = TRUE /\ conv = {} /\ guards = {}
  /\ xmms = [r \in Regs |-> CHOOSE f \in Floats : TRUE]
  /\ slots = [s \in Slots |-> Nil] /\ ref = slots
  /\ strayed = "no" /\ agreed = TRUE

\* Instructions that only set a slot: integers, symbols, nil, literals that
\* are no Floats, constants, variables of other kinds.
Store(ret, v) ==
  /\ Running
  /\ Finish(DeallocXmm(ctx, ret), slots, ret, v, FALSE)
  /\ agreed' = TRUE
  /\ UNCHANGED <<xmms, strayed>> /\ SameMerge

\* Literal and LoadConst of a Float.
LoadFloat(ret, f) ==
  /\ Running /\ CanLink(ctx, ret)
  /\ LET c == AfterLoadFloat(ctx, ret)
     IN  /\ Finish(c, slots, ret, f, FALSE)
         /\ xmms' = [xmms EXCEPT ![c.reg[ret]] = f]
  /\ agreed' = TRUE
  /\ UNCHANGED strayed /\ SameMerge

\* Mov.  An Integer that was converted when some instruction read it is linked
\* read-only to its conversion; the copy is linked to that, read-write.
Copy(dst, src) ==
  /\ Running /\ dst # src
  /\ ctx' = CopySlot(ctx, src, dst)
  /\ slots' = IF Linked(ctx, src) THEN slots ELSE [slots EXCEPT ![dst] = slots[src]]
  /\ ref' = [ref EXCEPT ![dst] = ref[src]]
  /\ agreed' = TRUE
  /\ strayed' = IF ctx.mode[src] = "R" /\ ref[src] \in Ints THEN "integer" ELSE "no"
  /\ UNCHANGED xmms /\ SameMerge

\* The numbers that machine code gets for the operand s: the register if s is
\* linked, otherwise the conversion of a slot that passed the guard.
Operand(s) == IF Linked(ctx, s) THEN xmms[ctx.reg[s]] ELSE NumberOf(slots[s])
IsNumber(s) == Linked(ctx, s) \/ slots[s] \in Floats \cup Ints

\* The registers after the operands were read and converted.
XmmsRead(c, S) ==
  [r \in Regs |-> IF \E s \in S : ~Linked(ctx, s) /\ c.reg[s] = r
                  THEN NumberOf(slots[CHOOSE s \in S : ~Linked(ctx, s) /\ c.reg[s] = r])
                  ELSE xmms[r]]

\* Float arithmetic on linked operands: if both are Integers by now the result
\* should have been an Integer; and -0.0, which has no Value of its own, can
\* be met in a register.
FloatStray(S) ==
  IF \A s \in S : ref[s] \in Ints THEN "integer"
  ELSE IF \E s \in S : Operand(s) # NumberOf(ref[s]) THEN "zero"
  ELSE "no"

\* The class guards on operands that are not linked.
GuardsPass(S) ==
  /\ \A s \in S : IsNumber(s)
  /\ \E s \in S : Linked(ctx, s) \/ slots[s] \in Floats

\* FloatBinOp, BinOpRi and BinOpIr on a Float, Neg.  The number n that results
\* stays in a register.
FloatOp(ret, lhs, rhs, n) ==
  /\ Running
  /\ CanReadBinary(ctx, lhs, rhs) /\ CanWrite(XmmReadBinary(ctx, lhs, rhs), ret)
  /\ GuardsPass({lhs, rhs})
  /\ ctx' = AfterFloatOp(ctx, ret, lhs, rhs)
  /\ xmms' = [XmmsRead(XmmReadBinary(ctx, lhs, rhs), {lhs, rhs})
                EXCEPT ![ctx'.reg[ret]] = n]
  /\ ref' = [ref EXCEPT ![ret] = BoxOf[n]]
  /\ agreed' = \A s \in {lhs, rhs} : BoxOf[Operand(s)] = NumberOf(ref[s])
  /\ strayed' = FloatStray({lhs, rhs})
  /\ UNCHANGED slots /\ SameMerge

\* Cmp and Cmpri on Floats.
FloatCmp(ret, lhs, rhs, v) ==
  /\ Running
  /\ CanReadBinary(ctx, lhs, rhs)
  /\ GuardsPass({lhs, rhs})
  /\ Finish(AfterFloatCmp(ctx, ret, lhs, rhs), slots, ret, v, FALSE)
  /\ xmms' = XmmsRead(XmmReadBinary(ctx, lhs, rhs), {lhs, rhs})
  /\ agreed' = \A s \in {lhs, rhs} : BoxOf[Operand(s)] = NumberOf(ref[s])
  /\ strayed' = FloatStray({lhs, rhs})
  /\ SameMerge

\* The instructions that write back the slots they read and then drop the link
\* of the one they set (of those they set one after the other: ExpandArray).
\* Registers that are linked are saved around calls.
Generic(ret, ops, v, exits) ==
  /\ Running
  /\ Finish(AfterGeneric(ctx, ret, ops), Stored(ctx, ops), ret, v, exits)
  /\ agreed' = \A s \in ops : Stored(ctx, ops)[s] = ref[s]
  /\ UNCHANGED <<xmms, strayed>> /\ SameMerge

\* Mutated: the slots are read without being written back.
ConsumeStale(ops) ==
  /\ Running
  /\ agreed' = \A s \in ops : slots[s] = ref[s]
  /\ UNCHANGED <<ctx, slots, xmms, ref, strayed>> /\ SameMerge

\* The same for instructions that set no slot.
Consume(ops) ==
  /\ Running
  /\ ctx' = WriteBack(ctx, ops)
  /\ slots' = Stored(ctx, ops)
  /\ agreed' = \A s \in ops : slots'[s] = ref[s]
  /\ UNCHANGED <<xmms, ref, strayed>> /\ SameMerge

\* Array: no register is saved around the call.
MakeArray(ret, ops, v, junk) ==
  /\ Running
  /\ Finish(AfterGeneric(ctx, ret, ops), Stored(ctx, ops), ret, v, FALSE)
  /\ xmms' = junk
  /\ agreed' = \A s \in ops : Stored(ctx, ops)[s] = ref[s]
  /\ strayed' = IF \E s \in Slots \ {ret} : Linked(ctx, s) THEN "array" ELSE "no"
  /\ SameMerge

\* Range: the operands are read from their slots and nothing is dropped.
MakeRange(ret, ops, v) ==
  /\ Running
  /\ slots' = [slots EXCEPT ![ret] = v]
  /\ ref' = [ref EXCEPT ![ret] = v]
  /\ agreed' = TRUE
  /\ strayed' = IF Linked(ctx, ret) \/ \E s \in ops : ctx.mode[s] = "RW"
                THEN "operand" ELSE "no"
  /\ UNCHANGED <<ctx, xmms>> /\ SameMerge

\* MethodCall: the link of the result is dropped before the receiver is
\* written back, and they can be the same slot (x = x.m).
Call(ret, recv, args, v, exits) ==
  /\ Running /\ ret \notin args
  /\ strayed' = IF recv = ret /\ ctx.mode[ret] = "RW" THEN "receiver" ELSE "no"
  /\ LET d == DeallocXmm(ctx, ret)
         read == Stored(d, {recv} \cup args)
     IN  /\ Finish(AfterCall(ctx, ret, {recv} \cup args), read, ret, v, exits)
         /\ agreed' = (strayed' = "no" => \A s \in {recv} \cup args : read[s] = ref[s])
  /\ UNCHANGED xmms /\ SameMerge

\* MethodCallBlock: the arguments and the local variables are written back, as
\* the block may use the variables; it may set one of them (l) to w.
CallBlock(ret, recv, args, v, l, w) ==
  /\ Running /\ ret \notin args
  /\ strayed' = IF ctx.mode[recv] = "RW" /\ (recv = ret \/ recv \notin args \cup Locals)
                THEN "receiver" ELSE "no"
  /\ LET d == DeallocXmm(ctx, ret)
         read == Stored(d, args \cup Locals)
     IN  /\ ctx' = AfterCallBlock(ctx, ret, args)
         /\ slots' = [[read EXCEPT ![l] = w] EXCEPT ![ret] = v]
         /\ agreed' = (strayed' = "no" => \A s \in {recv} \cup args : read[s] = ref[s])
  /\ ref' = [[ref EXCEPT ![l] = w] EXCEPT ![ret] = v]
  /\ UNCHANGED xmms /\ SameMerge

\* Integer#to_f, compiled inline, on an Integer.
Tof(ret, recv) ==
  /\ Running
  /\ strayed' = IF recv = ret /\ ctx.mode[ret] = "RW" THEN "receiver" ELSE "no"
  /\ CanWrite(AfterCall(ctx, ret, {recv}), ret)
  /\ LET read == Stored(DeallocXmm(ctx, ret), {recv})
     IN  /\ read[recv] \in Ints
         /\ ctx' = AfterTof(ctx, ret, recv)
         /\ slots' = read
         /\ xmms' = [xmms EXCEPT ![ctx'.reg[ret]] = ToF[read[recv]]]
         /\ ref' = [ref EXCEPT ![ret] = ToF[read[recv]]]
         /\ agreed' = (strayed' = "no" => read[recv] = ref[recv])
  /\ SameMerge

\* Math.sqrt, Math.sin and Math.cos, compiled inline, on a Float.
Sqrt(ret, recv, arg, n) ==
  /\ Running /\ arg # ret
  /\ ctx' = AfterSqrt(ctx, ret, recv, arg)
  /\ strayed' = IF recv = ret /\ ctx.mode[ret] = "RW" THEN "receiver"
                ELSE IF Operand(arg) # NumberOf(ref[arg]) THEN "zero" ELSE "no"
  /\ LET c == AfterCall(ctx, ret, {recv})
     IN  /\ CanRead(c, arg) /\ CanWrite(XmmRead(c, arg), ret)
         /\ Linked(ctx, arg) \/ slots[arg] \in Floats
         /\ slots' = Stored(DeallocXmm(ctx, ret), {recv})
         /\ xmms' = [XmmsRead(XmmRead(c, arg), {arg}) EXCEPT ![ctx'.reg[ret]] = n]
  /\ ref' = [ref EXCEPT ![ret] = BoxOf[n]]
  /\ agreed' = (strayed' = "no" => /\ BoxOf[Operand(arg)] = NumberOf(ref[arg])
                                   /\ slots'[recv] = ref[recv])
  /\ SameMerge

\* CondBr: the condition is read from its slot.
CondBr(cond) ==
  /\ Running
  /\ strayed' = IF ctx.mode[cond] = "RW" THEN "operand" ELSE "no"
  /\ agreed' = (strayed' = "no" => slots[cond] = ref[cond])
  /\ UNCHANGED <<ctx, xmms, slots, ref>> /\ SameMerge

\* A guard fails, there is no code for what comes next, or a loop's code ends:
\* all that is linked RW is written back, and the interpreter goes on.
Deopt ==
  /\ Running
  /\ ctx' = NoLinks
  /\ slots' = Stored(ctx, Slots)
  /\ agreed' = TRUE
  /\ UNCHANGED <<xmms, ref, strayed>> /\ SameMerge

-----------------------------------------------------------------------------
(* gen_write_back_for_target, one slot at a time.                          *)

\* The moves from the context c to t begin.
Begin(c, t) ==
  /\ Running
  /\ ctx' = c /\ target' = t /\ alike' = AliasedAs(c, t)
  /\ at' = 1 /\ conv' = {} /\ guards' = {}
  /\ agreed' = TRUE
  /\ UNCHANGED <<xmms, slots, strayed>>

\* The end of a branch is reached; the entry of the branch that was taken is
\* the first one or a later one, the other entries merge to o.
Meet(o, first) ==
  /\ Begin(ctx, IF first THEN MergeEntries(ctx, o) ELSE MergeEntries(o, ctx))
  /\ UNCHANGED ref

\* The links of slots that the loop does not use are dropped without a
\* write-back.  Nothing reads them before it sets them, the interpreter
\* neither, so any value is as good as the one they had.
ToHeader(m, unused) ==
  /\ Cardinality({s \in Slots : m[s] # "none"}) \in Regs \cup {0}
  /\ \A s \in unused : m[s] = "none"
  /\ Begin(DeallocAll(ctx, unused), LoopContext(m))
  /\ ref' = [s \in Slots |-> IF s \in unused THEN slots[s] ELSE ref[s]]

\* A loop is entered: the slots that it uses as Floats are linked if they are
\* in all entries, and read-write only if they are that in all of them.
EnterLoop(m, unused) ==
  /\ \A s \in Slots : MergeMode(m[s], ctx.mode[s]) = m[s]
  /\ ToHeader(m, unused)

\* The end of the loop's body: the header's context is not one this path was
\* merged into.  (The compiler panics on a slot that is not linked here and
\* read-write there.)
BackEdge(m, unused) ==
  /\ \A s \in Slots : m[s] = "RW" => Linked(ctx, s)
  /\ ToHeader(m, unused)

Moving == UNCHANGED <<target, alike, ref, strayed, agreed>>

\* First, slots that are not linked afterwards: the number goes to all slots
\* that share the register, which become read-only, and the link is dropped.
Unlink(s) ==
  /\ at = s
  /\ IF Linked(target, s) \/ ~Linked(ctx, s)
     THEN UNCHANGED <<ctx, slots>>
     ELSE IF ctx.mode[s] = "R"
     THEN ctx' = DeallocXmm(ctx, s) /\ UNCHANGED slots
     ELSE LET mates == ctx.xmm[ctx.reg[s]]
          IN  /\ ctx' = DeallocXmm([ctx EXCEPT !.mode =
                   [u \in Slots |-> IF u \in mates THEN "R" ELSE ctx.mode[u]]], s)
              /\ slots' = [u \in Slots |->
                   IF u \in mates THEN BoxOf[xmms[ctx.reg[s]]] ELSE slots[u]]
  /\ at' = at + 1
  /\ UNCHANGED <<xmms, conv, guards>> /\ Moving

\* Mutated: the registers are exchanged in the context and one number is moved.
TransferOne(s, l, r, m) ==
  /\ ctx' = IF l = r THEN [ctx EXCEPT !.mode[s] = m]
            ELSE IF ctx.xmm[r] = {} THEN Link(DeallocXmm(ctx, s), s, m, r)
            ELSE XmmSwap(ctx, l, r)
  /\ xmms' = [xmms EXCEPT ![r] = xmms[l]]

\* Mutated: a number is moved even if the register holds that of other slots.
TransferOver(s, l, r, m) ==
  /\ ctx' = IF l = r THEN [ctx EXCEPT !.mode[s] = m]
            ELSE Link(DeallocXmm(ctx, s), s, m, r)
  /\ xmms' = [xmms EXCEPT ![r] = xmms[l]]

\* The number of s goes from register l to r; if r is linked to other slots,
\* the two are exchanged, for all slots that are linked to them.
Transfer(s, l, r, m) ==
  IF l = r
  THEN ctx' = [ctx EXCEPT !.mode[s] = m] /\ UNCHANGED xmms
  ELSE IF ctx.xmm[r] = {}
  THEN /\ ctx' = Link(DeallocXmm(ctx, s), s, m, r)
       /\ xmms' = [xmms EXCEPT ![r] = xmms[l]]
  ELSE /\ ctx' = XmmSwap(ctx, l, r)
       /\ xmms' = [xmms EXCEPT ![l] = xmms[r], ![r] = xmms[l]]

\* Then, each slot's number moves to the register it has afterwards; a slot
\* that becomes read-only is stored.  A slot that had no register will be
\* converted, and one that was read-only and may be written will be checked.
Move(s) ==
  /\ at = N + s
  /\ IF ~Linked(target, s) THEN UNCHANGED <<ctx, xmms, slots>>
     ELSE IF ~Linked(ctx, s)
     THEN ctx' = Link(ctx, s, "R", target.reg[s]) /\ UNCHANGED <<xmms, slots>>
     ELSE /\ Transfer(s, ctx.reg[s], target.reg[s], target.mode[s])
          /\ slots' = IF target.mode[s] = "R" THEN Stored(ctx, {s}) ELSE slots
  /\ conv' = IF Linked(target, s) /\ ~Linked(ctx, s) THEN conv \cup {s} ELSE conv
  /\ guards' = IF target.mode[s] = "RW" /\ ctx.mode[s] = "R" THEN guards \cup {s} ELSE guards
  /\ at' = at + 1
  /\ Moving

\* The conversions, in the order of the slots; the first that fails exits.
Failing == {s \in conv : slots[s] \notin Floats \cup Ints}
Converted == {s \in conv : \A u \in Failing : s < u}
XmmsConverted ==
  [r \in Regs |-> LET there == {s \in Converted : target.reg[s] = r}
                  IN  IF there = {} THEN xmms[r] ELSE NumberOf(slots[CHOOSE s \in there : TRUE])]
GuardFails == Failing # {} \/ \E s \in guards : slots[s] \notin Floats

\* Every register has the numbers that target says, a slot linked RW is a
\* Float, and no Integer shares the register of a Float.  (The numbers of the
\* two may agree by now, but a later copy of the Float is written back to both.)
Arrived ==
  \A s \in Slots : Linked(target, s) =>
    /\ BoxOf[XmmsConverted[target.reg[s]]] = NumberOf(ref[s])
    /\ target.mode[s] = "RW" => ref[s] \in Floats
    /\ \A t \in target.xmm[target.reg[s]] : ref[t] \in Floats => ref[s] \in Floats

\* The code of the block where the branches meet relies on target.
Arrive ==
  /\ at = 2 * N + 1 /\ ~GuardFails
  /\ ctx' = target
  /\ xmms' = XmmsConverted
  /\ target' = NoLinks /\ at' = 0 /\ conv' = {} /\ guards' = {}
  /\ strayed' = IF Arrived THEN "no" ELSE "merge"
  /\ UNCHANGED <<alike, slots, ref, agreed>>

\* A conversion or a check fails: the links that there are by now are written
\* back, and the interpreter starts the body of the loop again.  A slot that
\* was to be checked is linked read-write by then: an Integer is overwritten.
LeaveAtHeader ==
  /\ at = 2 * N + 1 /\ GuardFails
  /\ ctx' = NoLinks
  /\ xmms' = XmmsConverted
  /\ slots' = [s \in Slots |-> IF ctx.mode[s] = "RW" THEN BoxOf[xmms'[ctx.reg[s]]] ELSE slots[s]]
  /\ target' = NoLinks /\ at' = 0 /\ conv' = {} /\ guards' = {}
  /\ strayed' = IF slots' = ref THEN "no"
                ELSE IF \E s \in guards : ref[s] \in Ints THEN "guard" ELSE "merge"
  /\ UNCHANGED <<alike, ref, agreed>>

\* Ret: the value is written back and read, and the activation ends.  The next
\* one starts with new slots.
Return(s) ==
  /\ at = 0
  /\ agreed' = (strayed = "no" => Stored(ctx, {s})[s] = ref[s])
  /\ ctx' = NoLinks
  /\ slots' = [u \in Slots |-> Nil] /\ ref' = slots'
  /\ strayed' = "no" /\ alike' = TRUE
  /\ xmms' = [r \in Regs |-> CHOOSE f \in Floats : TRUE]
  /\ UNCHANGED <<target, at, conv, guards>>

Next ==
  \/ \E s \in Slots, v \in Values : Store(s, v)
  \/ \E s \in Slots, f \in Floats : LoadFloat(s, f)
  \/ \E s, t \in Slots : Copy(s, t)
  \/ \E s, t, u \in Slots, n \in Nums : FloatOp(s, t, u, n)
  \/ \E s, t, u \in Slots, v \in Others : FloatCmp(s, t, u, v)
  \/ \E s, t, u \in Slots, v \in Values, exits \in BOOLEAN : Generic(s, {t, u}, v, exits)
  \/ \E t, u \in Slots : Consume({t, u})
  \/ \E s, t, u \in Slots, v \in Others, n \in Nums :
       MakeArray(s, {t, u}, v, [r \in Regs |-> n])
  \/ \E s, t, u \in Slots, v \in Others : MakeRange(s, {t, u}, v)
  \/ \E s, t, u \in Slots, v \in Values, exits \in BOOLEAN : Call(s, t, {u}, v, exits)
  \/ \E s, t, u, l \in Slots, v, w \in Values :
       l \in Locals /\ CallBlock(s, t, {u}, v, l, w)
  \/ \E s, t \in Slots : Tof(s, t)
  \/ \E s, t, u \in Slots, n \in Nums : Sqrt(s, t, u, n)
  \/ \E s \in Slots : CondBr(s)
  \/ Deopt
  \/ \E o \in MutualContexts, first \in BOOLEAN : Meet(o, first)
  \/ \E m \in [Slots -> Modes], unused \in SUBSET Slots : EnterLoop(m, unused)
  \/ \E m \in [Slots -> Modes], unused \in SUBSET Slots : BackEdge(m, unused)
  \/ \E s \in Slots : Unlink(s)
  \/ \E s \in Slots : Move(s)
  \/ Arrive \/ LeaveAtHeader
  \/ \E s \in Slots : Return(s)

Spec == Init /\ [][Next]_vars

-----------------------------------------------------------------------------
(* Properties.                                                             *)

TypeOK ==
  /\ ctx \in Contexts /\ target \in Contexts
  /\ alike \in BOOLEAN /\ agreed \in BOOLEAN
  /\ at \in 0..(2 * N + 1)
  /\ conv \subseteq Slots /\ guards \subseteq Slots
  /\ xmms \in [Regs -> Nums]
  /\ slots \in [Slots -> Values] /\ ref \in [Slots -> Values]
  /\ strayed \in {"no", "integer", "zero", "array", "operand", "receiver", "merge", "guard"}

\* The two tables of a context, the link of each slot and the slots of each
\* register, are inverse to each other whatever is compiled (what dealloc_xmm
\* and xmm_write assert), while branches are merged too.
LinksMutual == Mutual(ctx) /\ Mutual(target)

\* A slot that is about to be converted or checked at a back edge is not.
Sound(c) ==
  \A s \in Slots :
    /\ c.mode[s] = "RW" /\ s \notin guards => BoxOf[xmms[c.reg[s]]] = ref[s]
    /\ c.mode[s] # "RW" \/ s \in guards => slots[s] = ref[s]
    /\ Linked(c, s) /\ s \notin conv =>
         /\ ref[s] \in Floats \cup Ints
         /\ BoxOf[xmms[c.reg[s]]] = NumberOf(ref[s])
         /\ \A t \in c.xmm[c.reg[s]] \ conv : ref[t] \in Floats => ref[s] \in Floats

\* At every instruction and in the middle of every merge, a slot that is not
\* linked RW holds what the interpreter would have there, boxing its register
\* gives that if it is, a linked register is the number of the value, and what
\* shares a register is all Floats or all Integers, as long as none of the
\* listed reasons occurred.
Faithful == strayed = "no" => Sound(ctx)

\* What an instruction reads, from slots it has written back or from
\* registers, is what the interpreter would read.
ReadsAgree == agreed

\* Where branches meet, the moves and exchanges of registers put every number
\* where the following code expects it whenever the slots that stay linked
\* share registers in the same way in both contexts.
UnaliasedMergesArrive == strayed = "merge" => ~alike

HeldIn(c, x, sl, s) == IF c.mode[s] = "RW" THEN BoxOf[x[c.reg[s]]] ELSE sl[s]

\* copy_slot is documented to copy src to dst: afterwards dst has the value
\* that src had.
CopiesExact ==
  [][\A s, t \in Slots : Copy(s, t) =>
       HeldIn(ctx', xmms', slots', s) = HeldIn(ctx, xmms, slots, t)]_vars
=============================================================================
