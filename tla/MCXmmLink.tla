----------------------------- MODULE MCXmmLink -----------------------------
(* Two slots, one of them a local variable, and a register for each, with  *)
(* every instruction; and three slots for what happens where branches meet.*)
EXTENDS XmmLink
CONSTANTS one, two, minus_zero, i, nil

MCRegs == 1..N
MCNums == {one, two, minus_zero}
MCFloats == {one, two}
MCInts == {i}
MCOthers == {nil}
MCBoxOf == [x \in MCNums |-> IF x = minus_zero THEN two ELSE x]
MCToF == [x \in MCInts |-> one]

\* One merge or back edge from any context, with different numbers in the
\* registers, in ref what the context says, or an Integer where it may be one,
\* and nil in the slots whose values are in registers.
Different == CHOOSE f \in [Regs -> Nums] : \A r, q \in Regs : f[r] = f[q] => r = q

\* The slot s can hold the Integer n that was converted to what s is linked to.
MayBe(n, s) ==
  /\ n \in Ints
  /\ xmms[ctx.reg[s]] = ToF[n]
  /\ \A t \in ctx.xmm[ctx.reg[s]] : ctx.mode[t] = "R"

MergeInit ==
  /\ ctx \in MutualContexts
  /\ xmms = Different
  /\ \E integer, plain \in {i, nil} :
       ref = [s \in Slots |->
                IF ~Linked(ctx, s) THEN plain
                ELSE IF MayBe(integer, s) THEN integer
                ELSE BoxOf[xmms[ctx.reg[s]]]]
  /\ slots = [s \in Slots |-> IF ctx.mode[s] = "RW" THEN Nil ELSE ref[s]]
  /\ target = NoLinks /\ at = 0 /\ alike = TRUE /\ conv = {} /\ guards = {}
  /\ strayed = "no" /\ agreed = TRUE

MergeNext ==
  \/ Running /\ xmms = Different /\ \E o \in MutualContexts, first \in BOOLEAN : Meet(o, first)
  \/ /\ Running /\ xmms = Different
     /\ \E m \in [Slots -> Modes], unused \in SUBSET Slots : BackEdge(m, unused)
  \/ \E s \in Slots : Unlink(s)
  \/ \E s \in Slots : Move(s)
  \/ Arrive \/ LeaveAtHeader
  \/ \E s \in Slots : Return(s)

MergeSpec == MergeInit /\ [][MergeNext]_vars
=============================================================================
