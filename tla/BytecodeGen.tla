---------------------------- MODULE BytecodeGen ----------------------------
(***************************************************************************)
(* The compiler from syntax trees to bytecode: which instructions it emits *)
(* in which order, which registers they use, and where labels end up.      *)
(*                                                                         *)
(* A compilation is a record that every operator takes and returns: ir and *)
(* labels as in IrContext, loops the stack of loops with the label and the *)
(* register of a break, temp and temp_num as in ISeqInfo, and panics the   *)
(* assertions that failed.  An operand is a local variable, which is used  *)
(* where it is, or a temporary register.                                   *)
(***************************************************************************)
EXTENDS RubyAst, Encoding, FiniteSets
LOCAL INSTANCE SequencesExt

Self_ == <<"self", 0>>
LocalReg(n) == <<"local", n>>
Temp(t) == <<"temp", t>>
None == <<"none", 0>>
Label(l) == <<"label", l>>
Number(i) == <<"number", i>>

Inst(op, a, b, c) == [op |-> op, a |-> a, b |-> b, c |-> c]

NewContext == [ir |-> <<>>, labels |-> <<>>, loops |-> <<>>,
               temp |-> 0, temp_num |-> 0, panics |-> {}]

Emit(k, op, a, b, c) == [k EXCEPT !.ir = Append(@, Inst(op, a, b, c))]
Panic(k, why) == [k EXCEPT !.panics = @ \cup {why}]

NewLabel(k) == [k EXCEPT !.labels = Append(@, 0)]
LastLabel(k) == Len(k.labels)
ApplyLabel(k, l) == [k EXCEPT !.labels[l] = Len(k.ir) + 1]

NextReg(k) == Temp(k.temp)
\* The high-water mark is only raised by the push after the one that reaches it.
Push_LateMark(k) ==
  [k EXCEPT !.temp = @ + 1, !.temp_num = IF k.temp > @ THEN k.temp ELSE @]
Push(k) == [k EXCEPT !.temp = @ + 1,
                     !.temp_num = IF k.temp + 1 > @ THEN k.temp + 1 ELSE @]
Pop(k) == IF k.temp = 0 THEN Panic(k, "underflow") ELSE [k EXCEPT !.temp = @ - 1]
SetTemp(k, t) == [k EXCEPT !.temp = t]

\* The register that dst names, or a new temporary.
GetReg(k, dst) == IF dst = None THEN NextReg(k) ELSE dst
PushUnless(k, dst) == IF dst = None THEN Push(k) ELSE k

Mov(k, dst, src) == IF dst = src THEN k ELSE Emit(k, <<"Mov">>, dst, src, None)
TempMov(k, src) == Mov(Push(k), NextReg(k), src)
Br(k, l) == Emit(k, <<"Br">>, None, None, Label(l))
CondBr(k, kind, opt, reg, l) == Emit(k, <<"CondBr", kind, opt>>, reg, None, Label(l))

RetReg(k, reg) ==
  Emit(IF k.temp = 0 THEN k ELSE Panic(k, "temp at return"), <<"Ret">>, reg, None, None)
RetTop(k) == RetReg(Pop(k), Temp(k.temp - 1))

\* What becomes of a value that was pushed.
Finish(k, mode) ==
  CASE mode = "ret" -> RetTop(k)
    [] mode = "not" -> Pop(k)
    [] mode = "use" -> k

\* What becomes of a value that is in a local variable.
HandleMode(k, mode, reg) ==
  CASE mode = "ret" -> RetReg(k, reg)
    [] mode = "use" -> TempMov(k, reg)
    [] mode = "not" -> k

\* The integers that fit into an instruction.
IsSmi(e) == e.k = "int" /\ e.i \in -32768..32767

RiOps_WithRem == {"add", "sub", "mul", "div", "rem", "exp"}
RiOps == {"add", "sub", "mul", "div", "exp"}

\* Nothing is emitted for these when their value is not used.
Pure == {"nil", "self", "int"}

\* A variable of an outer frame is named by its register there and the number
\* of frames in between.
GenLoad(k, s, dst) ==
  IF s = "dyn" THEN Emit(k, <<"LoadDynVar">>, dst, Number(1), Number(1))
  ELSE Emit(k, <<Load[s]>>, dst, None, None)
GenStoreCell(k, s, src) ==
  IF s = "dyn" THEN Emit(k, <<"StoreDynVar">>, Number(1), Number(1), src)
  ELSE Emit(k, <<Store[s]>>, src, None, None)

RECURSIVE GenInto(_, _, _, _)

\* Gen compiles e to be returned ("ret"), pushed ("use") or evaluated for its
\* effects ("not"); GenStore compiles it to a register.
Gen(k, e, mode) == GenInto(k, e, mode, None)
GenStore(k, dst, e) == GenInto(k, e, "store", dst)

-----------------------------------------------------------------------------
(* Operands.                                                               *)

\* An operand that stays where it is, if it is a local variable, or is pushed.
ExprReg(k, e) == IF e.k = "local" THEN k ELSE Gen(k, e, "use")
\* The same, and what was pushed counts as free again.
TempExpr(k, e) == IF e.k = "local" THEN k ELSE Pop(Gen(k, e, "use"))
RegOf(k, e) == IF e.k = "local" THEN LocalReg(e.s) ELSE NextReg(k)

BinaryTemp(k, l, r) ==
  IF l.k # "local" /\ r.k # "local"
  THEN SetTemp(Gen(Gen(k, l, "use"), r, "use"), k.temp)
  ELSE TempExpr(TempExpr(k, l), r)
LhsReg(k, l, r) == RegOf(k, l)
RhsReg(k, l, r) ==
  IF l.k # "local" /\ r.k # "local" THEN Temp(k.temp + 1) ELSE RegOf(k, r)

PushAll(k, es) == FoldLeft(LAMBDA c, e : Gen(c, e, "use"), k, es)

-----------------------------------------------------------------------------
(* Expressions that leave their value in dst, or push it.                  *)

GenCmp(k, dst, e, opt) ==
  IF IsSmi(e.x[2])
  THEN LET c == TempExpr(k, e.x[1])
       IN Emit(PushUnless(c, dst), <<"Cmpri", e.s, opt>>, GetReg(c, dst),
               RegOf(k, e.x[1]), Number(e.x[2].i))
  ELSE LET c == BinaryTemp(k, e.x[1], e.x[2])
       IN Emit(PushUnless(c, dst), <<"Cmp", e.s, opt>>, GetReg(c, dst),
               LhsReg(k, e.x[1], e.x[2]), RhsReg(k, e.x[1], e.x[2]))

\* An integer on the left is compiled like one on the right.
GenArith_Commuted(k, dst, op, l, r) ==
  LET i == IF IsSmi(r) THEN r ELSE l
      e == IF IsSmi(r) THEN l ELSE r
  IN IF op \in RiOps /\ IsSmi(i)
     THEN LET c == TempExpr(k, e)
          IN Emit(PushUnless(c, dst), <<"BinOpRi", op>>, GetReg(c, dst), RegOf(k, e), Number(i.i))
     ELSE LET c == BinaryTemp(k, l, r)
          IN Emit(PushUnless(c, dst), <<"BinOp", op>>, GetReg(c, dst), LhsReg(k, l, r), RhsReg(k, l, r))
GenArith(k, dst, op, l, r) ==
  CASE op \in RiOps /\ IsSmi(r) ->
         LET c == TempExpr(k, l)
         IN Emit(PushUnless(c, dst), <<"BinOpRi", op>>, GetReg(c, dst), RegOf(k, l), Number(r.i))
    [] op \in RiOps /\ ~IsSmi(r) /\ IsSmi(l) ->
         LET c == TempExpr(k, r)
         IN Emit(PushUnless(c, dst), <<"BinOpIr", op>>, GetReg(c, dst), Number(l.i), RegOf(k, r))
    [] OTHER ->
         LET c == BinaryTemp(k, l, r)
         IN Emit(PushUnless(c, dst), <<"BinOp", op>>, GetReg(c, dst), LhsReg(k, l, r), RhsReg(k, l, r))

\* && and ||: the left value is in dst before the right operand is evaluated.
GenLogical(k, dst, kind, l, r) ==
  LET reg == GetReg(k, dst)
      exit == LastLabel(k) + 1
      c == GenStore(PushUnless(NewLabel(k), dst), reg, l)
  IN ApplyLabel(GenStore(CondBr(c, kind, "plain", reg, exit), reg, r), exit)

GenBinop(k, dst, op, l, r) ==
  CASE op = "and" -> GenLogical(k, dst, "ifnot", l, r)
    [] op = "or" -> GenLogical(k, dst, "if", l, r)
    [] op \in CmpKinds -> GenCmp(k, dst, Bin(op, l, r), "plain")
    [] OTHER -> GenArith(k, dst, op, l, r)

GenArray(k, dst, es) ==
  LET c == SetTemp(PushAll(k, es), k.temp)
  IN Emit(PushUnless(c, dst), <<"Array">>, GetReg(c, dst), NextReg(k), Number(Len(es)))

GenRange(k, dst, l, r) ==
  LET c == PushUnless(k, dst)
  IN Emit(BinaryTemp(c, l, r), <<"Range", "incl">>, GetReg(k, dst), LhsReg(c, l, r), RhsReg(c, l, r))

GenIndex(k, dst, b, i) ==
  LET c == BinaryTemp(k, b, i)
  IN Emit(PushUnless(c, dst), <<"Index">>, GetReg(c, dst), LhsReg(k, b, i), RhsReg(k, b, i))

-----------------------------------------------------------------------------
(* Calls: the receiver, the block and the arguments are evaluated into     *)
(* consecutive registers, which are free again before the call.            *)

GenCall(k, e, ret) ==
  LET recv == e.x[1]
      held == recv.k \notin {"self", "local"}
      c1 == IF held THEN Gen(k, recv, "use") ELSE k
      c2 == CASE e.s = "block" -> Emit(Push(c1), <<"Literal">>, NextReg(c1), None, Number(1))
              [] e.s = "proxy" -> Emit(Push(c1), <<"BlockArgProxy">>, NextReg(c1), None, None)
              [] OTHER -> c1
      c3 == SetTemp(PushAll(c2, Tail(e.x)), k.temp)
      op == IF e.s = "" THEN <<"MethodCall">> ELSE <<"MethodCallBlock">>
      c4 == Emit(c3, op, ret, None, Number(0))
      c5 == Emit(c4, <<"MethodArgs">>, IF recv.k = "self" THEN Self_ ELSE RegOf(k, recv),
                 NextReg(c1), Number(Len(e.x) - 1))
  IN Emit(c5, <<"InlineCache">>, None, None, None)

GenYield(k, es, ret) ==
  Emit(SetTemp(PushAll(k, es), k.temp), <<"Yield">>, ret, NextReg(k), Number(Len(es)))

-----------------------------------------------------------------------------
(* Assignments.  A place keeps the registers its parts were evaluated to.  *)

EvalLvalue(k, l) ==
  CASE l.k = "index" -> ExprReg(ExprReg(k, l.x[1]), l.x[2])
    [] l.k = "send" -> ExprReg(k, l.x[1])
    [] OTHER -> k

Place(k, l) ==
  [l |-> l,
   base |-> IF l.k \in {"index", "send"} THEN RegOf(k, l.x[1]) ELSE None,
   index |-> IF l.k = "index" THEN RegOf(ExprReg(k, l.x[1]), l.x[2]) ELSE None]

GenAssign(k, src, p) ==
  CASE p.l.k = "local" -> Mov(k, LocalReg(p.l.s), src)
    [] p.l.k = "cell" -> GenStoreCell(k, p.l.s, src)
    [] p.l.k = "index" -> Emit(k, <<"StoreIndex">>, src, p.base, p.index)
    [] p.l.k = "send" ->
         Emit(Emit(Emit(k, <<"MethodCall">>, None, None, Number(0)),
                   <<"MethodArgs">>, p.base, src, Number(1)),
              <<"InlineCache">>, None, None, None)

GenMulAssign(k, e, mode) ==
  LET p1 == Place(k, e.x[1])
      c1 == EvalLvalue(k, e.x[1])
      p2 == Place(c1, e.x[2])
      c2 == EvalLvalue(c1, e.x[2])
      c3 == PushAll(c2, SubSeq(e.x, 3, 4))
      c4 == GenAssign(GenAssign(c3, NextReg(c2), p1), Temp(c2.temp + 1), p2)
      c5 == SetTemp(c4, k.temp)
  IN CASE mode = "not" -> c5
       [] mode = "use" -> Emit(Push(c5), <<"Array">>, NextReg(c5), NextReg(c2), Number(2))
       [] mode = "ret" -> RetTop(Emit(Push(c5), <<"Array">>, NextReg(c5), NextReg(c2), Number(2)))

\* The value of an assignment is pushed also when nobody needs it, and popped.
PushResult(k, temp, mode, src) ==
  LET c == SetTemp(k, temp)
  IN Finish(IF mode = "not" THEN Push(c) ELSE Mov(Push(c), NextReg(c), src), mode)

GenAssignExpr(k, e, mode) ==
  IF e.x[1].k = "local"
  THEN HandleMode(GenStore(k, LocalReg(e.x[1].s), e.x[2]), mode, LocalReg(e.x[1].s))
  ELSE LET c == EvalLvalue(k, e.x[1])
           src == RegOf(c, e.x[2])
       IN PushResult(GenAssign(ExprReg(c, e.x[2]), src, Place(k, e.x[1])), k.temp, mode, src)

\* lhs op= rhs evaluates a place that is not a local variable twice: once to
\* store and once, as the left operand, to load.
GenAssignOp(k, e, mode) ==
  IF e.x[1].k = "local"
  THEN HandleMode(GenBinop(k, LocalReg(e.x[1].s), e.s, e.x[1], e.x[2]), mode, LocalReg(e.x[1].s))
  ELSE LET c == EvalLvalue(k, e.x[1])
           load == IF e.x[1].k = "send" THEN Call("", e.x[1].x[1], <<>>) ELSE e.x[1]
           c2 == GenBinop(c, None, e.s, load, e.x[2])
       IN PushResult(GenAssign(c2, NextReg(c), Place(k, e.x[1])), k.temp, mode, NextReg(c))

-----------------------------------------------------------------------------
(* Conditions and loops.                                                   *)

RECURSIVE GenOptCondBr(_, _, _, _)

GenBoth(k, jmp_if_true, l, r, else) ==
  GenOptCondBr(GenOptCondBr(k, jmp_if_true, l, else), jmp_if_true, r, else)
GenEither(k, jmp_if_true, l, r, else) ==
  LET cont == LastLabel(k) + 1
      c == GenOptCondBr(NewLabel(k), ~jmp_if_true, l, cont)
  IN ApplyLabel(GenOptCondBr(c, jmp_if_true, r, else), cont)

\* A branch to else if cond is true, or if it is false.
GenOptCondBr(k, jmp_if_true, cond, else) ==
  LET kind == IF jmp_if_true THEN "if" ELSE "ifnot"
  IN CASE cond.k = "bin" /\ cond.s \in CmpKinds ->
            CondBr(Pop(GenCmp(k, None, cond, "opt")), kind, "opt", NextReg(k), else)
       [] (cond.k = "and" /\ ~jmp_if_true) \/ (cond.k = "or" /\ jmp_if_true) ->
            GenBoth(k, jmp_if_true, cond.x[1], cond.x[2], else)
       [] (cond.k = "or" /\ ~jmp_if_true) \/ (cond.k = "and" /\ jmp_if_true) ->
            GenEither(k, jmp_if_true, cond.x[1], cond.x[2], else)
       [] OTHER -> CondBr(TempExpr(k, cond), kind, "plain", RegOf(k, cond), else)

\* The register of the first branch is not free again in the second.
GenIf_NoPop(k, e, mode) ==
  LET else == LastLabel(k) + 1
      succ == LastLabel(k) + 2
      c1 == GenOptCondBr(NewLabel(NewLabel(k)), FALSE, e.x[1], else)
      c2 == Gen(c1, e.x[2], mode)
      c3 == IF mode = "ret" THEN c2 ELSE Br(c2, succ)
  IN ApplyLabel(Gen(ApplyLabel(c3, else), e.x[3], mode), succ)
GenIf(k, e, mode) ==
  LET else == LastLabel(k) + 1
      succ == LastLabel(k) + 2
      c1 == GenOptCondBr(NewLabel(NewLabel(k)), FALSE, e.x[1], else)
      c2 == Gen(c1, e.x[2], mode)
      c3 == CASE mode = "ret" -> c2
              [] mode = "not" -> Br(c2, succ)
              [] mode = "use" -> Pop(Br(c2, succ))
  IN ApplyLabel(Gen(ApplyLabel(c3, else), e.x[3], mode), succ)

EnterLoop(k, l, use) ==
  [k EXCEPT !.loops = Append(@, [break_pos |-> l, ret_reg |-> IF use THEN NextReg(k) ELSE None])]
\* Mutated: a break leads behind the end of the loop.
LeaveLoop_BreaksBehind(k, l) ==
  ApplyLabel(Emit([k EXCEPT !.loops = Front(@)], <<"LoopEnd">>, None, None, None), l)
LeaveLoop(k, l) ==
  Emit(ApplyLabel([k EXCEPT !.loops = Front(@)], l), <<"LoopEnd">>, None, None, None)
LoopStart(k, l) == Emit(ApplyLabel(k, l), <<"LoopStart">>, None, None, None)
NilIf(k, use) == IF use THEN Emit(Push(k), <<"Nil">>, NextReg(k), None, None) ELSE k

GenWhile(k, e, use) ==
  LET n == LastLabel(k)       \* labels n + 1: cond_pos, n + 2: succ_pos, n + 3: break_pos
      c1 == LoopStart(EnterLoop(NewLabel(NewLabel(NewLabel(k))), n + 3, use), n + 1)
      c2 == GenOptCondBr(c1, e.s = "until", e.x[1], n + 2)
      c3 == Br(Gen(c2, e.x[2], "not"), n + 1)
  IN LeaveLoop(NilIf(ApplyLabel(c3, n + 2), use), n + 3)

GenWhileBeginPostfix(k, e, use) ==
  LET n == LastLabel(k)       \* labels n + 1: loop_pos, n + 2: break_pos
      c1 == LoopStart(EnterLoop(NewLabel(NewLabel(k)), n + 2, use), n + 1)
      c2 == GenOptCondBr(Gen(c1, e.x[2], "not"), e.s # "until", e.x[1], n + 1)
  IN LeaveLoop(NilIf(c2, use), n + 2)

\* The end of the range, and the range if the value is used, are held in
\* temporaries while the body runs.
GenFor(k, e, use) ==
  LET n == LastLabel(k)       \* labels n + 1: break_pos, n + 2: entry, n + 3: exit
      counter == LocalReg(e.s)
      c1 == EnterLoop(NewLabel(k), n + 1, use)
      c2 == GenStore(NewLabel(NewLabel(c1)), counter, e.x[1])
      c3 == IF use THEN Push(c2) ELSE c2
      end == NextReg(c3)
      c4 == Gen(c3, e.x[2], "use")
      c5 == IF use THEN Emit(c4, <<"Range", "incl">>, NextReg(c2), counter, end) ELSE c4
      c6 == LoopStart(c5, n + 2)
      c7 == Emit(Push(c6), <<"Cmp", "gt", "opt">>, NextReg(c6), counter, end)
      c8 == Pop(CondBr(c7, "if", "opt", NextReg(c6), n + 3))
      c9 == Emit(Gen(c8, e.x[3], "not"), <<"BinOpRi", "add">>, counter, counter, Number(1))
  IN LeaveLoop(Pop(ApplyLabel(Br(c9, n + 2), n + 3)), n + 1)

GenBreak(k, e) ==
  IF k.loops = <<>> THEN Panic(k, "break outside of a loop")
  ELSE LET loop == Last(k.loops)
           c == IF loop.ret_reg = None THEN k
                ELSE Mov(TempExpr(k, e.x[1]), loop.ret_reg, RegOf(k, e.x[1]))
       IN Br(c, loop.break_pos)

GenReturn(k, e, mode) ==
  LET c == IF e.x[1].k = "local" THEN RetReg(k, LocalReg(e.x[1].s)) ELSE Gen(k, e.x[1], "ret")
  IN IF mode = "use" THEN Panic(c, "return used as a value") ELSE c

-----------------------------------------------------------------------------
(* Expressions.                                                            *)

AllButLast(k, es) ==
  IF es = <<>> THEN k ELSE FoldLeft(LAMBDA c, e : Gen(c, e, "not"), k, Front(es))
LastOf(es) == IF es = <<>> THEN NilNode ELSE Last(es)

RetIf(k, mode) == IF mode = "ret" THEN RetTop(k) ELSE k

GenSuper(k, e) == IF e.x = <<>> THEN k ELSE TempExpr(k, e.x[1])
GenClassDef(k, e, ret) ==
  Emit(GenSuper(k, e), <<"ClassDef">>, ret,
       None, IF e.x = <<>> THEN None ELSE RegOf(k, e.x[1]))

GenMethodDef(k, mode) ==
  LET c == Emit(k, <<"MethodDef">>, None, None, None)
  IN IF mode = "not" THEN c
     ELSE RetIf(Emit(Push(c), <<"Symbol">>, NextReg(c), None, Number(0)), mode)

\* The pieces of a string are pushed; the string takes the place of the first.
GenStr(k, e, mode) ==
  LET c == SetTemp(PushAll(k, e.x), k.temp)
      ret == IF mode = "not" THEN None ELSE NextReg(k)
  IN Emit(IF mode = "not" THEN c ELSE Push(c), <<"ConcatStr">>, ret, NextReg(k), Number(Len(e.x)))

\* Expressions compiled alike to a register and to a new temporary.
Direct == {"nil", "int", "array", "range", "index", "bin", "and", "or"}

GenDirect(k, dst, e) ==
  CASE e.k = "nil" -> Emit(PushUnless(k, dst), <<"Nil">>, GetReg(k, dst), None, None)
    [] e.k = "int" -> Emit(PushUnless(k, dst), <<"Integer">>, GetReg(k, dst), None, Number(e.i))
    [] e.k = "array" -> GenArray(k, dst, e.x)
    [] e.k = "range" -> GenRange(k, dst, e.x[1], e.x[2])
    [] e.k = "index" -> GenIndex(k, dst, e.x[1], e.x[2])
    [] e.k = "bin" -> GenBinop(k, dst, e.s, e.x[1], e.x[2])
    [] OTHER -> GenBinop(k, dst, e.k, e.x[1], e.x[2])

GenExpr(k, e, mode) ==
  LET ret == IF mode = "not" THEN None ELSE NextReg(k)
      c == IF mode = "not" THEN k ELSE Push(k)
  IN IF mode = "not" /\ e.k \in Pure THEN k ELSE
     CASE e.k \in Direct -> Finish(GenDirect(k, None, e), mode)
       [] e.k = "self" -> Finish(TempMov(k, Self_), mode)
       [] e.k = "local" -> HandleMode(k, mode, LocalReg(e.s))
       [] e.k = "cell" -> Finish(GenLoad(Push(k), e.s, NextReg(k)), mode)
       [] e.k = "neg" ->
            Finish(Emit(Gen(k, e.x[1], "use"), <<"Neg">>, NextReg(k), NextReg(k), None), mode)
       [] e.k = "assign" -> GenAssignExpr(k, e, mode)
       [] e.k = "opassign" -> GenAssignOp(k, e, mode)
       [] e.k = "mulassign" -> GenMulAssign(k, e, mode)
       [] e.k = "call" -> RetIf(GenCall(c, e, ret), mode)
       [] e.k = "yield" -> RetIf(GenYield(c, e.x, ret), mode)
       [] e.k = "if" -> GenIf(k, e, mode)
       [] e.k = "while" -> RetIf(GenWhile(k, e, mode # "not"), mode)
       [] e.k = "dowhile" -> RetIf(GenWhileBeginPostfix(k, e, mode # "not"), mode)
       [] e.k = "for" -> RetIf(GenFor(k, e, mode # "not"), mode)
       [] e.k = "break" -> GenBreak(k, e)
       [] e.k = "return" -> GenReturn(k, e, mode)
       [] e.k = "stmts" -> Gen(AllButLast(k, e.x), LastOf(e.x), mode)
       [] e.k = "beginelse" -> Gen(Gen(k, e.x[1], "not"), e.x[2], mode)
       [] e.k = "ensure" -> Gen(Gen(k, e.x[1], mode), e.x[2], "not")
       [] e.k = "mdef" -> GenMethodDef(k, mode)
       [] e.k = "cdef" -> RetIf(GenClassDef(c, e, ret), mode)
       [] e.k = "str" -> RetIf(GenStr(k, e, mode), mode)

GenStoreExpr(k, dst, e) ==
  CASE e.k \in Direct -> GenDirect(k, dst, e)
    [] e.k = "self" -> Mov(k, dst, Self_)
    [] e.k = "local" -> Mov(k, dst, LocalReg(e.s))
    [] e.k = "cell" /\ e.s \in {"const", "ivar"} -> GenLoad(k, e.s, dst)
    [] e.k = "neg" /\ e.x[1].k = "int" -> Emit(k, <<"Integer">>, dst, None, Number(-e.x[1].i))
    [] e.k = "neg" /\ e.x[1].k # "int" ->
         Emit(GenStore(k, dst, e.x[1]), <<"Neg">>, dst, dst, None)
    [] e.k = "assign" /\ e.x[1].k = "local" ->
         Mov(GenStore(k, LocalReg(e.x[1].s), e.x[2]), dst, LocalReg(e.x[1].s))
    [] e.k = "assign" /\ e.x[1].k # "local" ->
         SetTemp(GenAssign(GenStore(EvalLvalue(k, e.x[1]), dst, e.x[2]), dst, Place(k, e.x[1])),
                 k.temp)
    [] e.k = "mulassign" ->
         LET c == Pop(GenMulAssign(k, e, "use")) IN Mov(c, dst, NextReg(c))
    [] e.k = "call" -> GenCall(k, e, dst)
    [] e.k = "return" -> Panic(k, "return stored")
    [] e.k = "stmts" -> GenStore(AllButLast(k, e.x), dst, LastOf(e.x))
    [] e.k = "cdef" -> GenClassDef(k, e, dst)
    [] OTHER -> Pop(Mov(Gen(k, e, "use"), dst, NextReg(k)))

GenInto(k, e, mode, dst) ==
  IF mode = "store" THEN GenStoreExpr(k, dst, e) ELSE GenExpr(k, e, mode)

-----------------------------------------------------------------------------
(* A function: an array that is passed for destructured parameters is      *)
(* expanded, optional parameters that were not passed get their values,    *)
(* then comes the body.                                                    *)

GenOptional(k, o) ==
  LET next == LastLabel(k) + 1
      c == Emit(NewLabel(k), <<"CheckLocal">>, LocalReg(o.name), None, Label(next))
  IN ApplyLabel(GenStore(c, LocalReg(o.name), o.init), next)

GenExpand(k, x) == Emit(k, <<"ExpandArray">>, LocalReg(x.src), LocalReg(x.dst), Number(x.len))

CheckedAtEnd(k) == IF k.temp = 0 THEN k ELSE Panic(k, "temp at the end")
CompileFunc(p) ==
  LET init == IF p.is_block THEN <<"InitBlock">> ELSE <<"InitMethod">>
      c == Emit(NewContext, init, None, None, None)
      params == FoldLeft(GenOptional, FoldLeft(GenExpand, c, p.expand), p.optional)
  IN CheckedAtEnd(Gen(params, p.body, "ret"))
=============================================================================
