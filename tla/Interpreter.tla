----------------------------- MODULE Interpreter -----------------------------
(***************************************************************************)
(* The interpreter: it fetches the words of a function, decodes and        *)
(* executes them on a frame of registers.                                  *)
(*                                                                         *)
(* What other code does is left open: every call and every comparison of   *)
(* objects is an event in trace, and the truth of its result is chosen     *)
(* freely for the first MaxCalls of them; later ones follow a pattern that *)
(* ends every loop.                                                        *)
(***************************************************************************)
EXTENDS Words, RubyValues, Fixnum

CONSTANTS
  Units,      \* the functions that run
  MaxCalls,   \* how many results are chosen freely
  MaxSlot     \* the registers that exist beyond the frame of a function

ASSUME BytecodeAssumption ==
  MaxCalls \in Nat /\ MaxSlot \in Nat /\ \E j \in DOMAIN LocalNames : LocalNames[j] = "a"

VARIABLES
  regs,       \* the registers, of the frame and below it
  cells,      \* an instance variable, a global, a constant, an outer variable
  trace,      \* what the function called, in order
  oracle,     \* the truth of the results it got
  status,     \* "running", "halted" or "rejected"
  ret

vars == <<unit, pc, regs, cells, trace, oracle, status, ret>>

\* A function that the compiler accepted is encoded from its instructions,
\* which are typed; a cache comes after a call.
FollowsCall(k, j) ==
  \E d \in {1, 2} : d < j /\ k.ir[j - d].op \in {<<"MethodCall">>, <<"MethodCallBlock">>}
ASSUME UnitsAssumption ==
  \A u \in Units :
    /\ u.accepted \in BOOLEAN
    /\ u.code = IF u.accepted THEN Encode(u) ELSE <<>>
    /\ u.accepted =>
         /\ Len(u.ir) \in Nat \ {0} /\ DOMAIN u.ir = 1..Len(u.ir)
         /\ u.temp_num \in Nat
         /\ \A j \in DOMAIN u.ir :
              IsTyped(u, j) /\ (u.ir[j].op = <<"InlineCache">> => FollowsCall(u, j))

prog == unit.prog

CellNames == {"const", "ivar", "gvar", "dyn"}
CellsAtStart == [s \in CellNames |-> <<"cell", s>>]

-----------------------------------------------------------------------------
(* The interpreter.                                                        *)

W == code[pc]
H == Dispatch(W.code)
Running(op) == status = "running" /\ pc \in DOMAIN code /\ H[1] = op

Regs(first, n) == [j \in 1..n |-> regs[first + j - 1]]
Set(s, v) == [regs EXCEPT ![s] = v]
SetUnlessZero(r, s, v) == IF s = 0 THEN r ELSE [r EXCEPT ![s] = v]

Next1 == pc' = pc + 1
Called(ev) == trace' = Append(trace, ev)
Quiet == UNCHANGED <<trace, oracle>>
Same == UNCHANGED <<unit, status, ret>>

\* The result of a call or of a comparison.
Picks ==
  IF Len(oracle) < MaxCalls THEN BOOLEAN ELSE {(Len(oracle) \div 5) % 2 = 1}
Result(p) == <<"res", Len(oracle) + 1, p>>

\* The registers of a frame that no argument was written to hold what was
\* there before; the prologue of the function clears those it knows of.
InitFrame ==
  /\ Running("InitMethod") \/ Running("InitBlock")
  /\ regs' = [s \in DOMAIN regs |->
                IF regs[s] = <<"junk">> /\ s < W.o1 THEN Nil ELSE regs[s]]
  /\ Next1 /\ Quiet /\ Same /\ UNCHANGED cells

LoadImmediate ==
  /\ \E op \in {"Integer", "Literal", "Nil", "Symbol", "BlockArgProxy"} :
       /\ Running(op)
       /\ regs' = Set(W.o1, CASE op = "Integer" -> IntVal(Value32(W))
                              [] op = "Literal" -> <<"block">>
                              [] op = "Nil" -> Nil
                              [] op = "Symbol" -> <<"sym">>
                              [] op = "BlockArgProxy" -> <<"proxy">>)
  /\ Next1 /\ Quiet /\ Same /\ UNCHANGED cells

Move ==
  /\ Running("Mov")
  /\ regs' = Set(W.o1, regs[W.o2])
  /\ Next1 /\ Quiet /\ Same /\ UNCHANGED cells

LoadVar ==
  /\ \E s \in {"const", "ivar", "gvar"} : Running(Load[s]) /\ regs' = Set(W.o1, cells[s])
  /\ Next1 /\ Quiet /\ Same /\ UNCHANGED cells
StoreVar ==
  /\ \E s \in {"const", "ivar", "gvar"} :
       Running(Store[s]) /\ cells' = [cells EXCEPT ![s] = regs[W.o1]]
  /\ Next1 /\ Quiet /\ Same /\ UNCHANGED regs

\* Register 1 of the frame one level out is the one the programs name.
LoadDvar ==
  /\ Running("LoadDynVar")
  /\ <<W.o2, W.o3>> = <<1, 1>>
  /\ regs' = SetUnlessZero(regs, W.o1, cells["dyn"])
  /\ Next1 /\ Quiet /\ Same /\ UNCHANGED cells
StoreDvar ==
  /\ Running("StoreDynVar")
  /\ <<W.o1, W.o2>> = <<1, 1>>
  /\ cells' = [cells EXCEPT !["dyn"] = regs[W.o3]]
  /\ Next1 /\ Quiet /\ Same /\ UNCHANGED regs

\* The branch is relative to the branch itself.
BranchIf_FromHere(cond) == pc' = pc + (IF cond THEN Value32(W) ELSE 0)
BranchIf(cond) == pc' = pc + 1 + (IF cond THEN Value32(W) ELSE 0)
Branch ==
  /\ \/ Running("Br") /\ BranchIf(TRUE)
     \/ Running("CondBr") /\ BranchIf(Truthy(regs[W.o1]) = (H[2] = "if"))
     \/ Running("CheckLocal") /\ BranchIf(regs[W.o1] # Unset)
  /\ Quiet /\ Same /\ UNCHANGED <<regs, cells>>

\* A loop counts how often it starts; that it is compiled is not modelled here.
LoopMark ==
  /\ Running("LoopStart") \/ Running("LoopEnd")
  /\ Next1 /\ Quiet /\ Same /\ UNCHANGED <<regs, cells>>

LeftOperand == IF H[1] = "BinOpIr" THEN IntVal(S16(W.o2)) ELSE regs[W.o2]
RightOperand == IF H[1] \in {"BinOpRi", "Cmpri"} THEN IntVal(S16(W.o3)) ELSE regs[W.o3]

BinaryOp ==
  /\ \E op \in {"BinOp", "BinOpRi", "BinOpIr"} : Running(op)
  /\ regs' = Set(W.o1, ArithVal(H[2], LeftOperand, RightOperand))
  /\ IF IsConcrete(H[2], LeftOperand, RightOperand) THEN UNCHANGED trace
     ELSE Called(<<H[2], LeftOperand, RightOperand>>)
  /\ Next1 /\ Same /\ UNCHANGED <<cells, oracle>>

CompareInts ==
  /\ Running("Cmp") \/ Running("Cmpri")
  /\ IsInt(LeftOperand) /\ IsInt(RightOperand)
  /\ regs' = Set(W.o1, <<"bool", CmpInts(H[2], LeftOperand[2], RightOperand[2])>>)
  /\ Next1 /\ Quiet /\ Same /\ UNCHANGED cells
CompareObjects ==
  /\ Running("Cmp") \/ Running("Cmpri")
  /\ ~(IsInt(LeftOperand) /\ IsInt(RightOperand))
  /\ \E p \in Picks : oracle' = Append(oracle, p) /\ regs' = Set(W.o1, <<"bool", p>>)
  /\ Called(<<H[2], LeftOperand, RightOperand>>)
  /\ Next1 /\ Same /\ UNCHANGED cells

Negate ==
  /\ Running("Neg")
  /\ LET v == regs[W.o2]
     IN IF IsInt(v) THEN regs' = Set(W.o1, IntVal(-v[2])) /\ UNCHANGED trace
        ELSE regs' = Set(W.o1, <<"neg", v>>) /\ Called(<<"neg", v>>)
  /\ Next1 /\ Same /\ UNCHANGED <<cells, oracle>>

MakeArray ==
  /\ Running("Array")
  /\ regs' = Set(W.o1, <<"array", Regs(W.o2, W.o3)>>)
  /\ Next1 /\ Quiet /\ Same /\ UNCHANGED cells
MakeRange ==
  /\ Running("Range")
  /\ regs' = Set(W.o1, <<"range", regs[W.o2], regs[W.o3]>>)
  /\ Next1 /\ Quiet /\ Same /\ UNCHANGED cells
Concat ==
  /\ Running("ConcatStr")
  /\ regs' = SetUnlessZero(regs, W.o1, <<"str", Regs(W.o2, W.o3)>>)
  /\ Next1 /\ Quiet /\ Same /\ UNCHANGED cells

GetIndex ==
  /\ Running("Index")
  /\ regs' = Set(W.o1, <<"index", regs[W.o2], regs[W.o3]>>)
  /\ Called(<<"index", regs[W.o2], regs[W.o3]>>)
  /\ Next1 /\ Same /\ UNCHANGED <<cells, oracle>>
SetIndex ==
  /\ Running("StoreIndex")
  /\ Called(<<"setindex", regs[W.o2], regs[W.o3], regs[W.o1]>>)
  /\ Next1 /\ Same /\ UNCHANGED <<regs, cells, oracle>>

\* Mutated: the cache of the call is executed.
AfterCall_NoCache == pc' = pc + 2
\* The arguments and the cache of a call are skipped.
AfterCall == pc' = pc + 3
\* The word after a call names the receiver, the first argument and their
\* number; with a block, the block is before the arguments.  The block the
\* programs pass assigns to the local variable a of this frame.
CallMethod ==
  /\ Running("MethodCall") \/ Running("MethodCallBlock")
  /\ LET args == code[pc + 1]
         has_block == H[1] = "MethodCallBlock"
         blk == IF has_block THEN regs[args.o2] ELSE Nil
         first == args.o2 + (IF has_block THEN 1 ELSE 0)
         after == IF blk = <<"block">> THEN Set(LocalNo("a"), <<"blk", Len(oracle) + 1>>) ELSE regs
     IN /\ Called(<<"call", regs[args.o1], Regs(first, args.o3), blk>>)
        /\ \E p \in Picks :
             /\ oracle' = Append(oracle, p)
             /\ regs' = SetUnlessZero(after, W.o1, Result(p))
  /\ AfterCall
  /\ Same /\ UNCHANGED cells

YieldBlock ==
  /\ Running("Yield")
  /\ Called(<<"yield", Regs(W.o2, W.o3)>>)
  /\ \E p \in Picks :
       oracle' = Append(oracle, p) /\ regs' = SetUnlessZero(regs, W.o1, Result(p))
  /\ Next1 /\ Same /\ UNCHANGED cells

DefineMethod ==
  /\ Running("MethodDef")
  /\ Called(<<"def">>)
  /\ Next1 /\ Same /\ UNCHANGED <<regs, cells, oracle>>

\* The body of the class is a function of its own; its result is stored.
DefineClass ==
  /\ Running("ClassDef")
  /\ Called(<<"class", IF W.o3 = 0 THEN Nil ELSE regs[W.o3]>>)
  /\ \E p \in Picks :
       oracle' = Append(oracle, p) /\ regs' = SetUnlessZero(regs, W.o1, Result(p))
  /\ Next1 /\ Same /\ UNCHANGED cells

Expand ==
  /\ Running("ExpandArray")
  /\ regs' = [s \in DOMAIN regs |->
                IF s \in W.o2..W.o2 + W.o3 - 1 THEN <<"elem", regs[W.o1], s - W.o2>> ELSE regs[s]]
  /\ Next1 /\ Quiet /\ Same /\ UNCHANGED cells

Return_ ==
  /\ Running("Ret")
  /\ ret' = regs[W.o1]
  /\ status' = "halted"
  /\ UNCHANGED <<unit, pc, regs, cells, trace, oracle>>

-----------------------------------------------------------------------------

\* A function that was compiled is called: its arguments are in their
\* registers, and nothing else.
Init ==
  /\ unit \in Units
  /\ status = IF unit.accepted THEN "running" ELSE "rejected"
  /\ pc = 1
  /\ regs = [s \in 0..MaxSlot |->
               IF s = 0 THEN <<"self">>
               ELSE IF s \in DOMAIN LocalNames /\ LocalNames[s] \in DOMAIN prog.args
               THEN prog.args[LocalNames[s]]
               ELSE <<"junk">>]
  /\ cells = CellsAtStart
  /\ trace = <<>>
  /\ oracle = <<>>
  /\ ret = Nil

Next ==
  \/ InitFrame \/ LoadImmediate \/ Move \/ LoadVar \/ StoreVar \/ LoadDvar \/ StoreDvar
  \/ Branch \/ LoopMark \/ BinaryOp \/ CompareInts \/ CompareObjects \/ Negate
  \/ MakeArray \/ MakeRange \/ Concat \/ GetIndex \/ SetIndex \/ CallMethod \/ YieldBlock
  \/ DefineMethod \/ DefineClass \/ Expand \/ Return_

\* A thread that runs the interpreter fetches the next word after every one.
Spec == Init /\ [][Next]_vars /\ WF_vars(Next)

-----------------------------------------------------------------------------
(* Properties.                                                             *)

TypeOK ==
  /\ \A j \in DOMAIN code :
       code[j].code \in 0..255 /\ {code[j].o1, code[j].o2, code[j].o3} \subseteq Unsigned
  /\ pc \in Nat
  /\ DOMAIN regs = 0..MaxSlot
  /\ DOMAIN cells = CellNames
  /\ oracle \in Seq(BOOLEAN)
  /\ status \in {"running", "halted", "rejected"}

\* Every register a word names, as it is decoded, is in the frame that
\* InitMethod reserves: the depth of temporaries that push and pop count is
\* the depth the code needs (functions.rs, total_reg_num).
UsesFirst == {"Integer", "Literal", "Nil", "Symbol", "BlockArgProxy", "LoadConst", "StoreConst",
              "LoadIvar", "StoreIvar", "LoadGvar", "StoreGvar", "CondBr", "CheckLocal",
              "MethodCall", "MethodCallBlock", "Ret", "LoadDynVar"}
SlotsOf(j) ==
  LET w == code[j]
      h == FromBc(w.code)[1]
      block == IF w.code = 130 /\ code[j - 1].code = 19 THEN 1 ELSE 0
  IN IF h \in UsesFirst THEN {w.o1}
     ELSE IF h = "StoreDynVar" THEN {w.o3}
     ELSE IF h = "ClassDef" THEN {w.o1, w.o3}
     ELSE IF h \in {"Mov", "Neg", "Cmpri", "BinOpRi"} THEN {w.o1, w.o2}
     ELSE IF h = "BinOpIr" THEN {w.o1, w.o3}
     ELSE IF h \in {"Cmp", "BinOp", "Index", "StoreIndex", "Range"} THEN {w.o1, w.o2, w.o3}
     ELSE IF h \in {"Array", "ConcatStr", "Yield", "MethodArgs"}
     THEN {w.o1} \cup w.o2..w.o2 + w.o3 + block - 1
     ELSE IF h = "ExpandArray" THEN {w.o1} \cup w.o2..w.o2 + w.o3 - 1
     ELSE {}
InFrame ==
  (pc = 1 /\ code # <<>>) =>
    \A j \in DOMAIN code : ~IsCache(j) \/ code[j].code = 130 => \A s \in SlotsOf(j) : s < code[1].o1

\* The interpreter and the JIT compiler read the same instruction in every
\* word the compiler writes, the one it meant, with the operands it meant: the
\* registers, the sign of an immediate operand, where a branch leads.
Survives(i, o, stored) == (IF i THEN S16(stored) ELSE stored) = SlotOf(o)
ReadsOperands(j, i) ==
  LET w == code[j] IN
  IF i.op[1] \in {"InitMethod", "InitBlock"} THEN w.o1 = RegNum(unit)
  ELSE /\ w.o1 = SlotOf(i.a)
       /\ IF IsWide(w.code)
          THEN /\ i.b[1] # "label" => Survives(i.op[1] = "BinOpIr", i.b, w.o2)
               /\ i.c[1] # "label" => Survives(i.op[1] \in {"BinOpRi", "Cmpri"}, i.c, w.o3)
          ELSE IF i.c[1] = "label" THEN j + 1 + Value32(w) = unit.labels[i.c[2]]
          ELSE Value32(w) = SlotOf(i.c)
Reads(j, i) ==
  LET w == code[j] IN
  /\ FromBc(w.code) = i.op
  /\ Dispatch(w.code) \in {<<"undefined">>,
                           IF i.op[1] \in {"CondBr", "Cmp", "Cmpri"} THEN <<i.op[1], i.op[2]>> ELSE i.op}
  /\ ReadsOperands(j, i)
DecodersAgree ==
  (pc = 1 /\ code # <<>>) =>
    \A j \in DOMAIN code : ~IsCache(j) \/ code[j].code = 130 => Reads(j, unit.ir[j])

\* What the interpreter takes for granted of the code it is given: there is a
\* handler for every instruction, and whatever comes after it is one: no
\* branch leads, and nothing falls, into the cache of a call or out of the
\* code.  (get_bb_info, functions.rs:877, asserts some of this.)
After(j) ==
  LET w == code[j]
      h == Dispatch(w.code)[1]
      next == IF h \in {"MethodCall", "MethodCallBlock"} THEN j + 3 ELSE j + 1
  IN (IF h \in {"Br", "CondBr", "CheckLocal"} THEN {j + 1 + Value32(w)} ELSE {})
     \cup (IF h \in {"Br", "Ret"} THEN {} ELSE {next})
CodeIsClosed ==
  (pc = 1 /\ code # <<>>) =>
    /\ FromBc(code[1].code)[1] \in {"InitMethod", "InitBlock"}
    /\ \A j \in DOMAIN code : InstructionStart(j) =>
         /\ Dispatch(code[j].code) # <<"undefined">>
         /\ \A k \in After(j) : InstructionStart(k)

\* The interpreter is always at an instruction that it has a handler for.
StaysInCode ==
  status = "running" => InstructionStart(pc) /\ H # <<"undefined">>

\* No instruction writes a register beyond the frame: it may belong to the
\* caller, or hold the arguments of the next call.
StaysInFrame ==
  [][\A s \in DOMAIN regs : s >= code[1].o1 => regs'[s] = regs[s]]_vars

FormOf == [BinOp |-> "rr", BinOpRi |-> "ri", BinOpIr |-> "ir"]
IsInst(h) == Dispatch(Opcode(h)) = h
Exactness ==
  {<<h, IsInst(h) /\ BinaryExact(h[2], FormOf[h[1]])>> : h \in (DOMAIN FormOf) \X (DOMAIN BinNo)}
  \cup {<<h, CompareExact(h[2])>> : h \in {"Cmp", "Cmpri"} \X (DOMAIN CmpNo)}
  \cup {<<<<"Neg">>, NegExact>>}

\* Whatever Integers an arithmetic instruction meets, around every boundary
\* of the representation, the interpreter's handler and the code compiled for
\* the instruction give the Integer that Ruby's unbounded arithmetic gives, in
\* its one representation, except where Inexact, IntoSign, NegExact and
\* Unordered name a known difference; a comparison of Floats agrees between
\* the tiers.  (The comment on vm_remrr, vmgen.rs:1015, knows of the first.)
ArithmeticExact ==
  \A i \in {"BinOp", "BinOpRi", "BinOpIr", "Cmp", "Cmpri", "Neg"} :
    Running(i) => <<H, TRUE>> \in Exactness
=============================================================================
