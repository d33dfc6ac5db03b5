------------------------------ MODULE Encoding ------------------------------
(***************************************************************************)
(* The format of bytecode: an instruction is encoded into a word, with a   *)
(* number that is the index of its handler in the table of the             *)
(* interpreter, and decoded twice, by that table and by the JIT compiler.  *)
(***************************************************************************)
EXTENDS Integers, Sequences

CONSTANT LocalNames     \* the local variables, in the order of their registers

ASSUME LocalNamesAssumption ==
  /\ LocalNames \in Seq(STRING)
  /\ \A i, j \in DOMAIN LocalNames : LocalNames[i] = LocalNames[j] => i = j

-----------------------------------------------------------------------------
(* Words.                                                                  *)

\* The words that are told apart by bit 7 of their number have three 16-bit
\* operands; the others have one and a 32-bit operand in place of two.
IsWide(number) == (number \div 128) % 2 = 1
U16_Unbounded(i) == i
U16(i) == i % 65536
\* Mutated: the least operand is read as a positive one.
S16_Boundary(i) == IF i > 32768 THEN i - 65536 ELSE i
S16(i) == IF i >= 32768 THEN i - 65536 ELSE i
Wide(number, o1, o2, o3) == [code |-> number, o1 |-> U16(o1), o2 |-> U16(o2), o3 |-> U16(o3)]
Long(number, o1, i) == Wide(number, o1, i \div 65536, i)
Value32(w) == S16(w.o2) * 65536 + w.o3

-----------------------------------------------------------------------------
(* Numbers.                                                                *)

Load == [const |-> "LoadConst", ivar |-> "LoadIvar", gvar |-> "LoadGvar"]
Store == [const |-> "StoreConst", ivar |-> "StoreIvar", gvar |-> "StoreGvar"]

CmpNo == [eq |-> 0, ne |-> 1, lt |-> 2, le |-> 3, gt |-> 4, ge |-> 5]
BinNo == [add |-> 0, sub |-> 1, mul |-> 2, div |-> 3, bitor |-> 4, bitand |-> 5,
          bitxor |-> 6, shr |-> 7, shl |-> 8, rem |-> 9, exp |-> 10]
KindNo == [if |-> 0, ifnot |-> 1]
OpNo ==
  [InlineCache |-> 0, MethodCall |-> 1, MethodDef |-> 2, Br |-> 3, Integer |-> 6, Literal |-> 7,
   Nil |-> 8, Symbol |-> 9, LoadConst |-> 10, StoreConst |-> 11, LoopStart |-> 14, LoopEnd |-> 15,
   LoadIvar |-> 16, StoreIvar |-> 17, ClassDef |-> 18, MethodCallBlock |-> 19, CheckLocal |-> 20,
   BlockArgProxy |-> 21, LoadGvar |-> 25, StoreGvar |-> 26, Neg |-> 129, MethodArgs |-> 130,
   Array |-> 131, Index |-> 132, StoreIndex |-> 133, Ret |-> 148, Mov |-> 149,
   LoadDynVar |-> 150, StoreDynVar |-> 151, Yield |-> 152, ConcatStr |-> 155,
   InitMethod |-> 170, ExpandArray |-> 171, InitBlock |-> 172]

\* The operators with a handler for an immediate operand.
Immediate == {"add", "sub", "mul", "div", "exp"}

Opcode(op) ==
  IF op[1] \in DOMAIN OpNo THEN OpNo[op[1]]
  ELSE CASE op[1] = "CondBr" -> KindNo[op[2]] + (IF op[3] = "opt" THEN 12 ELSE 4)
         [] op[1] = "Cmp" -> CmpNo[op[2]] + (IF op[3] = "opt" THEN 156 ELSE 134)
         [] op[1] = "Cmpri" -> CmpNo[op[2]] + (IF op[3] = "opt" THEN 162 ELSE 142)
         [] op[1] = "BinOpIr" -> 180 + BinNo[op[2]]
         [] op[1] = "BinOp" -> 200 + BinNo[op[2]]
         [] op[1] = "BinOpRi" -> 220 + BinNo[op[2]]
         [] op[1] = "Range" -> IF op[2] = "excl" THEN 154 ELSE 153

\* The instructions that there are types for, whether the compiler emits them or not.
Opts == {"plain", "opt"}
Ops ==
  {<<op>> : op \in DOMAIN OpNo} \cup {<<"Range", e>> : e \in {"incl", "excl"}}
  \cup {<<"CondBr", kind, opt>> : kind \in DOMAIN KindNo, opt \in Opts}
  \cup {<<i, kind, opt>> : i \in {"Cmp", "Cmpri"}, kind \in DOMAIN CmpNo, opt \in Opts}
  \cup {<<i, op>> : i \in {"BinOp", "BinOpRi", "BinOpIr"}, op \in DOMAIN BinNo}

-----------------------------------------------------------------------------
(* Encoding.  A compilation k has its instructions in k.ir, the positions  *)
(* of its labels in k.labels and the depth of its temporaries in           *)
(* k.temp_num.                                                             *)

LocalNo(n) == CHOOSE j \in DOMAIN LocalNames : LocalNames[j] = n
SlotOf(o) ==
  IF o[1] = "local" THEN LocalNo(o[2])
  ELSE IF o[1] = "temp" THEN 1 + Len(LocalNames) + o[2]
  ELSE o[2]
RegNum(k) == 1 + Len(LocalNames) + k.temp_num

\* The operand o of the instruction at j: a branch is relative to the next one.
Encoded(k, j, o) == IF o[1] = "label" THEN k.labels[o[2]] - j - 1 ELSE SlotOf(o)

EncodeInst(k, j) ==
  LET i == k.ir[j]
      number == Opcode(i.op)
  IN IF i.op[1] \in {"InitMethod", "InitBlock"} THEN Wide(number, RegNum(k), 0, 0)
     ELSE IF IsWide(number)
     THEN Wide(number, Encoded(k, j, i.a), Encoded(k, j, i.b), Encoded(k, j, i.c))
     ELSE Long(number, Encoded(k, j, i.a), Encoded(k, j, i.c))

Encode(k) == [j \in DOMAIN k.ir |-> EncodeInst(k, j)]

\* What the types of an instruction and its operands say: registers have 16
\* bits, immediate operands 16 with a sign, branches and integers 32 with a
\* sign.  Lengths and the size of the frame are cut to 16 bits without a
\* check: that they fit is assumed.
Half == 32768
Unsigned == 0..2 * Half - 1
Short == -Half..Half - 1
Int32 == (-Half) * 65536..(Half - 1) * 65536 + 65535
IsTyped(k, j) ==
  LET i == k.ir[j] IN
  /\ i.op \in Ops
  /\ i.op[1] \in {"InitMethod", "InitBlock"} => RegNum(k) \in Unsigned
  /\ i.a[1] # "label" /\ Encoded(k, j, i.a) \in Unsigned
  /\ IF IsWide(Opcode(i.op))
     THEN /\ Encoded(k, j, i.b) \in (IF i.op[1] = "BinOpIr" THEN Short ELSE Unsigned)
          /\ Encoded(k, j, i.c) \in (IF i.op[1] \in {"BinOpRi", "Cmpri"} THEN Short ELSE Unsigned)
     ELSE Encoded(k, j, i.c) \in Int32 /\ (i.c[1] = "label" => k.labels[i.c[2]] \in Nat)

-----------------------------------------------------------------------------
(* Decoding: the table of the interpreter's handlers, and the instructions *)
(* the JIT compiler reads.                                                 *)

CmpAt(n) == CHOOSE c \in DOMAIN CmpNo : CmpNo[c] = n
BinAt(n) == CHOOSE c \in DOMAIN BinNo : BinNo[c] = n

Plain == {"MethodCall", "MethodDef", "Br", "Integer", "Literal", "Nil", "Symbol", "LoadConst",
          "StoreConst", "LoopStart", "LoopEnd", "LoadIvar", "StoreIvar", "ClassDef",
          "MethodCallBlock", "CheckLocal", "BlockArgProxy", "LoadGvar", "StoreGvar", "Neg",
          "Array", "Index", "StoreIndex", "Ret", "Mov", "LoadDynVar", "StoreDynVar", "Yield",
          "ConcatStr", "InitMethod", "ExpandArray", "InitBlock"}
PlainAt(names, n) ==
  LET found == {op \in names : OpNo[op] = n}
  IN IF found = {} THEN <<"undefined">> ELSE <<CHOOSE op \in found : TRUE>>

\* The numbers that carry a kind beside their instruction.
Kinded == {4, 5, 12, 13, 153, 154} \cup 134..139 \cup 142..147 \cup 156..167
          \cup 180..190 \cup 200..210 \cup 220..230

\* There is a handler for every operator with an immediate operand that has one.
Handler(i, op) == IF op \in Immediate THEN <<i, op>> ELSE <<"undefined">>
Dispatch(n) ==
  CASE n \in {4, 12} -> <<"CondBr", "if">>
    [] n \in {5, 13} -> <<"CondBr", "ifnot">>
    [] n \in 134..139 -> <<"Cmp", CmpAt(n - 134)>>
    [] n \in 142..147 -> <<"Cmpri", CmpAt(n - 142)>>
    [] n \in {153, 154} -> <<"Range", IF n = 153 THEN "incl" ELSE "excl">>
    [] n \in 156..161 -> <<"Cmp", CmpAt(n - 156)>>
    [] n \in 162..167 -> <<"Cmpri", CmpAt(n - 162)>>
    [] n \in 180..190 -> Handler("BinOpIr", BinAt(n - 180))
    [] n \in 200..210 -> <<"BinOp", BinAt(n - 200)>>
    [] n \in 220..230 -> Handler("BinOpRi", BinAt(n - 220))
    [] n \notin Kinded -> PlainAt(Plain, n)

FromBcLong(n) ==
  CASE n \in 4..5 -> <<"CondBr", IF n = 4 THEN "if" ELSE "ifnot", "plain">>
    [] n \in 12..13 -> <<"CondBr", IF n = 12 THEN "if" ELSE "ifnot", "opt">>
    [] n \notin Kinded -> PlainAt(Plain, n)
FromBcWide(n) ==
  CASE n \in 134..139 -> <<"Cmp", CmpAt(n - 134), "plain">>
    [] n \in 142..147 -> <<"Cmpri", CmpAt(n - 142), "plain">>
    [] n \in 153..154 -> <<"Range", IF n = 153 THEN "incl" ELSE "excl">>
    [] n \in 156..161 -> <<"Cmp", CmpAt(n - 156), "opt">>
    [] n \in 162..167 -> <<"Cmpri", CmpAt(n - 162), "opt">>
    [] n \in 180..190 -> <<"BinOpIr", BinAt(n - 180)>>
    [] n \in 200..210 -> <<"BinOp", BinAt(n - 200)>>
    [] n \in 220..230 -> <<"BinOpRi", BinAt(n - 220)>>
    [] n \notin Kinded -> PlainAt(Plain \cup {"MethodArgs"}, n)
FromBc(n) == IF IsWide(n) THEN FromBcWide(n) ELSE FromBcLong(n)
=============================================================================
