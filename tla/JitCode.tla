------------------------------- MODULE JitCode -------------------------------
(***************************************************************************)
(* The bytecode of a function as the JIT compiler walks over it: the       *)
(* instructions, where they lead, and the slots that the analysis of loops *)
(* marks.                                                                  *)
(***************************************************************************)
EXTENDS Words

\* The instruction that word j decodes to (DecodersAgree).
Op(j) == unit.ir[j].op[1]

Size == Len(code)

\* The word behind the arguments of a call is skipped.
Insts == {j \in DOMAIN code : j = 1 \/ code[j - 1].code # 130}
Follow(j) == IF code[j].code = 130 THEN j + 2 ELSE j + 1

Dest(j) == j + 1 + Value32(code[j])
Slots == 0..code[1].o1 - 1

-----------------------------------------------------------------------------
(* LoopAnalysis.                                                           *)

HasBlock(j) == code[j - 1].code = 19
ArgSlots(j) == code[j].o2..code[j].o2 + code[j].o3 - 1

\* The slots that scan_bb marks as used by instruction j, and as set by it.
UsedSlots(j) ==
  LET w == code[j]
  IN CASE Op(j) \in {"StoreIvar", "StoreGvar", "CondBr", "ExpandArray"} -> {w.o1}
       [] Op(j) \in {"Neg", "BinOpRi", "Cmpri", "Mov"} -> {w.o2}
       [] Op(j) \in {"BinOp", "Cmp", "Range"} -> {w.o2, w.o3}
       [] Op(j) \in {"BinOpIr", "StoreDynVar"} -> {w.o3}
       [] Op(j) \in {"ConcatStr", "Yield"} -> ArgSlots(j)
       [] Op(j) = "MethodArgs" ->
            {w.o1} \cup ArgSlots(j) \cup (IF HasBlock(j) THEN {w.o2 + w.o3} ELSE {})
       [] OTHER -> {}
DefSlots(j) ==
  CASE Op(j) \in {"Integer", "Symbol", "Literal", "Nil", "Array", "Index", "Range", "ClassDef",
                  "LoadConst", "BlockArgProxy", "LoadDynVar", "LoadIvar", "LoadGvar", "Neg",
                  "BinOp", "BinOpRi", "BinOpIr", "Cmp", "Cmpri", "Mov", "ConcatStr", "Yield"} ->
         {code[j].o1} \ {0}
    [] Op(j) = "ExpandArray" -> ArgSlots(j)
    [] Op(j) = "MethodArgs" -> {code[j - 1].o1} \ {0}
    [] OTHER -> {}
DefinesFirst(j) == Op(j) \in {"Range", "ExpandArray"}

\* The slots that executing instruction j reads.
ReadSlots(j) ==
  LET w == code[j]
  IN CASE Op(j) \in {"StoreConst", "CheckLocal", "Ret"} -> {w.o1}
       [] Op(j) = "ClassDef" -> {w.o3} \ {0}
       [] Op(j) = "Index" -> {w.o2, w.o3}
       [] Op(j) = "StoreIndex" -> {w.o1, w.o2, w.o3}
       [] Op(j) = "Array" -> ArgSlots(j)
       [] OTHER -> UsedSlots(j)

\* Reads that scan_bb does not mark, though they are no returns; that of a
\* Range, or of an array that is expanded, into one of its operands is among
\* them.
Unmarked(j) ==
  \/ Op(j) \in {"StoreConst", "CheckLocal", "ClassDef", "Index", "StoreIndex", "Array"}
  \/ DefinesFirst(j) /\ DefSlots(j) \cap UsedSlots(j) # {}
=============================================================================
