--------------------------- MODULE InterpreterProofs ---------------------------
(***************************************************************************)
(* What an instruction is encoded into is what is decoded, by the          *)
(* interpreter and by the compiler; the interpreter stays in the code and  *)
(* in the frame of a function whose code is closed; its arithmetic is      *)
(* exact.                                                                  *)
(***************************************************************************)
EXTENDS Interpreter, FixnumProofs

-----------------------------------------------------------------------------
(* The tables of numbers.                                                   *)

LEMMA BinNoIs ==
    /\ DOMAIN BinNo = {"add", "sub", "mul", "div", "bitor", "bitand", "bitxor", "shr", "shl", "rem", "exp"}
    /\ BinNo["add"] = 0 /\ BinNo["sub"] = 1 /\ BinNo["mul"] = 2 /\ BinNo["div"] = 3
    /\ BinNo["bitor"] = 4 /\ BinNo["bitand"] = 5 /\ BinNo["bitxor"] = 6 /\ BinNo["shr"] = 7
    /\ BinNo["shl"] = 8 /\ BinNo["rem"] = 9 /\ BinNo["exp"] = 10
BY DEF BinNo

LEMMA CmpNoIs ==
    /\ DOMAIN CmpNo = {"eq", "ne", "lt", "le", "gt", "ge"}
    /\ CmpNo["eq"] = 0 /\ CmpNo["ne"] = 1 /\ CmpNo["lt"] = 2
    /\ CmpNo["le"] = 3 /\ CmpNo["gt"] = 4 /\ CmpNo["ge"] = 5
BY DEF CmpNo

LEMMA KindNoIs == DOMAIN KindNo = {"if", "ifnot"} /\ KindNo["if"] = 0 /\ KindNo["ifnot"] = 1
BY DEF KindNo

LEMMA OpNoIs ==
   /\ DOMAIN OpNo = {"InlineCache", "MethodCall", "MethodDef", "Br", "Integer", "Literal",
        "Nil", "Symbol", "LoadConst", "StoreConst", "LoopStart", "LoopEnd",
        "LoadIvar", "StoreIvar", "ClassDef", "MethodCallBlock", "CheckLocal",
        "BlockArgProxy", "LoadGvar", "StoreGvar", "Neg", "MethodArgs",
        "Array", "Index", "StoreIndex", "Ret", "Mov",
        "LoadDynVar", "StoreDynVar", "Yield", "ConcatStr",
        "InitMethod", "ExpandArray", "InitBlock"}
   /\ OpNo["InlineCache"] = 0 /\ OpNo["MethodCall"] = 1 /\ OpNo["MethodDef"] = 2 /\ OpNo["Br"] = 3
   /\ OpNo["Integer"] = 6 /\ OpNo["Literal"] = 7 /\ OpNo["Nil"] = 8 /\ OpNo["Symbol"] = 9
   /\ OpNo["LoadConst"] = 10 /\ OpNo["StoreConst"] = 11
   /\ OpNo["LoopStart"] = 14 /\ OpNo["LoopEnd"] = 15
   /\ OpNo["LoadIvar"] = 16 /\ OpNo["StoreIvar"] = 17 /\ OpNo["ClassDef"] = 18
   /\ OpNo["MethodCallBlock"] = 19 /\ OpNo["CheckLocal"] = 20
   /\ OpNo["BlockArgProxy"] = 21 /\ OpNo["LoadGvar"] = 25 /\ OpNo["StoreGvar"] = 26
   /\ OpNo["Neg"] = 129 /\ OpNo["MethodArgs"] = 130 /\ OpNo["Array"] = 131
   /\ OpNo["Index"] = 132 /\ OpNo["StoreIndex"] = 133 /\ OpNo["Ret"] = 148 /\ OpNo["Mov"] = 149
   /\ OpNo["LoadDynVar"] = 150 /\ OpNo["StoreDynVar"] = 151
   /\ OpNo["Yield"] = 152 /\ OpNo["ConcatStr"] = 155
   /\ OpNo["InitMethod"] = 170 /\ OpNo["ExpandArray"] = 171 /\ OpNo["InitBlock"] = 172
BY DEF OpNo

(* No number is given twice. *)
LEMMA BinAtIs ==
    /\ \A op \in DOMAIN BinNo : BinNo[op] \in 0..10 /\ BinAt(BinNo[op]) = op
    /\ \A n \in 0..10 : BinAt(n) \in DOMAIN BinNo
<1>1. \A a, b \in DOMAIN BinNo : BinNo[a] = BinNo[b] => a = b
  <2> HIDE DEF BinNo
  <2> QED BY BinNoIs
<1>2. \A op \in DOMAIN BinNo : BinNo[op] \in 0..10
  <2> HIDE DEF BinNo
  <2> QED BY BinNoIs
<1>3. ASSUME NEW n \in 0..10 PROVE \E op \in DOMAIN BinNo : BinNo[op] = n
  <2> HIDE DEF BinNo
  <2> QED BY BinNoIs
<1> HIDE DEF BinNo
<1> QED BY <1>1, <1>2, <1>3 DEF BinAt

LEMMA CmpAtIs ==
    /\ \A c \in DOMAIN CmpNo : CmpNo[c] \in 0..5 /\ CmpAt(CmpNo[c]) = c
    /\ \A n \in 0..5 : CmpAt(n) \in DOMAIN CmpNo
<1>1. \A a, b \in DOMAIN CmpNo : CmpNo[a] = CmpNo[b] => a = b BY CmpNoIs
<1>2. \A c \in DOMAIN CmpNo : CmpNo[c] \in 0..5 BY CmpNoIs
<1>3. ASSUME NEW n \in 0..5 PROVE \E c \in DOMAIN CmpNo : CmpNo[c] = n BY CmpNoIs
<1> QED BY <1>1, <1>2, <1>3 DEF CmpAt

LEMMA PlainAtIs ==
    ASSUME NEW names \in SUBSET DOMAIN OpNo, NEW op \in names
    PROVE  PlainAt(names, OpNo[op]) = <<op>>
<1>1. \A a, b \in DOMAIN OpNo : OpNo[a] = OpNo[b] => a = b BY OpNoIs
<1> DEFINE found == {p \in names : OpNo[p] = OpNo[op]}
<1>2. op \in found /\ found # {} OBVIOUS
<1>3. \A p \in found : p = op BY <1>1
<1>4. PlainAt(names, OpNo[op]) = <<CHOOSE p \in found : TRUE>> BY <1>2 DEF PlainAt
<1> HIDE DEF found
<1>5. (CHOOSE p \in found : TRUE) = op BY <1>2, <1>3
<1> QED BY <1>4, <1>5

LEMMA PlainAtNone ==
    ASSUME NEW names, NEW n, \A p \in names : OpNo[p] # n
    PROVE  PlainAt(names, n) = <<"undefined">>
BY DEF PlainAt

LEMMA PlainNumbers ==
    /\ Plain \cup {"MethodArgs"} \subseteq DOMAIN OpNo
    /\ DOMAIN OpNo = Plain \cup {"MethodArgs", "InlineCache"}
    /\ \A op \in DOMAIN OpNo : OpNo[op] \in 0..255 /\ OpNo[op] \notin Kinded
<1>1. DOMAIN OpNo = Plain \cup {"MethodArgs", "InlineCache"} BY OpNoIs DEF Plain
<1>2. \A op \in DOMAIN OpNo : OpNo[op] \in {0, 1, 2, 3, 6, 7, 8, 9, 10, 11, 14, 15, 16, 17, 18, 19,
           20, 21, 25, 26, 129, 130, 131, 132, 133, 148, 149, 150, 151, 152, 155, 170, 171, 172}
  BY OpNoIs
<1>3. \A n \in {0, 1, 2, 3, 6, 7, 8, 9, 10, 11, 14, 15, 16, 17, 18, 19,
           20, 21, 25, 26, 129, 130, 131, 132, 133, 148, 149, 150, 151, 152, 155, 170, 171, 172} :
         n \in 0..255 /\ n \notin Kinded
  BY DEF Kinded
<1> QED BY <1>1, <1>2, <1>3

LEMMA WideNumbers == \A n \in 0..255 : IsWide(n) <=> n >= 128
BY DEF IsWide

(* The arms of the tables. *)
LEMMA DispatchIs ==
    ASSUME NEW n
    PROVE  /\ n \in {4, 12} => Dispatch(n) = <<"CondBr", "if">>
           /\ n \in {5, 13} => Dispatch(n) = <<"CondBr", "ifnot">>
           /\ n \in 134..139 => Dispatch(n) = <<"Cmp", CmpAt(n - 134)>>
           /\ n \in 142..147 => Dispatch(n) = <<"Cmpri", CmpAt(n - 142)>>
           /\ n = 153 => Dispatch(n) = <<"Range", "incl">>
           /\ n = 154 => Dispatch(n) = <<"Range", "excl">>
           /\ n \in 156..161 => Dispatch(n) = <<"Cmp", CmpAt(n - 156)>>
           /\ n \in 162..167 => Dispatch(n) = <<"Cmpri", CmpAt(n - 162)>>
           /\ n \in 180..190 => Dispatch(n) = Handler("BinOpIr", BinAt(n - 180))
           /\ n \in 200..210 => Dispatch(n) = <<"BinOp", BinAt(n - 200)>>
           /\ n \in 220..230 => Dispatch(n) = Handler("BinOpRi", BinAt(n - 220))
           /\ n \notin Kinded => Dispatch(n) = PlainAt(Plain, n)
<1>1. n \notin Kinded => Dispatch(n) = PlainAt(Plain, n) BY DEF Dispatch, Kinded
<1>2. n \in {4, 12} => Dispatch(n) = <<"CondBr", "if">> BY DEF Dispatch, Kinded
<1>3. n \in {5, 13} => Dispatch(n) = <<"CondBr", "ifnot">> BY DEF Dispatch, Kinded
<1>4. n \in 134..139 => Dispatch(n) = <<"Cmp", CmpAt(n - 134)>> BY DEF Dispatch, Kinded
<1>5. n \in 142..147 => Dispatch(n) = <<"Cmpri", CmpAt(n - 142)>> BY DEF Dispatch, Kinded
<1>6. n = 153 => Dispatch(n) = <<"Range", "incl">> BY DEF Dispatch, Kinded
<1>7. n = 154 => Dispatch(n) = <<"Range", "excl">> BY DEF Dispatch, Kinded
<1>8. n \in 156..161 => Dispatch(n) = <<"Cmp", CmpAt(n - 156)>> BY DEF Dispatch, Kinded
<1>9. n \in 162..167 => Dispatch(n) = <<"Cmpri", CmpAt(n - 162)>> BY DEF Dispatch, Kinded
<1>10. n \in 180..190 => Dispatch(n) = Handler("BinOpIr", BinAt(n - 180)) BY DEF Dispatch, Kinded
<1>11. n \in 200..210 => Dispatch(n) = <<"BinOp", BinAt(n - 200)>> BY DEF Dispatch, Kinded
<1>12. n \in 220..230 => Dispatch(n) = Handler("BinOpRi", BinAt(n - 220)) BY DEF Dispatch, Kinded
<1> QED BY <1>1, <1>2, <1>3, <1>4, <1>5, <1>6, <1>7, <1>8, <1>9, <1>10, <1>11, <1>12

LEMMA FromBcIs ==
    ASSUME NEW n
    PROVE  /\ n = 4 => FromBc(n) = <<"CondBr", "if", "plain">>
           /\ n = 5 => FromBc(n) = <<"CondBr", "ifnot", "plain">>
           /\ n = 12 => FromBc(n) = <<"CondBr", "if", "opt">>
           /\ n = 13 => FromBc(n) = <<"CondBr", "ifnot", "opt">>
           /\ n \in 134..139 => FromBc(n) = <<"Cmp", CmpAt(n - 134), "plain">>
           /\ n \in 142..147 => FromBc(n) = <<"Cmpri", CmpAt(n - 142), "plain">>
           /\ n = 153 => FromBc(n) = <<"Range", "incl">>
           /\ n = 154 => FromBc(n) = <<"Range", "excl">>
           /\ n \in 156..161 => FromBc(n) = <<"Cmp", CmpAt(n - 156), "opt">>
           /\ n \in 162..167 => FromBc(n) = <<"Cmpri", CmpAt(n - 162), "opt">>
           /\ n \in 180..190 => FromBc(n) = <<"BinOpIr", BinAt(n - 180)>>
           /\ n \in 200..210 => FromBc(n) = <<"BinOp", BinAt(n - 200)>>
           /\ n \in 220..230 => FromBc(n) = <<"BinOpRi", BinAt(n - 220)>>
           /\ n \in 0..255 /\ n \notin Kinded /\ n >= 128 => FromBc(n) = PlainAt(Plain \cup {"MethodArgs"}, n)
           /\ n \in 0..255 /\ n \notin Kinded /\ n < 128 => FromBc(n) = PlainAt(Plain, n)
<1>a. n \in 0..255 /\ n >= 128 => FromBc(n) = FromBcWide(n) BY WideNumbers DEF FromBc
<1>b. n \in 0..255 /\ n < 128 => FromBc(n) = FromBcLong(n) BY WideNumbers DEF FromBc
<1>1. n = 4 => FromBc(n) = <<"CondBr", "if", "plain">> BY <1>b DEF FromBcLong, Kinded
<1>2. n = 5 => FromBc(n) = <<"CondBr", "ifnot", "plain">> BY <1>b DEF FromBcLong, Kinded
<1>3. n = 12 => FromBc(n) = <<"CondBr", "if", "opt">> BY <1>b DEF FromBcLong, Kinded
<1>4. n = 13 => FromBc(n) = <<"CondBr", "ifnot", "opt">> BY <1>b DEF FromBcLong, Kinded
<1>5. n \in 134..139 => FromBc(n) = <<"Cmp", CmpAt(n - 134), "plain">> BY <1>a DEF FromBcWide, Kinded
<1>6. n \in 142..147 => FromBc(n) = <<"Cmpri", CmpAt(n - 142), "plain">> BY <1>a DEF FromBcWide, Kinded
<1>7. n = 153 => FromBc(n) = <<"Range", "incl">> BY <1>a DEF FromBcWide, Kinded
<1>8. n = 154 => FromBc(n) = <<"Range", "excl">> BY <1>a DEF FromBcWide, Kinded
<1>9. n \in 156..161 => FromBc(n) = <<"Cmp", CmpAt(n - 156), "opt">> BY <1>a DEF FromBcWide, Kinded
<1>10. n \in 162..167 => FromBc(n) = <<"Cmpri", CmpAt(n - 162), "opt">> BY <1>a DEF FromBcWide, Kinded
<1>11. n \in 180..190 => FromBc(n) = <<"BinOpIr", BinAt(n - 180)>> BY <1>a DEF FromBcWide, Kinded
<1>12. n \in 200..210 => FromBc(n) = <<"BinOp", BinAt(n - 200)>> BY <1>a DEF FromBcWide, Kinded
<1>13. n \in 220..230 => FromBc(n) = <<"BinOpRi", BinAt(n - 220)>> BY <1>a DEF FromBcWide, Kinded
<1>14. n \in 0..255 /\ n \notin Kinded /\ n >= 128 => FromBc(n) = PlainAt(Plain \cup {"MethodArgs"}, n)
  BY <1>a DEF FromBcWide, Kinded
<1>15. n \in 0..255 /\ n \notin Kinded /\ n < 128 => FromBc(n) = PlainAt(Plain, n)
  BY <1>b DEF FromBcLong, Kinded
<1> QED BY <1>1, <1>2, <1>3, <1>4, <1>5, <1>6, <1>7, <1>8, <1>9, <1>10, <1>11, <1>12, <1>13, <1>14, <1>15

-----------------------------------------------------------------------------
(* An instruction's number leads back to the instruction.                   *)

\* What the interpreter's table says of the instruction.
Meant(op) == IF op[1] \in {"CondBr", "Cmp", "Cmpri"} THEN <<op[1], op[2]>> ELSE op
RoundTrip(op) ==
    /\ Opcode(op) \in 0..255
    /\ FromBc(Opcode(op)) = op
    /\ Dispatch(Opcode(op)) = <<"undefined">> \/ Dispatch(Opcode(op)) = Meant(op)

LEMMA OpKinds ==
    ASSUME NEW op \in Ops
    PROVE  \/ \E p \in DOMAIN OpNo : op = <<p>>
           \/ op = <<"Range", "incl">> \/ op = <<"Range", "excl">>
           \/ \E kind \in DOMAIN KindNo, opt \in Opts : op = <<"CondBr", kind, opt>>
           \/ \E kind \in DOMAIN CmpNo, opt \in Opts : op = <<"Cmp", kind, opt>>
           \/ \E kind \in DOMAIN CmpNo, opt \in Opts : op = <<"Cmpri", kind, opt>>
           \/ \E b \in DOMAIN BinNo : op = <<"BinOp", b>>
           \/ \E b \in DOMAIN BinNo : op = <<"BinOpRi", b>>
           \/ \E b \in DOMAIN BinNo : op = <<"BinOpIr", b>>
<1> HIDE DEF OpNo, KindNo, CmpNo, BinNo, Opts
<1> QED BY DEF Ops

LEMMA OtherOps ==
    /\ "Range" \notin DOMAIN OpNo /\ "CondBr" \notin DOMAIN OpNo /\ "Cmp" \notin DOMAIN OpNo
    /\ "Cmpri" \notin DOMAIN OpNo /\ "BinOp" \notin DOMAIN OpNo /\ "BinOpRi" \notin DOMAIN OpNo
    /\ "BinOpIr" \notin DOMAIN OpNo
BY OpNoIs

LEMMA OpcodeIs ==
    /\ \A p \in DOMAIN OpNo : Opcode(<<p>>) = OpNo[p]
    /\ Opcode(<<"Range", "incl">>) = 153 /\ Opcode(<<"Range", "excl">>) = 154
    /\ \A kind, opt : Opcode(<<"CondBr", kind, opt>>) = KindNo[kind] + (IF opt = "opt" THEN 12 ELSE 4)
    /\ \A kind, opt : Opcode(<<"Cmp", kind, opt>>) = CmpNo[kind] + (IF opt = "opt" THEN 156 ELSE 134)
    /\ \A kind, opt : Opcode(<<"Cmpri", kind, opt>>) = CmpNo[kind] + (IF opt = "opt" THEN 162 ELSE 142)
    /\ \A b : Opcode(<<"BinOp", b>>) = 200 + BinNo[b]
    /\ \A b : Opcode(<<"BinOpRi", b>>) = 220 + BinNo[b]
    /\ \A b : Opcode(<<"BinOpIr", b>>) = 180 + BinNo[b]
<1> USE OtherOps DEF Opcode
<1> HIDE DEF OpNo, KindNo, CmpNo, BinNo
<1>1. \A p \in DOMAIN OpNo : Opcode(<<p>>) = OpNo[p] OBVIOUS
<1>2. Opcode(<<"Range", "incl">>) = 153 OBVIOUS
<1>3. Opcode(<<"Range", "excl">>) = 154 OBVIOUS
<1>4. \A kind, opt : Opcode(<<"CondBr", kind, opt>>) = KindNo[kind] + (IF opt = "opt" THEN 12 ELSE 4) OBVIOUS
<1>5. \A kind, opt : Opcode(<<"Cmp", kind, opt>>) = CmpNo[kind] + (IF opt = "opt" THEN 156 ELSE 134) OBVIOUS
<1>6. \A kind, opt : Opcode(<<"Cmpri", kind, opt>>) = CmpNo[kind] + (IF opt = "opt" THEN 162 ELSE 142) OBVIOUS
<1>7. \A b : Opcode(<<"BinOp", b>>) = 200 + BinNo[b] OBVIOUS
<1>8. \A b : Opcode(<<"BinOpRi", b>>) = 220 + BinNo[b] OBVIOUS
<1>9. \A b : Opcode(<<"BinOpIr", b>>) = 180 + BinNo[b] OBVIOUS
<1> HIDE DEF Opcode
<1> QED BY <1>1, <1>2, <1>3, <1>4, <1>5, <1>6, <1>7, <1>8, <1>9

LEMMA PlainTrip ==
    ASSUME NEW p \in DOMAIN OpNo, p # "InlineCache"
    PROVE  /\ RoundTrip(<<p>>)
           /\ Dispatch(OpNo[p]) = IF p = "MethodArgs" THEN <<"undefined">> ELSE <<p>>
<1> DEFINE n == OpNo[p]
<1>1. /\ p \in Plain \cup {"MethodArgs"} /\ n \in 0..255 /\ n \notin Kinded /\ Opcode(<<p>>) = n
      /\ Plain \in SUBSET DOMAIN OpNo /\ Plain \cup {"MethodArgs"} \in SUBSET DOMAIN OpNo
  BY PlainNumbers, OpcodeIs
<1>2. Meant(<<p>>) = <<p>>
  <2>1. p # "CondBr" /\ p # "Cmp" /\ p # "Cmpri" BY OtherOps
  <2> QED BY <2>1 DEF Meant
<1>3. CASE p = "MethodArgs"
  <2>1. n = 130 BY <1>3, OpNoIs
  <2>2. \A q \in Plain : OpNo[q] # 130
    <3>1. "MethodArgs" \notin Plain BY DEF Plain
    <3>2. \A a, b \in DOMAIN OpNo : OpNo[a] = OpNo[b] => a = b BY OpNoIs
    <3> QED BY <1>1, <1>3, <2>1, <3>1, <3>2
  <2>3. Dispatch(n) = <<"undefined">>
    <3>1. Dispatch(n) = PlainAt(Plain, n) BY <1>1, DispatchIs
    <3> HIDE DEF n
    <3> QED BY <2>1, <2>2, <3>1, PlainAtNone
  <2>4. FromBc(n) = <<p>>
    <3>1. n >= 128 BY <2>1
    <3>2. FromBc(n) = PlainAt(Plain \cup {"MethodArgs"}, n) BY <1>1, <3>1, FromBcIs
    <3>3. PlainAt(Plain \cup {"MethodArgs"}, n) = <<p>> BY <1>1, PlainAtIs
    <3> QED BY <3>2, <3>3
  <2> QED BY <1>1, <1>3, <2>3, <2>4 DEF RoundTrip
<1>4. CASE p # "MethodArgs"
  <2>1. p \in Plain BY <1>1, <1>4
  <2>2. PlainAt(Plain, n) = <<p>> BY <1>1, <2>1, PlainAtIs
  <2>3. PlainAt(Plain \cup {"MethodArgs"}, n) = <<p>> BY <1>1, PlainAtIs
  <2>4. Dispatch(n) = <<p>> BY <1>1, <2>2, DispatchIs
  <2>5. FromBc(n) = <<p>>
    <3>1. CASE n >= 128 BY <1>1, <2>3, <3>1, FromBcIs
    <3>2. CASE n < 128 BY <1>1, <2>2, <3>2, FromBcIs
    <3> QED BY <1>1, <3>1, <3>2
  <2> QED BY <1>1, <1>2, <1>4, <2>4, <2>5 DEF RoundTrip
<1> QED BY <1>3, <1>4

LEMMA RangeTrip == RoundTrip(<<"Range", "incl">>) /\ RoundTrip(<<"Range", "excl">>)
<1>1. Meant(<<"Range", "incl">>) = <<"Range", "incl">> /\ Meant(<<"Range", "excl">>) = <<"Range", "excl">>
  BY DEF Meant
<1>2. /\ FromBc(153) = <<"Range", "incl">> /\ FromBc(154) = <<"Range", "excl">>
      /\ Dispatch(153) = <<"Range", "incl">> /\ Dispatch(154) = <<"Range", "excl">>
  BY FromBcIs, DispatchIs
<1> QED BY <1>1, <1>2, OpcodeIs DEF RoundTrip

LEMMA CondBrTrip ==
    ASSUME NEW kind \in DOMAIN KindNo, NEW opt \in Opts
    PROVE  /\ RoundTrip(<<"CondBr", kind, opt>>)
           /\ Dispatch(Opcode(<<"CondBr", kind, opt>>)) = <<"CondBr", kind>>
<1> DEFINE op == <<"CondBr", kind, opt>>
           n == Opcode(op)
<1>1. Meant(op) = <<"CondBr", kind>> BY DEF Meant
<1>2. n = KindNo[kind] + (IF opt = "opt" THEN 12 ELSE 4) BY OpcodeIs
<1>3. opt = "plain" \/ opt = "opt" BY DEF Opts
<1>4. (kind = "if" /\ KindNo[kind] = 0) \/ (kind = "ifnot" /\ KindNo[kind] = 1) BY KindNoIs
<1>5. n \in 0..255 /\ FromBc(n) = op /\ Dispatch(n) = <<"CondBr", kind>>
  <2> HIDE DEF n
  <2>1. CASE kind = "if" /\ opt = "opt"
    <3>1. n = 12 BY <1>2, <1>4, <2>1
    <3> QED BY <2>1, <3>1, FromBcIs, DispatchIs
  <2>2. CASE kind = "ifnot" /\ opt = "opt"
    <3>1. n = 13 BY <1>2, <1>4, <2>2
    <3> QED BY <2>2, <3>1, FromBcIs, DispatchIs
  <2>3. CASE kind = "if" /\ opt = "plain"
    <3>1. n = 4 BY <1>2, <1>4, <2>3
    <3> QED BY <2>3, <3>1, FromBcIs, DispatchIs
  <2>4. CASE kind = "ifnot" /\ opt = "plain"
    <3>1. n = 5 BY <1>2, <1>4, <2>4
    <3> QED BY <2>4, <3>1, FromBcIs, DispatchIs
  <2> QED BY <1>3, <1>4, <2>1, <2>2, <2>3, <2>4
<1> QED BY <1>1, <1>5 DEF RoundTrip

LEMMA CmpTrip ==
    ASSUME NEW kind \in DOMAIN CmpNo, NEW opt \in Opts
    PROVE  /\ RoundTrip(<<"Cmp", kind, opt>>)
           /\ Dispatch(Opcode(<<"Cmp", kind, opt>>)) = <<"Cmp", kind>>
<1> DEFINE op == <<"Cmp", kind, opt>>
           n == Opcode(op)
           c == CmpNo[kind]
<1>1. Meant(op) = <<"Cmp", kind>> BY DEF Meant
<1>2. n = c + (IF opt = "opt" THEN 156 ELSE 134) BY OpcodeIs
<1>3. opt = "plain" \/ opt = "opt" BY DEF Opts
<1>4. c \in 0..5 /\ CmpAt(c) = kind BY CmpAtIs
<1>5. n \in 0..255 /\ FromBc(n) = op /\ Dispatch(n) = <<"Cmp", kind>>
  <2> HIDE DEF n, c
  <2>1. CASE opt = "opt"
    <3>1. n \in 156..161 /\ n - 156 = c BY <1>2, <1>4, <2>1
    <3>2. FromBc(n) = <<"Cmp", CmpAt(n - 156), "opt">> /\ Dispatch(n) = <<"Cmp", CmpAt(n - 156)>>
      BY <3>1, FromBcIs, DispatchIs
    <3> QED BY <1>4, <2>1, <3>1, <3>2
  <2>2. CASE opt = "plain"
    <3>1. n \in 134..139 /\ n - 134 = c BY <1>2, <1>4, <2>2
    <3>2. FromBc(n) = <<"Cmp", CmpAt(n - 134), "plain">> /\ Dispatch(n) = <<"Cmp", CmpAt(n - 134)>>
      BY <3>1, FromBcIs, DispatchIs
    <3> QED BY <1>4, <2>2, <3>1, <3>2
  <2> QED BY <1>3, <2>1, <2>2
<1> QED BY <1>1, <1>5 DEF RoundTrip

LEMMA CmpriTrip ==
    ASSUME NEW kind \in DOMAIN CmpNo, NEW opt \in Opts
    PROVE  /\ RoundTrip(<<"Cmpri", kind, opt>>)
           /\ Dispatch(Opcode(<<"Cmpri", kind, opt>>)) = <<"Cmpri", kind>>
<1> DEFINE op == <<"Cmpri", kind, opt>>
           n == Opcode(op)
           c == CmpNo[kind]
<1>1. Meant(op) = <<"Cmpri", kind>> BY DEF Meant
<1>2. n = c + (IF opt = "opt" THEN 162 ELSE 142) BY OpcodeIs
<1>3. opt = "plain" \/ opt = "opt" BY DEF Opts
<1>4. c \in 0..5 /\ CmpAt(c) = kind BY CmpAtIs
<1>5. n \in 0..255 /\ FromBc(n) = op /\ Dispatch(n) = <<"Cmpri", kind>>
  <2> HIDE DEF n, c
  <2>1. CASE opt = "opt"
    <3>1. n \in 162..167 /\ n - 162 = c BY <1>2, <1>4, <2>1
    <3>2. FromBc(n) = <<"Cmpri", CmpAt(n - 162), "opt">> /\ Dispatch(n) = <<"Cmpri", CmpAt(n - 162)>>
      BY <3>1, FromBcIs, DispatchIs
    <3> QED BY <1>4, <2>1, <3>1, <3>2
  <2>2. CASE opt = "plain"
    <3>1. n \in 142..147 /\ n - 142 = c BY <1>2, <1>4, <2>2
    <3>2. FromBc(n) = <<"Cmpri", CmpAt(n - 142), "plain">> /\ Dispatch(n) = <<"Cmpri", CmpAt(n - 142)>>
      BY <3>1, FromBcIs, DispatchIs
    <3> QED BY <1>4, <2>2, <3>1, <3>2
  <2> QED BY <1>3, <2>1, <2>2
<1> QED BY <1>1, <1>5 DEF RoundTrip

LEMMA BinTrip ==
    ASSUME NEW b \in DOMAIN BinNo
    PROVE  /\ RoundTrip(<<"BinOp", b>>) /\ RoundTrip(<<"BinOpRi", b>>) /\ RoundTrip(<<"BinOpIr", b>>)
           /\ Dispatch(Opcode(<<"BinOp", b>>)) = <<"BinOp", b>>
           /\ b \in Immediate => /\ Dispatch(Opcode(<<"BinOpRi", b>>)) = <<"BinOpRi", b>>
                                 /\ Dispatch(Opcode(<<"BinOpIr", b>>)) = <<"BinOpIr", b>>
<1> DEFINE c == BinNo[b]
<1>1. c \in 0..10 /\ BinAt(c) = b BY BinAtIs
<1>2. /\ Opcode(<<"BinOp", b>>) = 200 + c /\ Opcode(<<"BinOpRi", b>>) = 220 + c
      /\ Opcode(<<"BinOpIr", b>>) = 180 + c
  BY OpcodeIs
<1>3. /\ Meant(<<"BinOp", b>>) = <<"BinOp", b>> /\ Meant(<<"BinOpRi", b>>) = <<"BinOpRi", b>>
      /\ Meant(<<"BinOpIr", b>>) = <<"BinOpIr", b>>
  BY DEF Meant
<1> HIDE DEF c
<1>4. FromBc(200 + c) = <<"BinOp", b>> /\ Dispatch(200 + c) = <<"BinOp", b>>
  <2> DEFINE n == 200 + c
  <2>1. n \in 200..210 /\ n - 200 = c BY <1>1
  <2> HIDE DEF n
  <2>2. FromBc(n) = <<"BinOp", BinAt(n - 200)>> /\ Dispatch(n) = <<"BinOp", BinAt(n - 200)>>
    BY <2>1, FromBcIs, DispatchIs
  <2> QED BY <1>1, <2>1, <2>2 DEF n
<1>5. FromBc(220 + c) = <<"BinOpRi", b>> /\ Dispatch(220 + c) = Handler("BinOpRi", b)
  <2> DEFINE n == 220 + c
  <2>1. n \in 220..230 /\ n - 220 = c BY <1>1
  <2> HIDE DEF n
  <2>2. FromBc(n) = <<"BinOpRi", BinAt(n - 220)>> /\ Dispatch(n) = Handler("BinOpRi", BinAt(n - 220))
    BY <2>1, FromBcIs, DispatchIs
  <2> QED BY <1>1, <2>1, <2>2 DEF n
<1>6. FromBc(180 + c) = <<"BinOpIr", b>> /\ Dispatch(180 + c) = Handler("BinOpIr", b)
  <2> DEFINE n == 180 + c
  <2>1. n \in 180..190 /\ n - 180 = c BY <1>1
  <2> HIDE DEF n
  <2>2. FromBc(n) = <<"BinOpIr", BinAt(n - 180)>> /\ Dispatch(n) = Handler("BinOpIr", BinAt(n - 180))
    BY <2>1, FromBcIs, DispatchIs
  <2> QED BY <1>1, <2>1, <2>2 DEF n
<1>7. /\ Handler("BinOpRi", b) = <<"undefined">> \/ Handler("BinOpRi", b) = <<"BinOpRi", b>>
      /\ Handler("BinOpIr", b) = <<"undefined">> \/ Handler("BinOpIr", b) = <<"BinOpIr", b>>
      /\ b \in Immediate => /\ Handler("BinOpRi", b) = <<"BinOpRi", b>>
                            /\ Handler("BinOpIr", b) = <<"BinOpIr", b>>
  BY DEF Handler
<1>8. 200 + c \in 0..255 /\ 220 + c \in 0..255 /\ 180 + c \in 0..255 BY <1>1
<1> QED BY <1>2, <1>3, <1>4, <1>5, <1>6, <1>7, <1>8 DEF RoundTrip

LEMMA OpsTrip == ASSUME NEW op \in Ops, op # <<"InlineCache">> PROVE RoundTrip(op)
<1>1. ASSUME NEW p \in DOMAIN OpNo, op = <<p>> PROVE RoundTrip(op)
  <2>1. p # "InlineCache" BY <1>1
  <2> QED BY <1>1, <2>1, PlainTrip
<1> QED BY <1>1, OpKinds, RangeTrip, CondBrTrip, CmpTrip, CmpriTrip, BinTrip

-----------------------------------------------------------------------------
(* Words.                                                                   *)

LEMMA RangesOf ==
    ASSUME NEW h \in Nat, NEW x
    PROVE  /\ x \in 0..2 * h - 1 <=> x \in Int /\ 0 <= x /\ x < 2 * h
           /\ x \in -h..h - 1 <=> x \in Int /\ -h <= x /\ x < h
           /\ x \in (-h) * 65536..(h - 1) * 65536 + 65535
                => x \in Int /\ (-h) * 65536 <= x /\ x < h * 65536
BY SMT

LEMMA Ranges ==
    ASSUME NEW x
    PROVE  /\ x \in Unsigned <=> x \in Int /\ 0 <= x /\ x < 65536
           /\ x \in Short <=> x \in Int /\ -32768 <= x /\ x < 32768
           /\ x \in Int32 => x \in Int /\ (-32768) * 65536 <= x /\ x < 32768 * 65536
<1>1. Half \in Nat /\ Half = 32768 BY SMT DEF Half
<1>2. /\ x \in Unsigned <=> x \in Int /\ 0 <= x /\ x < 2 * Half
      /\ x \in Short <=> x \in Int /\ -Half <= x /\ x < Half
      /\ x \in Int32 => x \in Int /\ (-Half) * 65536 <= x /\ x < Half * 65536
  <2>1. Half \in Nat BY <1>1
  <2> QED BY <2>1, RangesOf, SMT DEF Unsigned, Short, Int32
<1> QED BY <1>1, <1>2, SMT

LEMMA Halves ==
    /\ \A x \in Int : U16(x) \in Unsigned /\ U16(x) \in Int
    /\ \A x \in Unsigned : U16(x) = x
    /\ \A x \in Short : S16(U16(x)) = x
<1>1. ASSUME NEW x \in Int PROVE U16(x) \in Unsigned /\ U16(x) \in Int
  <2>1. 0 <= U16(x) /\ U16(x) < 65536 /\ U16(x) \in Int BY SMT DEF U16
  <2> QED BY <2>1, Ranges, SMT
<1>2. ASSUME NEW x \in Unsigned PROVE U16(x) = x
  <2>1. x \in Int /\ 0 <= x /\ x < 65536 BY Ranges, SMT
  <2> QED BY <2>1, SMT DEF U16
<1>3. ASSUME NEW x \in Short PROVE S16(U16(x)) = x
  <2>1. x \in Int /\ -32768 <= x /\ x < 32768 BY Ranges, SMT
  <2> QED BY <2>1, SMT DEF U16, S16
<1> QED BY <1>1, <1>2, <1>3

LEMMA WholeWord ==
    ASSUME NEW i \in Int32
    PROVE  i \in Int /\ i \div 65536 \in Int /\ S16(U16(i \div 65536)) * 65536 + U16(i) = i
<1> DEFINE d == i \div 65536
<1>1. i \in Int /\ (-32768) * 65536 <= i /\ i < 32768 * 65536 BY Ranges, SMT
<1>2. d \in Int /\ -32768 <= d /\ d < 32768 BY <1>1, SMT
<1>3. i = (65536 * d) + (i % 65536) /\ i % 65536 \in Int
  <2>1. 65536 \in Nat \ {0} BY SMT
  <2> QED BY <1>1, <2>1, Division, SMT
<1>4. U16(i) = i % 65536 BY SMT DEF U16
<1> HIDE DEF d
<1>5. d \in Short BY <1>2, Ranges, SMT
<1>6. S16(U16(d)) = d BY <1>5, Halves
<1> QED BY <1>1, <1>2, <1>3, <1>4, <1>6, SMT DEF d

LEMMA WideIs ==
    ASSUME NEW n, NEW a, NEW b, NEW c
    PROVE  LET w == Wide(n, a, b, c)
           IN w.code = n /\ w.o1 = U16(a) /\ w.o2 = U16(b) /\ w.o3 = U16(c)
BY DEF Wide

IsPrologue(op) == op[1] \in {"InitMethod", "InitBlock"}

(* The words of a typed instruction hold its operands. *)
LEMMA Encodes ==
    ASSUME NEW k, NEW j, IsTyped(k, j)
    PROVE  LET i == k.ir[j]
               w == EncodeInst(k, j)
           IN /\ i.op \in Ops /\ w.code = Opcode(i.op)
              /\ w.o1 \in Unsigned /\ w.o2 \in Unsigned /\ w.o3 \in Unsigned
              /\ IsPrologue(i.op) => w.o1 = RegNum(k)
              /\ ~IsPrologue(i.op) =>
                   /\ w.o1 = SlotOf(i.a)
                   /\ IsWide(w.code) =>
                        /\ (IF i.op[1] = "BinOpIr" THEN S16(w.o2) ELSE w.o2) = Encoded(k, j, i.b)
                        /\ (IF i.op[1] \in {"BinOpRi", "Cmpri"} THEN S16(w.o3) ELSE w.o3)
                             = Encoded(k, j, i.c)
                   /\ ~IsWide(w.code) =>
                        /\ Value32(w) = Encoded(k, j, i.c)
                        /\ i.c[1] = "label" => k.labels[i.c[2]] \in Nat
<1> DEFINE i == k.ir[j]
           w == EncodeInst(k, j)
           n == Opcode(i.op)
           a == Encoded(k, j, i.a)
           b == Encoded(k, j, i.b)
           c == Encoded(k, j, i.c)
<1>1. /\ i.op \in Ops /\ (IsPrologue(i.op) => RegNum(k) \in Unsigned)
      /\ i.a[1] # "label" /\ a \in Unsigned
      /\ IF IsWide(n)
         THEN /\ b \in (IF i.op[1] = "BinOpIr" THEN Short ELSE Unsigned)
              /\ c \in (IF i.op[1] \in {"BinOpRi", "Cmpri"} THEN Short ELSE Unsigned)
         ELSE c \in Int32 /\ (i.c[1] = "label" => k.labels[i.c[2]] \in Nat)
  BY DEF IsTyped, IsPrologue
<1>2. w = IF IsPrologue(i.op) THEN Wide(n, RegNum(k), 0, 0)
          ELSE IF IsWide(n) THEN Wide(n, a, b, c) ELSE Long(n, a, c)
  BY DEF EncodeInst, IsPrologue
<1>3. a = SlotOf(i.a) BY <1>1 DEF Encoded
<1> HIDE DEF i, w, n, a, b, c
<1>4. Unsigned \subseteq Int /\ Short \subseteq Int /\ 0 \in Int
  <2>1. (\A x \in Unsigned : x \in Int) /\ (\A x \in Short : x \in Int) BY Ranges, SMT
  <2> QED BY <2>1
<1>5. CASE IsPrologue(i.op)
  <2>1. w = Wide(n, RegNum(k), 0, 0) BY <1>2, <1>5
  <2>2. w.code = n /\ w.o1 = U16(RegNum(k)) /\ w.o2 = U16(0) /\ w.o3 = U16(0) BY <2>1, WideIs
  <2>3. RegNum(k) \in Unsigned BY <1>1, <1>5
  <2>4. U16(RegNum(k)) = RegNum(k) /\ U16(RegNum(k)) \in Unsigned /\ U16(0) \in Unsigned
    BY <1>4, <2>3, Halves
  <2> QED BY <1>1, <1>5, <2>2, <2>4 DEF i, w, n
<1>6. CASE ~IsPrologue(i.op) /\ IsWide(n)
  <2>1. w = Wide(n, a, b, c) BY <1>2, <1>6
  <2>2. w.code = n /\ w.o1 = U16(a) /\ w.o2 = U16(b) /\ w.o3 = U16(c) BY <2>1, WideIs
  <2>3. b \in Int /\ c \in Int /\ a \in Int BY <1>1, <1>4, <1>6
  <2>4. U16(a) \in Unsigned /\ U16(b) \in Unsigned /\ U16(c) \in Unsigned BY <2>3, Halves
  <2>5. w.o1 = SlotOf(i.a) BY <1>1, <1>3, <2>2, Halves
  <2>6. (IF i.op[1] = "BinOpIr" THEN S16(w.o2) ELSE w.o2) = b BY <1>1, <1>6, <2>2, Halves
  <2>7. (IF i.op[1] \in {"BinOpRi", "Cmpri"} THEN S16(w.o3) ELSE w.o3) = c
    BY <1>1, <1>6, <2>2, Halves
  <2> QED BY <1>1, <1>6, <2>2, <2>4, <2>5, <2>6, <2>7 DEF i, w, n, a, b, c
<1>7. CASE ~IsPrologue(i.op) /\ ~IsWide(n)
  <2>1. w = Wide(n, a, c \div 65536, c) BY <1>2, <1>7 DEF Long
  <2>2. w.code = n /\ w.o1 = U16(a) /\ w.o2 = U16(c \div 65536) /\ w.o3 = U16(c) BY <2>1, WideIs
  <2>3. c \in Int32 /\ (i.c[1] = "label" => k.labels[i.c[2]] \in Nat) BY <1>1, <1>7
  <2>4. c \in Int /\ c \div 65536 \in Int /\ S16(U16(c \div 65536)) * 65536 + U16(c) = c
    BY <2>3, WholeWord
  <2>6. U16(a) \in Unsigned /\ U16(c \div 65536) \in Unsigned /\ U16(c) \in Unsigned
    BY <1>1, <1>4, <2>4, Halves
  <2>7. w.o1 = SlotOf(i.a) BY <1>1, <1>3, <2>2, Halves
  <2>8. Value32(w) = c BY <2>2, <2>4 DEF Value32
  <2> QED BY <1>1, <1>7, <2>2, <2>3, <2>6, <2>7, <2>8 DEF i, w, n, a, b, c
<1> QED BY <1>5, <1>6, <1>7

-----------------------------------------------------------------------------
(* A function that was accepted.                                            *)

Accepted == unit \in Units /\ code # <<>>

LEMMA UnitIs ==
    ASSUME Accepted
    PROVE  /\ unit.accepted /\ unit.temp_num \in Nat
           /\ Len(unit.ir) \in Nat \ {0} /\ DOMAIN unit.ir = 1..Len(unit.ir)
           /\ DOMAIN code = DOMAIN unit.ir
           /\ \A j \in DOMAIN unit.ir :
                /\ code[j] = EncodeInst(unit, j) /\ IsTyped(unit, j)
                /\ unit.ir[j].op = <<"InlineCache">> => FollowsCall(unit, j)
<1>1. /\ unit.accepted \in BOOLEAN
      /\ code = IF unit.accepted THEN Encode(unit) ELSE <<>>
      /\ unit.accepted =>
           /\ Len(unit.ir) \in Nat \ {0} /\ DOMAIN unit.ir = 1..Len(unit.ir)
           /\ unit.temp_num \in Nat
           /\ \A j \in DOMAIN unit.ir :
                IsTyped(unit, j) /\ (unit.ir[j].op = <<"InlineCache">> => FollowsCall(unit, j))
  BY UnitsAssumption DEF Accepted, code
<1>2. unit.accepted BY <1>1 DEF Accepted
<1>3. code = [j \in DOMAIN unit.ir |-> EncodeInst(unit, j)] BY <1>1, <1>2 DEF Encode
<1> QED BY <1>1, <1>2, <1>3

(* A word that is executed or read is an instruction's, whatever is encoded *)
(* as a cache.                                                              *)
LEMMA WordIs ==
    ASSUME Accepted, NEW j \in DOMAIN code, ~IsCache(j) \/ code[j].code = 130
    PROVE  /\ unit.ir[j].op \in Ops /\ RoundTrip(unit.ir[j].op)
           /\ code[j].code = Opcode(unit.ir[j].op)
<1> DEFINE op == unit.ir[j].op
<1>1. /\ j \in DOMAIN unit.ir /\ code[j] = EncodeInst(unit, j) /\ IsTyped(unit, j)
      /\ op = <<"InlineCache">> => FollowsCall(unit, j)
      /\ DOMAIN code = DOMAIN unit.ir
  BY UnitIs
<1>2. op \in Ops /\ code[j].code = Opcode(op) BY <1>1, Encodes
<1>3. Opcode(<<"InlineCache">>) = 0 /\ Opcode(<<"MethodCall">>) = 1
      /\ Opcode(<<"MethodCallBlock">>) = 19
  BY OpNoIs, OpcodeIs
<1>4. op # <<"InlineCache">>
  <2> SUFFICES ASSUME op = <<"InlineCache">> PROVE FALSE OBVIOUS
  <2>1. code[j].code = 0 BY <1>2, <1>3
  <2>2. PICK d \in {1, 2} : d < j /\ unit.ir[j - d].op \in {<<"MethodCall">>, <<"MethodCallBlock">>}
    BY <1>1 DEF FollowsCall
  <2>3. j - d \in DOMAIN unit.ir BY <1>1, <2>2, UnitIs
  <2>4. code[j - d] = EncodeInst(unit, j - d) /\ IsTyped(unit, j - d) BY <2>3, UnitIs
  <2>5. code[j - d].code = Opcode(unit.ir[j - d].op) BY <2>4, Encodes
  <2>6. code[j - d].code \in {1, 19} BY <1>3, <2>2, <2>5
  <2>7. j > d BY <1>1, <2>2, UnitIs
  <2>8. IsCache(j) BY <2>6, <2>7 DEF IsCache
  <2> QED BY <2>1, <2>8
<1>5. RoundTrip(op) BY <1>2, <1>4, OpsTrip
<1> QED BY <1>2, <1>5

-----------------------------------------------------------------------------
(* Decoding.                                                                *)

LEMMA OperandsAre ==
    ASSUME Accepted, NEW j \in DOMAIN code
    PROVE  ReadsOperands(j, unit.ir[j])
<1> DEFINE i == unit.ir[j]
           w == code[j]
<1>1. j \in DOMAIN unit.ir /\ w = EncodeInst(unit, j) /\ IsTyped(unit, j) BY UnitIs
<1>2. /\ IsPrologue(i.op) => w.o1 = RegNum(unit)
      /\ ~IsPrologue(i.op) =>
           /\ w.o1 = SlotOf(i.a)
           /\ IsWide(w.code) =>
                /\ (IF i.op[1] = "BinOpIr" THEN S16(w.o2) ELSE w.o2) = Encoded(unit, j, i.b)
                /\ (IF i.op[1] \in {"BinOpRi", "Cmpri"} THEN S16(w.o3) ELSE w.o3)
                     = Encoded(unit, j, i.c)
           /\ ~IsWide(w.code) =>
                /\ Value32(w) = Encoded(unit, j, i.c)
                /\ i.c[1] = "label" => unit.labels[i.c[2]] \in Nat
  BY <1>1, Encodes
<1>3. j \in Int BY <1>1, UnitIs
<1> HIDE DEF i, w
<1>4. i.b[1] # "label" => Encoded(unit, j, i.b) = SlotOf(i.b) BY DEF Encoded
<1>5. i.c[1] # "label" => Encoded(unit, j, i.c) = SlotOf(i.c) BY DEF Encoded
<1>6. i.c[1] = "label" => Encoded(unit, j, i.c) = unit.labels[i.c[2]] - j - 1 BY DEF Encoded
<1>7. CASE IsPrologue(i.op) BY <1>2, <1>7 DEF ReadsOperands, IsPrologue, i, w
<1>8. CASE ~IsPrologue(i.op)
  <2>1. w.o1 = SlotOf(i.a) BY <1>2, <1>8
  <2>2. IsWide(w.code) => /\ i.b[1] # "label" => Survives(i.op[1] = "BinOpIr", i.b, w.o2)
                          /\ i.c[1] # "label" => Survives(i.op[1] \in {"BinOpRi", "Cmpri"}, i.c, w.o3)
    BY <1>2, <1>4, <1>5, <1>8 DEF Survives
  <2>3. ~IsWide(w.code) /\ i.c[1] = "label" => j + 1 + Value32(w) = unit.labels[i.c[2]]
    <3> SUFFICES ASSUME ~IsWide(w.code), i.c[1] = "label"
                 PROVE  j + 1 + Value32(w) = unit.labels[i.c[2]]
      OBVIOUS
    <3> DEFINE l == unit.labels[i.c[2]]
    <3>1. Value32(w) = l - j - 1 /\ l \in Nat BY <1>2, <1>6, <1>8
    <3> HIDE DEF l
    <3> QED BY <1>3, <3>1 DEF l
  <2>4. ~IsWide(w.code) /\ i.c[1] # "label" => Value32(w) = SlotOf(i.c) BY <1>2, <1>5, <1>8
  <2> HIDE DEF Survives
  <2> QED BY <1>8, <2>1, <2>2, <2>3, <2>4 DEF ReadsOperands, IsPrologue, i, w
<1> QED BY <1>7, <1>8

LEMMA DecodedRight == ASSUME unit \in Units PROVE DecodersAgree
<1> SUFFICES ASSUME code # <<>>, NEW j \in DOMAIN code, ~IsCache(j) \/ code[j].code = 130
             PROVE  Reads(j, unit.ir[j])
  BY DEF DecodersAgree
<1>1. Accepted BY DEF Accepted
<1>2. RoundTrip(unit.ir[j].op) /\ code[j].code = Opcode(unit.ir[j].op) BY <1>1, WordIs
<1>3. ReadsOperands(j, unit.ir[j]) BY <1>1, OperandsAre
<1> QED BY <1>2, <1>3 DEF Reads, RoundTrip, Meant

LEMMA UnitInit == Init => unit \in Units
BY DEF Init

LEMMA UnitNext == ASSUME [Next]_vars PROVE unit' = unit
<1> USE DEF Same
<1>1. CASE InitFrame BY <1>1 DEF InitFrame
<1>2. CASE LoadImmediate BY <1>2 DEF LoadImmediate
<1>3. CASE Move BY <1>3 DEF Move
<1>4. CASE LoadVar BY <1>4 DEF LoadVar
<1>5. CASE StoreVar BY <1>5 DEF StoreVar
<1>6. CASE LoadDvar BY <1>6 DEF LoadDvar
<1>7. CASE StoreDvar BY <1>7 DEF StoreDvar
<1>8. CASE Branch BY <1>8 DEF Branch
<1>9. CASE LoopMark BY <1>9 DEF LoopMark
<1>10. CASE BinaryOp BY <1>10 DEF BinaryOp
<1>11. CASE CompareInts BY <1>11 DEF CompareInts
<1>12. CASE CompareObjects BY <1>12 DEF CompareObjects
<1>13. CASE Negate BY <1>13 DEF Negate
<1>14. CASE MakeArray BY <1>14 DEF MakeArray
<1>15. CASE MakeRange BY <1>15 DEF MakeRange
<1>16. CASE Concat BY <1>16 DEF Concat
<1>17. CASE GetIndex BY <1>17 DEF GetIndex
<1>18. CASE SetIndex BY <1>18 DEF SetIndex
<1>19. CASE CallMethod BY <1>19 DEF CallMethod
<1>20. CASE YieldBlock BY <1>20 DEF YieldBlock
<1>21. CASE DefineMethod BY <1>21 DEF DefineMethod
<1>22. CASE DefineClass BY <1>22 DEF DefineClass
<1>23. CASE Expand BY <1>23 DEF Expand
<1>24. CASE Return_ BY <1>24 DEF Return_
<1>25. CASE UNCHANGED vars BY <1>25 DEF vars
<1> QED BY <1>1, <1>2, <1>3, <1>4, <1>5, <1>6, <1>7, <1>8, <1>9, <1>10, <1>11, <1>12, <1>13,
           <1>14, <1>15, <1>16, <1>17, <1>18, <1>19, <1>20, <1>21, <1>22, <1>23, <1>24, <1>25 DEF Next

(***************************************************************************)
(* In the code of every function whose instructions are typed, whatever    *)
(* its length, its labels and its registers, the interpreter and the JIT   *)
(* compiler read the instruction that was meant and its operands.          *)
(***************************************************************************)
THEOREM CodeIsReadBack == Spec => []DecodersAgree
<1>1. Init => unit \in Units BY UnitInit
<1>2. unit \in Units /\ [Next]_vars => (unit \in Units)' BY UnitNext
<1>3. unit \in Units => DecodersAgree BY DecodedRight
<1> QED BY <1>1, <1>2, <1>3, PTL DEF Spec

-----------------------------------------------------------------------------
(* Arithmetic.                                                              *)

LEMMA ArithmeticOps ==
    /\ DOMAIN BinNo = BinOps /\ DOMAIN CmpNo = CmpKinds
    /\ DOMAIN FormOf = {"BinOp", "BinOpRi", "BinOpIr"}
    /\ FormOf["BinOp"] = "rr" /\ FormOf["BinOpRi"] = "ri" /\ FormOf["BinOpIr"] = "ir"
<1>1. DOMAIN BinNo = BinOps BY BinNoIs DEF BinOps
<1>2. DOMAIN CmpNo = CmpKinds BY CmpNoIs DEF CmpKinds
<1>3. /\ DOMAIN FormOf = {"BinOp", "BinOpRi", "BinOpIr"}
      /\ FormOf["BinOp"] = "rr" /\ FormOf["BinOpRi"] = "ri" /\ FormOf["BinOpIr"] = "ir"
  BY DEF FormOf
<1> QED BY <1>1, <1>2, <1>3

(* What the table has under a number that is given to an arithmetic         *)
(* instruction, and only there.                                             *)
LEMMA Arms ==
    ASSUME NEW n
    PROVE  \/ Dispatch(n)[1] \in {"CondBr", "Range"}
           \/ \E op \in Plain \cup {"undefined"} : Dispatch(n) = <<op>>
           \/ \E c \in CmpKinds : Dispatch(n) \in {<<"Cmp", c>>, <<"Cmpri", c>>}
           \/ \E b \in BinOps : Dispatch(n) = <<"BinOp", b>>
           \/ \E b \in BinOps : b \in Immediate /\ Dispatch(n) \in {<<"BinOpRi", b>>, <<"BinOpIr", b>>}
<1>1. CASE n \in {4, 12} \cup {5, 13} \cup {153, 154}
  <2>1. \/ Dispatch(n) = <<"CondBr", "if">> \/ Dispatch(n) = <<"CondBr", "ifnot">>
        \/ Dispatch(n) = <<"Range", "incl">> \/ Dispatch(n) = <<"Range", "excl">>
    BY <1>1, DispatchIs
  <2> QED BY <2>1
<1>2. CASE n \in 134..139
  <2>1. Dispatch(n) = <<"Cmp", CmpAt(n - 134)>> /\ n - 134 \in 0..5 BY <1>2, DispatchIs
  <2> QED BY <2>1, CmpAtIs, ArithmeticOps
<1>3. CASE n \in 142..147
  <2>1. Dispatch(n) = <<"Cmpri", CmpAt(n - 142)>> /\ n - 142 \in 0..5 BY <1>3, DispatchIs
  <2> QED BY <2>1, CmpAtIs, ArithmeticOps
<1>4. CASE n \in 156..161
  <2>1. Dispatch(n) = <<"Cmp", CmpAt(n - 156)>> /\ n - 156 \in 0..5 BY <1>4, DispatchIs
  <2> QED BY <2>1, CmpAtIs, ArithmeticOps
<1>5. CASE n \in 162..167
  <2>1. Dispatch(n) = <<"Cmpri", CmpAt(n - 162)>> /\ n - 162 \in 0..5 BY <1>5, DispatchIs
  <2> QED BY <2>1, CmpAtIs, ArithmeticOps
<1>6. CASE n \in 200..210
  <2>1. Dispatch(n) = <<"BinOp", BinAt(n - 200)>> /\ n - 200 \in 0..10 BY <1>6, DispatchIs
  <2> QED BY <2>1, BinAtIs, ArithmeticOps
<1>7. CASE n \in 180..190
  <2> DEFINE b == BinAt(n - 180)
  <2>1. Dispatch(n) = Handler("BinOpIr", b) /\ n - 180 \in 0..10 BY <1>7, DispatchIs
  <2>2. b \in BinOps BY <2>1, BinAtIs, ArithmeticOps
  <2> HIDE DEF b
  <2>3. (b \in Immediate /\ Dispatch(n) = <<"BinOpIr", b>>) \/ Dispatch(n) = <<"undefined">>
    BY <2>1 DEF Handler
  <2> QED BY <2>2, <2>3
<1>8. CASE n \in 220..230
  <2> DEFINE b == BinAt(n - 220)
  <2>1. Dispatch(n) = Handler("BinOpRi", b) /\ n - 220 \in 0..10 BY <1>8, DispatchIs
  <2>2. b \in BinOps BY <2>1, BinAtIs, ArithmeticOps
  <2> HIDE DEF b
  <2>3. (b \in Immediate /\ Dispatch(n) = <<"BinOpRi", b>>) \/ Dispatch(n) = <<"undefined">>
    BY <2>1 DEF Handler
  <2> QED BY <2>2, <2>3
<1>9. CASE n \notin Kinded
  <2> DEFINE found == {op \in Plain : OpNo[op] = n}
  <2>1. Dispatch(n) = PlainAt(Plain, n) BY <1>9, DispatchIs
  <2>2. PlainAt(Plain, n) = IF found = {} THEN <<"undefined">> ELSE <<CHOOSE op \in found : TRUE>>
    BY DEF PlainAt
  <2>3. found # {} => (CHOOSE op \in found : TRUE) \in Plain OBVIOUS
  <2> HIDE DEF found
  <2> QED BY <2>1, <2>2, <2>3
<1>10. n \in Kinded => n \in {4, 12} \cup {5, 13} \cup {153, 154} \/ n \in 134..139 \/ n \in 142..147
                       \/ n \in 156..161 \/ n \in 162..167 \/ n \in 180..190 \/ n \in 200..210
                       \/ n \in 220..230
  BY DEF Kinded
<1> QED BY <1>1, <1>2, <1>3, <1>4, <1>5, <1>6, <1>7, <1>8, <1>9, <1>10

LEMMA IsExactness ==
    /\ \A c \in CmpKinds : <<<<"Cmp", c>>, TRUE>> \in Exactness /\ <<<<"Cmpri", c>>, TRUE>> \in Exactness
    /\ \A b \in BinOps : <<<<"BinOp", b>>, TRUE>> \in Exactness
    /\ \A b \in BinOps : b \in Immediate => /\ <<<<"BinOpRi", b>>, TRUE>> \in Exactness
                                            /\ <<<<"BinOpIr", b>>, TRUE>> \in Exactness
    /\ <<<<"Neg">>, TRUE>> \in Exactness
<1>1. /\ \A h \in (DOMAIN FormOf) \X (DOMAIN BinNo) :
           <<h, IsInst(h) /\ BinaryExact(h[2], FormOf[h[1]])>> \in Exactness
      /\ \A h \in {"Cmp", "Cmpri"} \X (DOMAIN CmpNo) : <<h, CompareExact(h[2])>> \in Exactness
      /\ <<<<"Neg">>, NegExact>> \in Exactness
  BY DEF Exactness
<1>2. ASSUME NEW i \in {"BinOp", "BinOpRi", "BinOpIr"}, NEW b \in BinOps,
             i = "BinOp" \/ b \in Immediate
      PROVE  <<<<i, b>>, TRUE>> \in Exactness
  <2> DEFINE h == <<i, b>>
  <2>1. h \in (DOMAIN FormOf) \X (DOMAIN BinNo) /\ h[1] = i /\ h[2] = b BY ArithmeticOps
  <2>2. IsInst(h)
    <3>1. b \in DOMAIN BinNo BY ArithmeticOps
    <3>2. Dispatch(Opcode(h)) = h BY <1>2, <3>1, BinTrip
    <3> QED BY <3>2 DEF IsInst
  <2>3. BinaryExact(b, FormOf[i])
    <3>1. FormOf[i] \in {"rr", "ri", "ir"} BY ArithmeticOps
    <3>2. FormOf[i] = "ri" => b \notin {"shl", "shr"} BY <1>2, ArithmeticOps DEF Immediate
    <3> QED BY <3>1, <3>2, BinaryIsExact
  <2>4. (IsInst(h) /\ BinaryExact(h[2], FormOf[h[1]])) = TRUE BY <2>1, <2>2, <2>3
  <2>5. <<h, IsInst(h) /\ BinaryExact(h[2], FormOf[h[1]])>> \in Exactness BY <1>1, <2>1
  <2> HIDE DEF h
  <2>6. <<h, TRUE>> \in Exactness BY <2>4, <2>5
  <2> QED BY <2>6 DEF h
<1>3. ASSUME NEW i \in {"Cmp", "Cmpri"}, NEW c \in CmpKinds PROVE <<<<i, c>>, TRUE>> \in Exactness
  <2> DEFINE h == <<i, c>>
  <2>1. h \in {"Cmp", "Cmpri"} \X (DOMAIN CmpNo) /\ h[2] = c BY ArithmeticOps
  <2>2. CompareExact(c) /\ CompareExact(c) \in BOOLEAN
    <3>1. CompareExact(c) BY CompareIsExact
    <3>2. CompareExact(c) \in BOOLEAN BY DEF CompareExact
    <3> QED BY <3>1, <3>2
  <2>3. CompareExact(h[2]) = TRUE BY <2>1, <2>2
  <2>4. <<h, CompareExact(h[2])>> \in Exactness BY <1>1, <2>1
  <2> HIDE DEF h
  <2>5. <<h, TRUE>> \in Exactness BY <2>3, <2>4
  <2> QED BY <2>5 DEF h
<1>4. NegExact = TRUE
  <2>1. NegExact \in BOOLEAN BY DEF NegExact
  <2> QED BY <2>1, NegIsExact
<1>5. <<<<"Neg">>, TRUE>> \in Exactness BY <1>1, <1>4
<1> QED BY <1>2, <1>3, <1>5

LEMMA ExactRight == ArithmeticExact
<1> SUFFICES ASSUME NEW i \in {"BinOp", "BinOpRi", "BinOpIr", "Cmp", "Cmpri", "Neg"}, H[1] = i
             PROVE  <<H, TRUE>> \in Exactness
  BY DEF ArithmeticExact, Running
<1>1. H = Dispatch(W.code) BY DEF H
<1> DEFINE h == Dispatch(W.code)
<1>2. \/ h[1] \in {"CondBr", "Range"}
      \/ \E op \in Plain \cup {"undefined"} : h = <<op>>
      \/ \E c \in CmpKinds : h \in {<<"Cmp", c>>, <<"Cmpri", c>>}
      \/ \E b \in BinOps : h = <<"BinOp", b>>
      \/ \E b \in BinOps : b \in Immediate /\ h \in {<<"BinOpRi", b>>, <<"BinOpIr", b>>}
  BY Arms
<1> HIDE DEF h
<1>3. h[1] = i BY <1>1 DEF h
<1>4. ASSUME NEW op \in Plain \cup {"undefined"}, h = <<op>> PROVE h = <<"Neg">>
  <2>1. op = i BY <1>3, <1>4
  <2>2. op = "Neg" BY <2>1 DEF Plain
  <2> QED BY <1>4, <2>2
<1>5. <<h, TRUE>> \in Exactness BY <1>2, <1>3, <1>4, IsExactness
<1> QED BY <1>1, <1>5 DEF h

(***************************************************************************)
(* Whatever the width of a word, of a count and of an immediate operand,   *)
(* and for Integers up to every bound, the instruction that is executed    *)
(* next gives the Integer that Ruby's arithmetic gives, in the interpreter *)
(* and in the code compiled for it.                                        *)
(***************************************************************************)
THEOREM InstructionsAreExact == Spec => []ArithmeticExact
BY ExactRight, PTL

-----------------------------------------------------------------------------
(* Staying in the code.                                                     *)

\* What the initial states say of the code, in every state.
Closed ==
  code # <<>> =>
    /\ FromBc(code[1].code)[1] \in {"InitMethod", "InitBlock"}
    /\ \A j \in DOMAIN code : InstructionStart(j) =>
         /\ Dispatch(code[j].code) # <<"undefined">>
         /\ \A k \in After(j) : InstructionStart(k)
Framed ==
  code # <<>> =>
    \A j \in DOMAIN code : ~IsCache(j) \/ code[j].code = 130 => \A s \in SlotsOf(j) : s < code[1].o1

\* A word is fetched only while the function runs, and then it is one of the
\* function's instructions.
IInv == unit \in Units /\ TypeOK /\ Closed /\ StaysInCode /\ (status = "running" => code # <<>>)

\* What every step does to the variables other than the registers.
Advances ==
  /\ unit' = unit /\ status' = status
  /\ pc' \in After(pc)
  /\ DOMAIN cells' = DOMAIN cells
  /\ oracle' \in Seq(BOOLEAN)
Touches(slots) ==
  /\ DOMAIN regs' = DOMAIN regs
  /\ \A s \in DOMAIN regs : s \notin slots => regs'[s] = regs[s]

LEMMA SetTouches == ASSUME NEW s, NEW v, regs' = Set(s, v) PROVE Touches({s})
BY DEF Set, Touches

LEMMA SetUnlessZeroTouches ==
    ASSUME NEW s, NEW v, regs' = SetUnlessZero(regs, s, v) PROVE Touches({s})
<1>1. CASE s = 0
  <2>1. regs' = regs BY <1>1 DEF SetUnlessZero
  <2> QED BY <2>1 DEF Touches
<1>2. CASE s # 0
  <2>1. regs' = [regs EXCEPT ![s] = v] BY <1>2 DEF SetUnlessZero
  <2> QED BY <2>1 DEF Touches
<1> QED BY <1>1, <1>2

LEMMA SameTouches == ASSUME regs' = regs, NEW slots PROVE Touches(slots)
BY DEF Touches

LEMMA Falls ==
    ASSUME NEW j, LET h == Dispatch(code[j].code)[1]
                  IN h \notin {"MethodCall", "MethodCallBlock", "Br", "Ret"}
    PROVE  j + 1 \in After(j)
BY DEF After
LEMMA Leads ==
    ASSUME NEW j, Dispatch(code[j].code)[1] \in {"Br", "CondBr", "CheckLocal"}
    PROVE  j + 1 + Value32(code[j]) \in After(j)
BY DEF After
LEMMA Skips ==
    ASSUME NEW j, Dispatch(code[j].code)[1] \in {"MethodCall", "MethodCallBlock"}
    PROVE  j + 3 \in After(j)
BY DEF After

(* An instruction that is not a branch, a call or a return. *)
LEMMA Straight ==
    ASSUME IInv, Same, Next1, DOMAIN cells' = DOMAIN cells, oracle' \in Seq(BOOLEAN),
           H[1] \notin {"MethodCall", "MethodCallBlock", "Br", "Ret"}
    PROVE  Advances
<1>1. pc + 1 \in After(pc) BY Falls DEF H, W
<1> QED BY <1>1 DEF Same, Next1, Advances

LEMMA LoadsAre ==
    /\ Load["const"] = "LoadConst" /\ Load["ivar"] = "LoadIvar" /\ Load["gvar"] = "LoadGvar"
    /\ Store["const"] = "StoreConst" /\ Store["ivar"] = "StoreIvar" /\ Store["gvar"] = "StoreGvar"
BY DEF Load, Store

LEMMA PicksAre == ASSUME NEW p \in Picks PROVE p \in BOOLEAN
<1>1. ((Len(oracle) \div 5) % 2 = 1) \in BOOLEAN OBVIOUS
<1> QED BY <1>1 DEF Picks

LEMMA AppendPick ==
    ASSUME TypeOK, NEW p \in Picks, oracle' = Append(oracle, p)
    PROVE  oracle' \in Seq(BOOLEAN)
<1>1. p \in BOOLEAN BY PicksAre
<1>2. oracle \in Seq(BOOLEAN) BY DEF TypeOK
<1> QED BY <1>1, <1>2

(* The steps that go on to the next word. *)
LEMMA StepsAdvance ==
    ASSUME IInv, Next, ~Return_
    PROVE  Advances
<1> USE DEF Running
<1>a. oracle \in Seq(BOOLEAN) /\ TypeOK BY DEF IInv, TypeOK
<1>1. CASE InitFrame
  <2>1. Same /\ Next1 /\ H[1] \in {"InitMethod", "InitBlock"} BY <1>1 DEF InitFrame
  <2>2. DOMAIN cells' = DOMAIN cells BY <1>1 DEF InitFrame
  <2>4. oracle' \in Seq(BOOLEAN) BY <1>a, <1>1 DEF InitFrame, Quiet
  <2> QED BY <2>1, <2>2, <2>4, Straight
<1>2. CASE LoadImmediate
  <2>1. Same /\ Next1 /\ H[1] \in {"Integer", "Literal", "Nil", "Symbol", "BlockArgProxy"} BY <1>2 DEF LoadImmediate
  <2>2. DOMAIN cells' = DOMAIN cells BY <1>2 DEF LoadImmediate
  <2>4. oracle' \in Seq(BOOLEAN) BY <1>a, <1>2 DEF LoadImmediate, Quiet
  <2> QED BY <2>1, <2>2, <2>4, Straight
<1>3. CASE Move
  <2>1. Same /\ Next1 /\ H[1] \in {"Mov"} BY <1>3 DEF Move
  <2>2. DOMAIN cells' = DOMAIN cells BY <1>3 DEF Move
  <2>4. oracle' \in Seq(BOOLEAN) BY <1>a, <1>3 DEF Move, Quiet
  <2> QED BY <2>1, <2>2, <2>4, Straight
<1>4. CASE LoadVar
  <2>1. Same /\ Next1 /\ H[1] \in {"LoadConst", "LoadIvar", "LoadGvar"} BY <1>4, LoadsAre DEF LoadVar
  <2>2. DOMAIN cells' = DOMAIN cells BY <1>4 DEF LoadVar
  <2>4. oracle' \in Seq(BOOLEAN) BY <1>a, <1>4 DEF LoadVar, Quiet
  <2> QED BY <2>1, <2>2, <2>4, Straight
<1>5. CASE StoreVar
  <2>1. Same /\ Next1 /\ H[1] \in {"StoreConst", "StoreIvar", "StoreGvar"} BY <1>5, LoadsAre DEF StoreVar
  <2>2. DOMAIN cells' = DOMAIN cells BY <1>5 DEF StoreVar
  <2>4. oracle' \in Seq(BOOLEAN) BY <1>a, <1>5 DEF StoreVar, Quiet
  <2> QED BY <2>1, <2>2, <2>4, Straight
<1>6. CASE LoadDvar
  <2>1. Same /\ Next1 /\ H[1] \in {"LoadDynVar"} BY <1>6 DEF LoadDvar
  <2>2. DOMAIN cells' = DOMAIN cells BY <1>6 DEF LoadDvar
  <2>4. oracle' \in Seq(BOOLEAN) BY <1>a, <1>6 DEF LoadDvar, Quiet
  <2> QED BY <2>1, <2>2, <2>4, Straight
<1>7. CASE StoreDvar
  <2>1. Same /\ Next1 /\ H[1] \in {"StoreDynVar"} BY <1>7 DEF StoreDvar
  <2>2. DOMAIN cells' = DOMAIN cells BY <1>7 DEF StoreDvar
  <2>4. oracle' \in Seq(BOOLEAN) BY <1>a, <1>7 DEF StoreDvar, Quiet
  <2> QED BY <2>1, <2>2, <2>4, Straight
<1>8. CASE LoopMark
  <2>1. Same /\ Next1 /\ H[1] \in {"LoopStart", "LoopEnd"} BY <1>8 DEF LoopMark
  <2>2. DOMAIN cells' = DOMAIN cells BY <1>8 DEF LoopMark
  <2>4. oracle' \in Seq(BOOLEAN) BY <1>a, <1>8 DEF LoopMark, Quiet
  <2> QED BY <2>1, <2>2, <2>4, Straight
<1>9. CASE BinaryOp
  <2>1. Same /\ Next1 /\ H[1] \in {"BinOp", "BinOpRi", "BinOpIr"} BY <1>9 DEF BinaryOp
  <2>2. DOMAIN cells' = DOMAIN cells BY <1>9 DEF BinaryOp
  <2>4. oracle' \in Seq(BOOLEAN) BY <1>a, <1>9 DEF BinaryOp, Quiet
  <2> QED BY <2>1, <2>2, <2>4, Straight
<1>10. CASE CompareInts
  <2>1. Same /\ Next1 /\ H[1] \in {"Cmp", "Cmpri"} BY <1>10 DEF CompareInts
  <2>2. DOMAIN cells' = DOMAIN cells BY <1>10 DEF CompareInts
  <2>4. oracle' \in Seq(BOOLEAN) BY <1>a, <1>10 DEF CompareInts, Quiet
  <2> QED BY <2>1, <2>2, <2>4, Straight
<1>11. CASE CompareObjects
  <2>1. Same /\ Next1 /\ H[1] \in {"Cmp", "Cmpri"} BY <1>11 DEF CompareObjects
  <2>2. DOMAIN cells' = DOMAIN cells BY <1>11 DEF CompareObjects
  <2>3. \E p \in Picks : oracle' = Append(oracle, p) BY <1>11 DEF CompareObjects
  <2>4. oracle' \in Seq(BOOLEAN) BY <1>a, <2>3, AppendPick
  <2> QED BY <2>1, <2>2, <2>4, Straight
<1>12. CASE Negate
  <2>1. Same /\ Next1 /\ H[1] \in {"Neg"} BY <1>12 DEF Negate
  <2>2. DOMAIN cells' = DOMAIN cells BY <1>12 DEF Negate
  <2>4. oracle' \in Seq(BOOLEAN) BY <1>a, <1>12 DEF Negate, Quiet
  <2> QED BY <2>1, <2>2, <2>4, Straight
<1>13. CASE MakeArray
  <2>1. Same /\ Next1 /\ H[1] \in {"Array"} BY <1>13 DEF MakeArray
  <2>2. DOMAIN cells' = DOMAIN cells BY <1>13 DEF MakeArray
  <2>4. oracle' \in Seq(BOOLEAN) BY <1>a, <1>13 DEF MakeArray, Quiet
  <2> QED BY <2>1, <2>2, <2>4, Straight
<1>14. CASE MakeRange
  <2>1. Same /\ Next1 /\ H[1] \in {"Range"} BY <1>14 DEF MakeRange
  <2>2. DOMAIN cells' = DOMAIN cells BY <1>14 DEF MakeRange
  <2>4. oracle' \in Seq(BOOLEAN) BY <1>a, <1>14 DEF MakeRange, Quiet
  <2> QED BY <2>1, <2>2, <2>4, Straight
<1>15. CASE Concat
  <2>1. Same /\ Next1 /\ H[1] \in {"ConcatStr"} BY <1>15 DEF Concat
  <2>2. DOMAIN cells' = DOMAIN cells BY <1>15 DEF Concat
  <2>4. oracle' \in Seq(BOOLEAN) BY <1>a, <1>15 DEF Concat, Quiet
  <2> QED BY <2>1, <2>2, <2>4, Straight
<1>16. CASE GetIndex
  <2>1. Same /\ Next1 /\ H[1] \in {"Index"} BY <1>16 DEF GetIndex
  <2>2. DOMAIN cells' = DOMAIN cells BY <1>16 DEF GetIndex
  <2>4. oracle' \in Seq(BOOLEAN) BY <1>a, <1>16 DEF GetIndex, Quiet
  <2> QED BY <2>1, <2>2, <2>4, Straight
<1>17. CASE SetIndex
  <2>1. Same /\ Next1 /\ H[1] \in {"StoreIndex"} BY <1>17 DEF SetIndex
  <2>2. DOMAIN cells' = DOMAIN cells BY <1>17 DEF SetIndex
  <2>4. oracle' \in Seq(BOOLEAN) BY <1>a, <1>17 DEF SetIndex, Quiet
  <2> QED BY <2>1, <2>2, <2>4, Straight
<1>18. CASE YieldBlock
  <2>1. Same /\ Next1 /\ H[1] \in {"Yield"} BY <1>18 DEF YieldBlock
  <2>2. DOMAIN cells' = DOMAIN cells BY <1>18 DEF YieldBlock
  <2>3. \E p \in Picks : oracle' = Append(oracle, p) BY <1>18 DEF YieldBlock
  <2>4. oracle' \in Seq(BOOLEAN) BY <1>a, <2>3, AppendPick
  <2> QED BY <2>1, <2>2, <2>4, Straight
<1>19. CASE DefineMethod
  <2>1. Same /\ Next1 /\ H[1] \in {"MethodDef"} BY <1>19 DEF DefineMethod
  <2>2. DOMAIN cells' = DOMAIN cells BY <1>19 DEF DefineMethod
  <2>4. oracle' \in Seq(BOOLEAN) BY <1>a, <1>19 DEF DefineMethod, Quiet
  <2> QED BY <2>1, <2>2, <2>4, Straight
<1>20. CASE DefineClass
  <2>1. Same /\ Next1 /\ H[1] \in {"ClassDef"} BY <1>20 DEF DefineClass
  <2>2. DOMAIN cells' = DOMAIN cells BY <1>20 DEF DefineClass
  <2>3. \E p \in Picks : oracle' = Append(oracle, p) BY <1>20 DEF DefineClass
  <2>4. oracle' \in Seq(BOOLEAN) BY <1>a, <2>3, AppendPick
  <2> QED BY <2>1, <2>2, <2>4, Straight
<1>21. CASE Expand
  <2>1. Same /\ Next1 /\ H[1] \in {"ExpandArray"} BY <1>21 DEF Expand
  <2>2. DOMAIN cells' = DOMAIN cells BY <1>21 DEF Expand
  <2>4. oracle' \in Seq(BOOLEAN) BY <1>a, <1>21 DEF Expand, Quiet
  <2> QED BY <2>1, <2>2, <2>4, Straight
<1>22. CASE Branch
  <2>1. /\ Same /\ Quiet /\ DOMAIN cells' = DOMAIN cells BY <1>22 DEF Branch
  <2>2. H[1] \in {"Br", "CondBr", "CheckLocal"} BY <1>22 DEF Branch
  <2>3. pc' = pc + 1 + Value32(W) \/ (pc' = pc + 1 + 0 /\ H[1] # "Br") BY <1>22 DEF Branch, BranchIf
  <2>4. pc \in Nat BY <1>a DEF TypeOK
  <2>5. pc' \in After(pc)
    <3>1. pc + 1 + Value32(W) \in After(pc) BY <2>2, Leads DEF H, W
    <3>2. H[1] # "Br" => pc + 1 \in After(pc) BY <2>2, Falls DEF H, W
    <3>3. pc + 1 + 0 = pc + 1 BY <2>4
    <3> QED BY <2>3, <3>1, <3>2, <3>3
  <2> QED BY <1>a, <2>1, <2>5 DEF Same, Quiet, Advances
<1>23. CASE CallMethod
  <2>1. /\ Same /\ AfterCall /\ DOMAIN cells' = DOMAIN cells
        /\ H[1] \in {"MethodCall", "MethodCallBlock"}
        /\ \E p \in Picks : oracle' = Append(oracle, p)
    BY <1>23 DEF CallMethod
  <2>2. oracle' \in Seq(BOOLEAN) BY <1>a, <2>1, AppendPick
  <2>3. pc + 3 \in After(pc) BY <2>1, Skips DEF H, W
  <2> QED BY <2>1, <2>2, <2>3 DEF Same, AfterCall, Advances
<1> QED BY <1>1, <1>2, <1>3, <1>4, <1>5, <1>6, <1>7, <1>8, <1>9, <1>10, <1>11, <1>12, <1>13, <1>14, <1>15, <1>16, <1>17, <1>18, <1>19, <1>20, <1>21, <1>22, <1>23 DEF Next

(* The function that runs, whether it was accepted or not, at its start. *)
LEMMA CodeIs ==
    ASSUME unit \in Units
    PROVE  /\ unit.accepted \in BOOLEAN
           /\ unit.accepted <=> code # <<>>
           /\ code # <<>> => \E n \in Nat \ {0} : DOMAIN code = 1..n
           /\ \A j \in DOMAIN code :
                /\ code[j].code \in 0..255
                /\ {code[j].o1, code[j].o2, code[j].o3} \subseteq Unsigned
<1>1. /\ unit.accepted \in BOOLEAN
      /\ code = IF unit.accepted THEN Encode(unit) ELSE <<>>
      /\ unit.accepted => Len(unit.ir) \in Nat \ {0} /\ DOMAIN unit.ir = 1..Len(unit.ir)
  BY UnitsAssumption DEF code
<1>2. unit.accepted => code # <<>>
  <2> SUFFICES ASSUME unit.accepted PROVE code # <<>> OBVIOUS
  <2>1. DOMAIN code = 1..Len(unit.ir) BY <1>1 DEF Encode
  <2>2. 1 \in DOMAIN code BY <1>1, <2>1
  <2> QED BY <2>2
<1>3. code # <<>> => \E n \in Nat \ {0} : DOMAIN code = 1..n
  <2> SUFFICES ASSUME code # <<>> PROVE \E n \in Nat \ {0} : DOMAIN code = 1..n OBVIOUS
  <2>1. Accepted BY DEF Accepted
  <2>2. Len(unit.ir) \in Nat \ {0} /\ DOMAIN code = 1..Len(unit.ir) BY <2>1, UnitIs
  <2> QED BY <2>2
<1>4. ASSUME NEW j \in DOMAIN code
      PROVE  /\ code[j].code \in 0..255
             /\ {code[j].o1, code[j].o2, code[j].o3} \subseteq Unsigned
  <2>1. code # <<>> OBVIOUS
  <2>2. Accepted BY <2>1 DEF Accepted
  <2>3. code[j] = EncodeInst(unit, j) /\ IsTyped(unit, j) BY <2>2, UnitIs
  <2>4. /\ unit.ir[j].op \in Ops /\ code[j].code = Opcode(unit.ir[j].op)
        /\ code[j].o1 \in Unsigned /\ code[j].o2 \in Unsigned /\ code[j].o3 \in Unsigned
    BY <2>3, Encodes
  <2>5. Opcode(unit.ir[j].op) \in 0..255
    <3>1. Opcode(<<"InlineCache">>) = 0 BY OpNoIs, OpcodeIs
    <3>2. CASE unit.ir[j].op = <<"InlineCache">> BY <3>1, <3>2
    <3>3. CASE unit.ir[j].op # <<"InlineCache">>
      <4>1. RoundTrip(unit.ir[j].op) BY <2>4, <3>3, OpsTrip
      <4> QED BY <4>1 DEF RoundTrip
    <3> QED BY <3>2, <3>3
  <2> QED BY <2>4, <2>5
<1> QED BY <1>1, <1>2, <1>3, <1>4

LEMMA WordIsNat ==
    ASSUME unit \in Units, NEW j \in DOMAIN code
    PROVE  code[j].o1 \in Nat /\ code[j].o2 \in Nat /\ code[j].o3 \in Nat
<1>1. code[j].o1 \in Unsigned /\ code[j].o2 \in Unsigned /\ code[j].o3 \in Unsigned BY CodeIs
<1>2. \A x \in Unsigned : x \in Nat
  <2> SUFFICES ASSUME NEW x \in Unsigned PROVE x \in Nat OBVIOUS
  <2>1. x \in Int /\ 0 <= x BY Ranges, SMT
  <2> QED BY <2>1
<1> QED BY <1>1, <1>2

LEMMA OnlyRunning == ASSUME Next PROVE status = "running" /\ pc \in DOMAIN code
<1> USE DEF Running
<1>1. CASE InitFrame BY <1>1 DEF InitFrame
<1>2. CASE LoadImmediate BY <1>2 DEF LoadImmediate
<1>3. CASE Move BY <1>3 DEF Move
<1>4. CASE LoadVar BY <1>4 DEF LoadVar
<1>5. CASE StoreVar BY <1>5 DEF StoreVar
<1>6. CASE LoadDvar BY <1>6 DEF LoadDvar
<1>7. CASE StoreDvar BY <1>7 DEF StoreDvar
<1>8. CASE Branch BY <1>8 DEF Branch
<1>9. CASE LoopMark BY <1>9 DEF LoopMark
<1>10. CASE BinaryOp BY <1>10 DEF BinaryOp
<1>11. CASE CompareInts BY <1>11 DEF CompareInts
<1>12. CASE CompareObjects BY <1>12 DEF CompareObjects
<1>13. CASE Negate BY <1>13 DEF Negate
<1>14. CASE MakeArray BY <1>14 DEF MakeArray
<1>15. CASE MakeRange BY <1>15 DEF MakeRange
<1>16. CASE Concat BY <1>16 DEF Concat
<1>17. CASE GetIndex BY <1>17 DEF GetIndex
<1>18. CASE SetIndex BY <1>18 DEF SetIndex
<1>19. CASE CallMethod BY <1>19 DEF CallMethod
<1>20. CASE YieldBlock BY <1>20 DEF YieldBlock
<1>21. CASE DefineMethod BY <1>21 DEF DefineMethod
<1>22. CASE DefineClass BY <1>22 DEF DefineClass
<1>23. CASE Expand BY <1>23 DEF Expand
<1>24. CASE Return_ BY <1>24 DEF Return_
<1> QED BY <1>1, <1>2, <1>3, <1>4, <1>5, <1>6, <1>7, <1>8, <1>9, <1>10, <1>11, <1>12, <1>13, <1>14, <1>15, <1>16, <1>17, <1>18, <1>19, <1>20, <1>21, <1>22, <1>23, <1>24 DEF Next

\* The registers that the instruction at pc may write.
Written ==
  IF H[1] \in {"InitMethod", "InitBlock"} THEN 0..W.o1 - 1
  ELSE IF H[1] = "ExpandArray" THEN W.o2..W.o2 + W.o3 - 1
  ELSE IF H[1] \in {"MethodCall", "MethodCallBlock"} THEN {W.o1, LocalNo("a")}
  ELSE IF H[1] \in {"StoreConst", "StoreIvar", "StoreGvar", "StoreDynVar", "StoreIndex", "Br", "CondBr",
                    "CheckLocal", "LoopStart", "LoopEnd", "MethodDef"} THEN {}
  ELSE {W.o1}

LEMMA StepsWrite ==
    ASSUME IInv, Next, ~Return_
    PROVE  Touches(Written)
<1> USE DEF Running
<1>1. CASE InitFrame
  <2>1. H[1] \in {"InitMethod", "InitBlock"} BY <1>1 DEF InitFrame
  <2>2. regs' = [s \in DOMAIN regs |-> IF regs[s] = <<"junk">> /\ s < W.o1 THEN Nil ELSE regs[s]]
    BY <1>1 DEF InitFrame
  <2>3. Written = 0..W.o1 - 1 BY <2>1 DEF Written
  <2>4. pc \in DOMAIN code BY <1>1 DEF InitFrame
  <2>5. W.o1 \in Nat BY <2>4, WordIsNat DEF IInv, W
  <2>6. DOMAIN regs = 0..MaxSlot BY DEF IInv, TypeOK
  <2>7. \A s \in DOMAIN regs : s \notin 0..W.o1 - 1 => ~(s < W.o1) BY <2>5, <2>6
  <2> QED BY <2>2, <2>3, <2>7 DEF Touches
<1>2. CASE LoadImmediate
  <2>1. H[1] \in {"Integer", "Literal", "Nil", "Symbol", "BlockArgProxy"} BY <1>2 DEF LoadImmediate
  <2>2. \E v : regs' = Set(W.o1, v) BY <1>2 DEF LoadImmediate
  <2>3. Written = {W.o1} BY <2>1 DEF Written
  <2> QED BY <2>2, <2>3, SetTouches
<1>3. CASE Move
  <2>1. H[1] \in {"Mov"} BY <1>3 DEF Move
  <2>2. \E v : regs' = Set(W.o1, v) BY <1>3 DEF Move
  <2>3. Written = {W.o1} BY <2>1 DEF Written
  <2> QED BY <2>2, <2>3, SetTouches
<1>4. CASE LoadVar
  <2>1. H[1] \in {"LoadConst", "LoadIvar", "LoadGvar"} BY <1>4, LoadsAre DEF LoadVar
  <2>2. \E v : regs' = Set(W.o1, v) BY <1>4 DEF LoadVar
  <2>3. Written = {W.o1} BY <2>1 DEF Written
  <2> QED BY <2>2, <2>3, SetTouches
<1>5. CASE StoreVar
  <2>1. regs' = regs BY <1>5 DEF StoreVar
  <2> QED BY <2>1, SameTouches
<1>6. CASE LoadDvar
  <2>1. H[1] \in {"LoadDynVar"} BY <1>6 DEF LoadDvar
  <2>2. \E v : regs' = SetUnlessZero(regs, W.o1, v) BY <1>6 DEF LoadDvar
  <2>3. Written = {W.o1} BY <2>1 DEF Written
  <2> QED BY <2>2, <2>3, SetUnlessZeroTouches
<1>7. CASE StoreDvar
  <2>1. regs' = regs BY <1>7 DEF StoreDvar
  <2> QED BY <2>1, SameTouches
<1>8. CASE Branch
  <2>1. regs' = regs BY <1>8 DEF Branch
  <2> QED BY <2>1, SameTouches
<1>9. CASE LoopMark
  <2>1. regs' = regs BY <1>9 DEF LoopMark
  <2> QED BY <2>1, SameTouches
<1>10. CASE BinaryOp
  <2>1. H[1] \in {"BinOp", "BinOpRi", "BinOpIr"} BY <1>10 DEF BinaryOp
  <2>2. \E v : regs' = Set(W.o1, v) BY <1>10 DEF BinaryOp
  <2>3. Written = {W.o1} BY <2>1 DEF Written
  <2> QED BY <2>2, <2>3, SetTouches
<1>11. CASE CompareInts
  <2>1. H[1] \in {"Cmp", "Cmpri"} BY <1>11 DEF CompareInts
  <2>2. \E v : regs' = Set(W.o1, v) BY <1>11 DEF CompareInts
  <2>3. Written = {W.o1} BY <2>1 DEF Written
  <2> QED BY <2>2, <2>3, SetTouches
<1>12. CASE CompareObjects
  <2>1. H[1] \in {"Cmp", "Cmpri"} BY <1>12 DEF CompareObjects
  <2>2. \E v : regs' = Set(W.o1, v) BY <1>12 DEF CompareObjects
  <2>3. Written = {W.o1} BY <2>1 DEF Written
  <2> QED BY <2>2, <2>3, SetTouches
<1>13. CASE Negate
  <2>1. H[1] \in {"Neg"} BY <1>13 DEF Negate
  <2>2. \E v : regs' = Set(W.o1, v) BY <1>13 DEF Negate
  <2>3. Written = {W.o1} BY <2>1 DEF Written
  <2> QED BY <2>2, <2>3, SetTouches
<1>14. CASE MakeArray
  <2>1. H[1] \in {"Array"} BY <1>14 DEF MakeArray
  <2>2. \E v : regs' = Set(W.o1, v) BY <1>14 DEF MakeArray
  <2>3. Written = {W.o1} BY <2>1 DEF Written
  <2> QED BY <2>2, <2>3, SetTouches
<1>15. CASE MakeRange
  <2>1. H[1] \in {"Range"} BY <1>15 DEF MakeRange
  <2>2. \E v : regs' = Set(W.o1, v) BY <1>15 DEF MakeRange
  <2>3. Written = {W.o1} BY <2>1 DEF Written
  <2> QED BY <2>2, <2>3, SetTouches
<1>16. CASE Concat
  <2>1. H[1] \in {"ConcatStr"} BY <1>16 DEF Concat
  <2>2. \E v : regs' = SetUnlessZero(regs, W.o1, v) BY <1>16 DEF Concat
  <2>3. Written = {W.o1} BY <2>1 DEF Written
  <2> QED BY <2>2, <2>3, SetUnlessZeroTouches
<1>17. CASE GetIndex
  <2>1. H[1] \in {"Index"} BY <1>17 DEF GetIndex
  <2>2. \E v : regs' = Set(W.o1, v) BY <1>17 DEF GetIndex
  <2>3. Written = {W.o1} BY <2>1 DEF Written
  <2> QED BY <2>2, <2>3, SetTouches
<1>18. CASE SetIndex
  <2>1. regs' = regs BY <1>18 DEF SetIndex
  <2> QED BY <2>1, SameTouches
<1>19. CASE CallMethod
  <2>1. H[1] \in {"MethodCall", "MethodCallBlock"} BY <1>19 DEF CallMethod
  <2>2. PICK after, v : /\ after = regs \/ \E x : after = Set(LocalNo("a"), x)
                        /\ regs' = SetUnlessZero(after, W.o1, v)
    BY <1>19 DEF CallMethod
  <2>3. Written = {W.o1, LocalNo("a")} BY <2>1 DEF Written
  <2>4. DOMAIN after = DOMAIN regs /\ \A s \in DOMAIN regs : s # LocalNo("a") => after[s] = regs[s]
    BY <2>2 DEF Set
  <2>5. DOMAIN regs' = DOMAIN after /\ \A s \in DOMAIN after : s # W.o1 => regs'[s] = after[s]
    BY <2>2 DEF SetUnlessZero
  <2> QED BY <2>3, <2>4, <2>5 DEF Touches
<1>20. CASE YieldBlock
  <2>1. H[1] \in {"Yield"} BY <1>20 DEF YieldBlock
  <2>2. \E v : regs' = SetUnlessZero(regs, W.o1, v) BY <1>20 DEF YieldBlock
  <2>3. Written = {W.o1} BY <2>1 DEF Written
  <2> QED BY <2>2, <2>3, SetUnlessZeroTouches
<1>21. CASE DefineMethod
  <2>1. regs' = regs BY <1>21 DEF DefineMethod
  <2> QED BY <2>1, SameTouches
<1>22. CASE DefineClass
  <2>1. H[1] \in {"ClassDef"} BY <1>22 DEF DefineClass
  <2>2. \E v : regs' = SetUnlessZero(regs, W.o1, v) BY <1>22 DEF DefineClass
  <2>3. Written = {W.o1} BY <2>1 DEF Written
  <2> QED BY <2>2, <2>3, SetUnlessZeroTouches
<1>23. CASE Expand
  <2>1. H[1] = "ExpandArray" BY <1>23 DEF Expand
  <2>2. regs' = [s \in DOMAIN regs |->
                  IF s \in W.o2..W.o2 + W.o3 - 1 THEN <<"elem", regs[W.o1], s - W.o2>> ELSE regs[s]]
    BY <1>23 DEF Expand
  <2>3. Written = W.o2..W.o2 + W.o3 - 1 BY <2>1 DEF Written
  <2> QED BY <2>2, <2>3 DEF Touches
<1> QED BY <1>1, <1>2, <1>3, <1>4, <1>5, <1>6, <1>7, <1>8, <1>9, <1>10, <1>11, <1>12, <1>13, <1>14, <1>15, <1>16, <1>17, <1>18, <1>19, <1>20, <1>21, <1>22, <1>23 DEF Next

LEMMA KeepsRegs == ASSUME IInv, Next, ~Return_ PROVE DOMAIN regs' = DOMAIN regs
BY StepsWrite DEF Touches

LEMMA FirstIsInstruction == ASSUME unit \in Units, code # <<>> PROVE InstructionStart(1)
<1>1. PICK n \in Nat \ {0} : DOMAIN code = 1..n BY CodeIs
<1>2. 1 \in DOMAIN code BY <1>1
<1>3. ~IsCache(1) BY DEF IsCache
<1> QED BY <1>2, <1>3 DEF InstructionStart

LEMMA InvInit == ASSUME Init, CodeIsClosed PROVE IInv
<1>1. unit \in Units /\ pc = 1 /\ status = IF unit.accepted THEN "running" ELSE "rejected"
  BY DEF Init
<1>2. Closed BY <1>1 DEF Closed, CodeIsClosed
<1>3. TypeOK
  <2>1. DOMAIN regs = 0..MaxSlot BY DEF Init
  <2>2. DOMAIN cells = CellNames BY DEF Init, CellsAtStart
  <2>3. oracle \in Seq(BOOLEAN) BY DEF Init
  <2>4. pc \in Nat BY <1>1
  <2>5. status \in {"running", "halted", "rejected"} BY <1>1
  <2> QED BY <1>1, <2>1, <2>2, <2>3, <2>4, <2>5, CodeIs DEF TypeOK
<1>4. status = "running" => code # <<>>
  <2>1. unit.accepted <=> code # <<>> BY <1>1, CodeIs
  <2> QED BY <1>1, <2>1
<1>5. StaysInCode
  <2> SUFFICES ASSUME code # <<>> PROVE InstructionStart(1) /\ Dispatch(code[1].code) # <<"undefined">>
    BY <1>1, <1>4 DEF StaysInCode, H, W
  <2>1. InstructionStart(1) BY <1>1, FirstIsInstruction
  <2> QED BY <1>2, <2>1 DEF Closed, InstructionStart
<1> QED BY <1>1, <1>2, <1>3, <1>4, <1>5 DEF IInv

LEMMA CodeNext == ASSUME unit' = unit PROVE code' = code
BY DEF code

\* What is said of the code alone is said in every state.
LEMMA ClosedNext == ASSUME Closed, unit' = unit PROVE Closed'
<1>1. code' = code BY CodeNext
<1>2. \A j : InstructionStart(j)' <=> InstructionStart(j) BY <1>1 DEF InstructionStart, IsCache
<1>3. \A j : After(j)' = After(j) BY <1>1 DEF After
<1> QED BY <1>1, <1>2, <1>3 DEF Closed

LEMMA InvNext == ASSUME IInv, [Next]_vars PROVE IInv'
<1>1. unit' = unit BY UnitNext
<1>2. code' = code BY <1>1, CodeNext
<1>3. Closed' BY <1>1, ClosedNext DEF IInv
<1>4. \A j : InstructionStart(j)' <=> InstructionStart(j) BY <1>2 DEF InstructionStart, IsCache
<1>5. CASE Next /\ ~Return_
  <2>1. Advances BY <1>5, StepsAdvance
  <2>2. status = "running" /\ pc \in DOMAIN code BY <1>5, OnlyRunning
  <2>3. code # <<>> /\ InstructionStart(pc) BY <2>2 DEF IInv, StaysInCode
  <2>4. InstructionStart(pc') BY <2>1, <2>2, <2>3 DEF IInv, Closed, Advances
  <2>5. Dispatch(code[pc'].code) # <<"undefined">>
    BY <2>3, <2>4 DEF IInv, Closed, InstructionStart
  <2>6. StaysInCode'
    <3>1. H' = Dispatch(code[pc'].code) BY <1>2 DEF H, W
    <3>2. InstructionStart(pc)' BY <1>2, <2>4 DEF InstructionStart, IsCache
    <3> QED BY <2>5, <3>1, <3>2 DEF StaysInCode
  <2>7. TypeOK'
    <3>1. pc' \in Nat
      <4>1. PICK n \in Nat \ {0} : DOMAIN code = 1..n BY <2>3, CodeIs DEF IInv
      <4>2. pc' \in DOMAIN code BY <2>4 DEF InstructionStart
      <4> QED BY <4>1, <4>2
    <3>2. DOMAIN regs' = DOMAIN regs BY <1>5, KeepsRegs
    <3> QED BY <1>2, <2>1, <3>1, <3>2 DEF IInv, TypeOK, Advances
  <2> QED BY <1>1, <1>2, <1>3, <2>1, <2>3, <2>6, <2>7 DEF IInv, Advances
<1>6. CASE Return_
  <2>1. status' = "halted" /\ UNCHANGED <<unit, pc, regs, cells, trace, oracle>> BY <1>6 DEF Return_
  <2>2. TypeOK' BY <1>2, <2>1 DEF IInv, TypeOK
  <2>3. StaysInCode' BY <2>1 DEF StaysInCode
  <2> QED BY <1>1, <1>3, <2>1, <2>2, <2>3 DEF IInv
<1>7. CASE UNCHANGED vars
  <2>1. UNCHANGED <<unit, pc, regs, cells, trace, oracle, status, ret>> BY <1>7 DEF vars
  <2>2. TypeOK' BY <1>2, <2>1 DEF IInv, TypeOK
  <2>3. StaysInCode'
    <3>1. H' = H BY <1>2, <2>1 DEF H, W
    <3>2. InstructionStart(pc)' = InstructionStart(pc) BY <1>2, <2>1 DEF InstructionStart, IsCache
    <3> QED BY <2>1, <3>1, <3>2 DEF IInv, StaysInCode
  <2> QED BY <1>1, <1>2, <1>3, <2>1, <2>2, <2>3 DEF IInv
<1> QED BY <1>5, <1>6, <1>7

(***************************************************************************)
(* In a function whose code is closed the interpreter never reads a word   *)
(* that is not an instruction, a cache or what is behind the code, and     *)
(* never meets an instruction it has no handler for.                       *)
(***************************************************************************)
THEOREM InterpreterStaysInCode == Spec /\ CodeIsClosed => []StaysInCode
<1>1. Init /\ CodeIsClosed => IInv BY InvInit
<1>2. IInv /\ [Next]_vars => IInv' BY InvNext
<1>3. IInv => StaysInCode BY DEF IInv
<1> QED BY <1>1, <1>2, <1>3, PTL DEF Spec

(***************************************************************************)
(* Its words and its state keep their types.                               *)
(***************************************************************************)
THEOREM InterpreterTypeOK == Spec /\ CodeIsClosed => []TypeOK
<1>1. Init /\ CodeIsClosed => IInv BY InvInit
<1>2. IInv /\ [Next]_vars => IInv' BY InvNext
<1>3. IInv => TypeOK BY DEF IInv
<1> QED BY <1>1, <1>2, <1>3, PTL DEF Spec

-----------------------------------------------------------------------------
(* Staying in the frame.                                                    *)

LEMMA FromBcAgrees ==
    ASSUME IInv, status = "running"
    PROVE  /\ FromBc(W.code)[1] = H[1] /\ FromBc(W.code) = unit.ir[pc].op
           /\ pc \in DOMAIN code /\ ~IsCache(pc)
<1>1. pc \in DOMAIN code /\ ~IsCache(pc) /\ H # <<"undefined">> /\ Accepted
  BY DEF IInv, StaysInCode, InstructionStart, Accepted
<1> DEFINE op == unit.ir[pc].op
<1>2. RoundTrip(op) /\ W.code = Opcode(op) BY <1>1, WordIs DEF W
<1>3. FromBc(W.code) = op /\ H = Meant(op) BY <1>1, <1>2 DEF RoundTrip, H
<1> HIDE DEF op
<1>4. Meant(op)[1] = op[1] BY DEF Meant
<1> QED BY <1>1, <1>3, <1>4 DEF op

(* The prologue says how many registers the frame has. *)
LEMMA PrologueWord ==
    ASSUME Accepted, NEW j \in DOMAIN code, ~IsCache(j),
           FromBc(code[j].code)[1] \in {"InitMethod", "InitBlock"}
    PROVE  code[j].o1 = RegNum(unit)
<1> DEFINE i == unit.ir[j]
<1>1. RoundTrip(i.op) /\ code[j].code = Opcode(i.op) BY WordIs
<1>2. FromBc(code[j].code) = i.op BY <1>1 DEF RoundTrip
<1>3. ReadsOperands(j, i) BY OperandsAre
<1> HIDE DEF i
<1> QED BY <1>2, <1>3 DEF ReadsOperands

LEMMA LocalNoInFrame == ASSUME Accepted PROVE LocalNo("a") < RegNum(unit)
<1>1. LocalNo("a") \in DOMAIN LocalNames BY BytecodeAssumption DEF LocalNo
<1>2. Len(LocalNames) \in Nat /\ DOMAIN LocalNames = 1..Len(LocalNames) BY LocalNamesAssumption
<1>3. unit.temp_num \in Nat BY UnitIs
<1> QED BY <1>1, <1>2, <1>3 DEF RegNum

\* The instructions, but for the prologue, whose words name registers they may write.
Names ==
  UsesFirst \cup {"StoreDynVar", "ClassDef", "Mov", "Neg", "Cmpri", "BinOpRi", "BinOpIr", "Cmp",
                 "BinOp", "Index", "StoreIndex", "Range", "Array", "ConcatStr", "Yield", "ExpandArray"}

(* What is written is among the registers the word names. *)
LEMMA WrittenAreNamed ==
    ASSUME H[1] \in Names,
           FromBc(W.code)[1] = H[1],
           NEW s \in Written, s # LocalNo("a") \/ H[1] \notin {"MethodCall", "MethodCallBlock"}
    PROVE  s \in SlotsOf(pc)
<1> DEFINE h == FromBc(W.code)[1]
<1>1. h = H[1] OBVIOUS
<1>2. W = code[pc] BY DEF W
<1> HIDE DEF h
<1> QED BY <1>1, <1>2 DEF Written, SlotsOf, Names, UsesFirst, h

(* The instructions that write: the prologue, or one that names registers. *)
LEMMA WritersAre ==
    ASSUME Next, ~Return_, Written # {}, H[1] \notin {"InitMethod", "InitBlock"}
    PROVE  H[1] \in Names
<1> USE LoadsAre DEF Running, Names, UsesFirst
<1>0. H[1] \notin {"LoopStart", "LoopEnd", "Br", "MethodDef"} BY DEF Written
<1>1. CASE InitFrame BY <1>0, <1>1 DEF InitFrame
<1>2. CASE LoadImmediate BY <1>0, <1>2 DEF LoadImmediate
<1>3. CASE Move BY <1>0, <1>3 DEF Move
<1>4. CASE LoadVar BY <1>0, <1>4 DEF LoadVar
<1>5. CASE StoreVar BY <1>0, <1>5 DEF StoreVar
<1>6. CASE LoadDvar BY <1>0, <1>6 DEF LoadDvar
<1>7. CASE StoreDvar BY <1>0, <1>7 DEF StoreDvar
<1>8. CASE Branch BY <1>0, <1>8 DEF Branch
<1>9. CASE LoopMark BY <1>0, <1>9 DEF LoopMark
<1>10. CASE BinaryOp BY <1>0, <1>10 DEF BinaryOp
<1>11. CASE CompareInts BY <1>0, <1>11 DEF CompareInts
<1>12. CASE CompareObjects BY <1>0, <1>12 DEF CompareObjects
<1>13. CASE Negate BY <1>0, <1>13 DEF Negate
<1>14. CASE MakeArray BY <1>0, <1>14 DEF MakeArray
<1>15. CASE MakeRange BY <1>0, <1>15 DEF MakeRange
<1>16. CASE Concat BY <1>0, <1>16 DEF Concat
<1>17. CASE GetIndex BY <1>0, <1>17 DEF GetIndex
<1>18. CASE SetIndex BY <1>0, <1>18 DEF SetIndex
<1>19. CASE CallMethod BY <1>0, <1>19 DEF CallMethod
<1>20. CASE YieldBlock BY <1>0, <1>20 DEF YieldBlock
<1>21. CASE DefineMethod BY <1>0, <1>21 DEF DefineMethod
<1>22. CASE DefineClass BY <1>0, <1>22 DEF DefineClass
<1>23. CASE Expand BY <1>0, <1>23 DEF Expand
<1> QED BY <1>1, <1>2, <1>3, <1>4, <1>5, <1>6, <1>7, <1>8, <1>9, <1>10, <1>11, <1>12, <1>13, <1>14, <1>15, <1>16, <1>17, <1>18, <1>19, <1>20, <1>21, <1>22, <1>23 DEF Next

LEMMA StepsStayInFrame ==
    ASSUME IInv, Framed, [Next]_vars, NEW s \in DOMAIN regs, s >= code[1].o1
    PROVE  regs'[s] = regs[s]
<1>1. CASE UNCHANGED vars BY <1>1 DEF vars
<1>2. CASE Return_ BY <1>2 DEF Return_
<1>3. CASE Next /\ ~Return_
  <2>1. status = "running" BY <1>3, OnlyRunning
  <2>2. /\ FromBc(W.code)[1] = H[1] /\ pc \in DOMAIN code /\ ~IsCache(pc) /\ Accepted
        /\ code # <<>> /\ unit \in Units
    BY <2>1, FromBcAgrees DEF IInv, Accepted
  <2>3. code[1].o1 = RegNum(unit)
    <3>1. InstructionStart(1) BY <2>2, FirstIsInstruction
    <3>2. FromBc(code[1].code)[1] \in {"InitMethod", "InitBlock"} BY <2>2 DEF IInv, Closed
    <3> QED BY <2>2, <3>1, <3>2, PrologueWord DEF InstructionStart
  <2>4. s \in Int /\ code[1].o1 \in Int
    <3>1. DOMAIN regs = 0..MaxSlot BY DEF IInv, TypeOK
    <3>2. 1 \in DOMAIN code BY <2>2, FirstIsInstruction DEF InstructionStart
    <3>3. code[1].o1 \in Nat BY <2>2, <3>2, WordIsNat
    <3> QED BY <3>1, <3>3
  <2>5. ASSUME s \in Written PROVE FALSE
    <3>1. CASE H[1] \in {"InitMethod", "InitBlock"}
      <4>1. W.o1 = RegNum(unit) BY <2>2, <3>1, PrologueWord DEF W
      <4>2. s \in 0..W.o1 - 1 BY <2>5, <3>1 DEF Written
      <4>3. s < code[1].o1 BY <2>3, <2>4, <4>1, <4>2
      <4> QED BY <2>4, <4>3
    <3>2. CASE H[1] \in {"MethodCall", "MethodCallBlock"} /\ s = LocalNo("a")
      <4>1. s < code[1].o1 BY <2>2, <2>3, <3>2, LocalNoInFrame
      <4> QED BY <2>4, <4>1
    <3>3. CASE /\ H[1] \notin {"InitMethod", "InitBlock"}
               /\ s # LocalNo("a") \/ H[1] \notin {"MethodCall", "MethodCallBlock"}
      <4>1. H[1] \in Names
        BY <1>3, <2>5, <3>3, WritersAre
      <4>2. s \in SlotsOf(pc) BY <2>2, <2>5, <3>3, <4>1, WrittenAreNamed
      <4>3. s < code[1].o1 BY <2>2, <4>2 DEF Framed
      <4> QED BY <2>4, <4>3
    <3> QED BY <3>1, <3>2, <3>3
  <2>6. Touches(Written) BY <1>3, StepsWrite
  <2> QED BY <2>5, <2>6 DEF Touches
<1> QED BY <1>1, <1>2, <1>3

LEMMA FramedNext == ASSUME Framed, unit' = unit PROVE Framed'
<1>1. code' = code BY CodeNext
<1>2. \A j : IsCache(j)' <=> IsCache(j) BY <1>1 DEF IsCache
<1>3. \A j : SlotsOf(j)' = SlotsOf(j) BY <1>1 DEF SlotsOf
<1> QED BY <1>1, <1>2, <1>3 DEF Framed

(***************************************************************************)
(* If the depth of the temporaries was counted right, and the code is      *)
(* closed, then no instruction writes beyond the frame: neither what the   *)
(* instruction names, nor what InitMethod clears, nor what a block assigns.*)
(***************************************************************************)
THEOREM InterpreterStaysInFrame == Spec /\ CodeIsClosed /\ InFrame => StaysInFrame
<1>1. Init /\ CodeIsClosed /\ InFrame => IInv /\ Framed
  <2>1. Init /\ InFrame => Framed
    <3>1. Init => pc = 1 BY DEF Init
    <3> QED BY <3>1 DEF InFrame, Framed
  <2> QED BY <2>1, InvInit
<1>2. IInv /\ Framed /\ [Next]_vars => (IInv /\ Framed)'
  <2>1. IInv /\ [Next]_vars => IInv' BY InvNext
  <2>2. Framed /\ [Next]_vars => Framed' BY UnitNext, FramedNext
  <2> QED BY <2>1, <2>2
<1>3. IInv /\ Framed /\ [Next]_vars => [\A s \in DOMAIN regs : s >= code[1].o1 => regs'[s] = regs[s]]_vars
  BY StepsStayInFrame
<1> QED BY <1>1, <1>2, <1>3, PTL DEF Spec, StaysInFrame
=============================================================================
