----------------------------- MODULE MCBytecode -----------------------------
(***************************************************************************)
(* Families of programs for Bytecode: every form of expression over a few  *)
(* operands, every form around every other one, every operator in every    *)
(* shape of operands, loops, jumps, places and parameters.                 *)
(***************************************************************************)
EXTENDS Bytecode, JitLoops

MCLocalNames == <<"a", "b", "i">>

a == Local("a")
b == Local("b")
Fn(args) == Call("", SelfNode, args)
F == Fn(<<>>)
SetA == Assign(a, F)
WithBlock == Call("block", a, <<>>)

\* a is an object, b nil; a block changes a.
Small == {a, F, Num(1)}
Operand == {a, b, F, Num(1), SetA, WithBlock}

Pairs(s, t) ==
  UNION {{Bin("add", l, r), Bin("bitor", l, r), Bin("lt", l, r), And(l, r), Or(l, r),
          Index(l, r), DotDot(l, r), Array(<<l, r>>), Call("", l, <<r>>), Call("block", l, <<r>>),
          Call("proxy", l, <<r>>), Yield(<<l, r>>), Str(<<l, r>>), Stmts(<<l, r>>),
          Assign(Index(l, a), r), Assign(Send(l), r), If(l, r, b), If(b, l, r),
          BeginElse(l, r), While("while", And(F, l), r), DoWhile("until", Or(F, l), r)} : l \in s, r \in t}
Singles(s) ==
  UNION {{Neg(e), Assign(a, e), Assign(Cell("ivar"), e), OpAssign("add", a, e),
          OpAssign("and", b, e), OpAssign("or", a, e), OpAssign("sub", Cell("gvar"), e),
          ClassDef(<<e>>), If(e, Num(1), F), Fn(<<a, e>>)} : e \in s}

\* One expression where its value is needed, not needed, stored or branched on.
Uses(e) == {e, Stmts(<<e, a>>), Assign(b, e), Assign(a, e), Fn(<<b, e>>), Bin("add", e, F),
            Bin("sub", F, e), If(e, a, b), Return(e)}

Depth1 == Pairs(Operand, Operand) \cup Singles(Operand)
Inner == Pairs({a, F}, {a, F}) \cup Singles({a, F, Num(1)})
Depth2 == UNION {Uses(e) : e \in Inner} \cup Singles(Inner)
          \cup UNION {{Array(<<F, e>>), Bin("mul", a, e), Bin("le", e, a), Call("block", e, <<F>>),
                       Assign(Index(a, b), e), Assign(Index(e, F), F),
                       And(a, e), Or(e, b), While("until", Or(F, e), F), Str(<<a, e>>)} : e \in Inner}

Shapes(op) == {Bin(op, a, F), Bin(op, F, a), Bin(op, a, Num(1)), Bin(op, Num(1), a), Bin(op, F, F),
               Bin(op, Num(2), Num(1)), Bin(op, Num(-32769), a), Bin(op, a, Num(-32768))}
Arithmetic == {"add", "sub", "mul", "div", "bitor", "bitand", "bitxor", "shr", "shl", "rem", "exp"}
EveryOp == UNION {Shapes(op) : op \in Arithmetic \cup CmpKinds}
Conditions == {Bin(c, a, Num(1)) : c \in CmpKinds} \cup {Bin(c, F, a) : c \in CmpKinds}
              \cup {And(F, Or(F, a)), Or(And(F, b), F), And(Or(F, b), Or(b, F))}
Branchings == UNION {{If(c, F, a), While("while", c, Stmts(<<>>)), DoWhile("while", c, F),
                    If(c, Return(a), Stmts(<<>>)), Stmts(<<If(c, F, NilNode), b>>)} : c \in Conditions}

JumpsIn(l) == {While("while", F, l), DoWhile("until", F, l), For("i", Num(1), Num(2), l)}
LoopBodies == {F, Break(a), If(F, Break(a), F), If(F, Break(F), Num(1)), If(F, Return(Num(3)), F),
               Fn(<<Local("i")>>), Stmts(<<For("b", Num(1), Num(2), Fn(<<b>>)), a>>),
               If(F, Stmts(<<F, Break(NilNode)>>), Neg(a)),
               Stmts(<<If(F, Return(a), F), SetA>>), Stmts(<<SetA, If(F, Break(a), Return(b))>>),
               Stmts(<<Assign(Index(b, Num(1)), a), SetA>>),
               Stmts(<<While("while", F, Fn(<<a>>)), SetA>>)}
LoopForms == UNION {JumpsIn(l) : l \in LoopBodies}
LoopUses == UNION {{l, Stmts(<<l, a>>), Assign(a, l), Fn(<<a, l>>)} : l \in LoopForms}
            \cup {Stmts(<<For("i", Num(1), Num(2), F), Local("i")>>),
                  For("i", Num(2), Num(1), F), For("i", Num(1), Num(2), Assign(Local("i"), F)),
                  Fn(<<While("while", F, Fn(<<a, If(F, Break(a), F)>>))>>)}

PlaceForms == {a, Cell("const"), Cell("dyn"), Index(a, b), Index(F, a), Send(a), Send(F)}
Placed == UNION {{MulAssign(l, r, F, a), Assign(l, MulAssign(a, r, F, Num(1))),
                  MulAssign(l, r, SetA, a), Stmts(<<MulAssign(l, r, a, F), b>>)}
                 : l, r \in PlaceForms}
          \cup UNION {{OpAssign(op, l, e), Stmts(<<OpAssign(op, l, e), a>>), Fn(<<OpAssign(op, l, e)>>)}
                      : op \in {"add", "lt", "and", "or"}, l \in PlaceForms, e \in {F, a, SetA}}

Others == {MethodDef, Stmts(<<MethodDef, a>>), Fn(<<MethodDef>>), ClassDef(<<>>),
           Stmts(<<ClassDef(<<a>>), b>>), Assign(a, ClassDef(<<>>)), Stmts(<<>>),
           Stmts(<<Cell("ivar"), Cell("dyn"), SelfNode, Num(1)>>), Str(<<>>), Array(<<>>),
           Stmts(<<Str(<<a>>), F>>), Fn(<<Str(<<a>>)>>), Assign(a, Neg(Num(2))),
           Ensure(F, F), Stmts(<<Ensure(F, F), a>>), Assign(b, Ensure(F, Fn(<<a>>))),
           Ensure(F, If(F, F, a)), Fn(<<a, Ensure(a, F)>>),
           Fn(<<Return(a)>>), Assign(a, Return(F)), Num(100000), Num(-100000), Yield(<<>>)}
          \cup {Assign(Cell(s), Cell(t)) : s, t \in CellNames}

Func(is_block, expand, optional, args, body) ==
  [is_block |-> is_block, expand |-> expand, optional |-> optional, args |-> args, body |-> body]
Plain1(body) == Func(FALSE, <<>>, <<>>, [a |-> <<"obj", "a">>], body)

\* def f(a, b = e), called with and without b, and a block |(b, i)|.
Default(e, given) ==
  Func(FALSE, <<>>, <<[name |-> "b", init |-> e]>>,
       ("a" :> <<"obj", "a">>) @@ ("b" :> (IF given THEN <<"obj", "b">> ELSE Unset)), Fn(<<a, b>>))
Destructuring(e) ==
  Func(TRUE, <<[src |-> "a", dst |-> "b", len |-> 2]>>, <<>>, [a |-> <<"obj", "a">>], e)

MCPrograms ==
  {Plain1(e) : e \in Depth1 \cup Depth2 \cup EveryOp \cup Branchings \cup LoopUses \cup Placed \cup Others}
  \cup {Default(e, given) : e \in {a, F, And(F, a), Num(1), SetA}, given \in BOOLEAN}
  \cup {Destructuring(e) : e \in {b, Fn(<<b, Local("i")>>), Assign(a, Bin("add", b, Local("i")))}}
MCUnits == {Compile(p) : p \in MCPrograms}
=============================================================================
