------------------------------ MODULE RubyAst ------------------------------
(***************************************************************************)
(* The syntax trees the compiler gets from its parser, which is a library  *)
(* outside the repository.  Every node has the same four fields, so that   *)
(* trees can be compared and searched: k is the kind of the node, s a name *)
(* or an operator, i an integer, x the children in the order of the        *)
(* source.                                                                 *)
(***************************************************************************)
EXTENDS Integers, Sequences

Node(k, s, i, x) == [k |-> k, s |-> s, i |-> i, x |-> x]

NilNode == Node("nil", "", 0, <<>>)
SelfNode == Node("self", "", 0, <<>>)
Num(i) == Node("int", "", i, <<>>)
Local(n) == Node("local", n, 0, <<>>)                 \* a local variable
Cell(s) == Node("cell", s, 0, <<>>)                   \* @v, $v, V or an outer local
Neg(e) == Node("neg", "", 0, <<e>>)
Bin(op, l, r) == Node("bin", op, 0, <<l, r>>)
And(l, r) == Node("and", "", 0, <<l, r>>)
Or(l, r) == Node("or", "", 0, <<l, r>>)
Assign(l, e) == Node("assign", "", 0, <<l, e>>)
OpAssign(op, l, e) == Node("opassign", op, 0, <<l, e>>)
MulAssign(l1, l2, e1, e2) == Node("mulassign", "", 0, <<l1, l2, e1, e2>>)
Call(blk, recv, args) == Node("call", blk, 0, <<recv>> \o args)
Yield(args) == Node("yield", "", 0, args)
Array(es) == Node("array", "", 0, es)
Str(es) == Node("str", "", 0, es)
Index(b, i) == Node("index", "", 0, <<b, i>>)
Send(recv) == Node("send", "", 0, <<recv>>)           \* recv.name as a place
DotDot(l, r) == Node("range", "", 0, <<l, r>>)
If(c, t, e) == Node("if", "", 0, <<c, t, e>>)
While(until, c, body) == Node("while", until, 0, <<c, body>>)
DoWhile(until, c, body) == Node("dowhile", until, 0, <<c, body>>)
For(n, l, r, body) == Node("for", n, 0, <<l, r, body>>)
Break(e) == Node("break", "", 0, <<e>>)
Return(e) == Node("return", "", 0, <<e>>)
Stmts(es) == Node("stmts", "", 0, es)
BeginElse(body, else) == Node("beginelse", "", 0, <<body, else>>)
Ensure(body, en) == Node("ensure", "", 0, <<body, en>>)
MethodDef == Node("mdef", "", 0, <<>>)
ClassDef(super) == Node("cdef", "", 0, super)

CmpKinds == {"eq", "ne", "lt", "le", "gt", "ge"}

\* The nodes of a tree.
RECURSIVE Nodes(_)
Nodes(e) == {e} \cup UNION {Nodes(e.x[j]) : j \in DOMAIN e.x}

Mentions(e, n) == Local(n) \in Nodes(e)

\* Evaluating e may change the local variable n; a block that is passed to a
\* method may change the variable "a".
Assigns(e, n) ==
  \E d \in Nodes(e) :
    \/ d.k \in {"assign", "opassign"} /\ d.x[1] = Local(n)
    \/ d.k = "mulassign" /\ Local(n) \in {d.x[1], d.x[2]}
    \/ d.k = "for" /\ d.s = n
    \/ d.k = "call" /\ d.s = "block" /\ n = "a"
=============================================================================
