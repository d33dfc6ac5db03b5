------------------------------ MODULE RubyValues ------------------------------
(***************************************************************************)
(* Values, as terms: what the interpreter has in its registers, and what   *)
(* the reference evaluator computes.                                       *)
(***************************************************************************)
EXTENDS Integers

Nil == <<"nil">>
Unset == <<"unset">>
IntVal(i) == <<"int", i>>
IsInt(v) == v[1] = "int"
Truthy(v) == CASE v[1] \in {"nil", "unset"} -> FALSE
               [] v[1] = "bool" -> v[2]
               [] v[1] = "res" -> v[3]
               [] OTHER -> TRUE

ConcreteOps == {"add", "sub"}
IsConcrete(op, l, r) == IsInt(l) /\ IsInt(r) /\ op \in ConcreteOps
ArithVal(op, l, r) ==
  IF IsConcrete(op, l, r)
  THEN IntVal(IF op = "add" THEN l[2] + r[2] ELSE l[2] - r[2])
  ELSE <<op, l, r>>
CmpInts(op, i, j) == CASE op = "eq" -> i = j [] op = "ne" -> i # j [] op = "lt" -> i < j
                       [] op = "le" -> i <= j [] op = "gt" -> i > j [] op = "ge" -> i >= j
=============================================================================
