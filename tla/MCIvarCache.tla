---------------------------- MODULE MCIvarCache ----------------------------
(***************************************************************************)
(* Two ordinary objects of the class A, two class objects of the class K,  *)
(* one of which may get the singleton class S; and of the always-frozen    *)
(* classes, a heap value and an immediate of F (Float; a Range is like the *)
(* heap value) and a heap value of I (Integer).  One slot of an ordinary   *)
(* object is inside its RValue, and there are two names: each may be the   *)
(* one that is inside.                                                     *)
(***************************************************************************)
EXTENDS IvarCache
CONSTANTS A, K, S, I, F, o1, o2, m, k, b, h, p, x, y

MCInitClass ==
    [v \in Values |-> CASE v \in Ordinary -> A [] v \in {m, k} -> K [] v = b -> I
                       [] v \in {h, p} -> F]
MCSingleton == [v \in Openable |-> S]

Ivar(op) == [op |-> op, name |-> x]
Attr(op, self) == [op |-> op, name |-> x, self |-> self]
Stub(op) == [op |-> op, name |-> x]

Program(body, attrs, values, loop) ==
    [body |-> body, attrs |-> attrs, values |-> values, loop |-> loop]

\* Objects that share a class, one that changes class, and values of always-frozen
\* classes; with the caches of one instruction or attr method, in the interpreter
\* and compiled.
MCPrograms ==
    {Program({Ivar(op)}, {}, {o1, o2, p}, TRUE) : op \in {"load", "store"}}
    \cup {Program({Ivar(op)}, {}, {k, m}, FALSE) : op \in {"load", "store"}}
    \cup {Program({Attr(op, FALSE)}, {}, {o1, o2, p}, FALSE) : op \in {"reader", "writer"}}
    \cup {Program({Attr(op, TRUE)}, {}, {k, m}, FALSE) : op \in {"reader", "writer"}}
    \cup {Program({}, {Stub(op)}, {o1, m, p}, FALSE) : op \in {"reader", "writer"}}
    \cup {Program({Ivar(op)}, {}, {o1, h}, FALSE) : op \in {"load", "store"}}
    \cup {Program({Attr(op, FALSE)}, {}, {h, p}, FALSE) : op \in {"reader", "writer"}}
    \cup {Program({Attr(op, TRUE)}, {}, {h, p}, TRUE) : op \in {"reader", "writer"}}
    \cup {Program({Attr("writer", FALSE)}, {}, {b, p}, TRUE)}
=============================================================================
