---------------------------- MODULE MCCallFrames ----------------------------
(***************************************************************************)
(* Every list of parameters with up to two required, two optional and one  *)
(* rest parameter, one of the required ones destructured or not, with and  *)
(* without a block parameter; zero to five arguments, and arrays of them.  *)
(***************************************************************************)
EXTENDS CallFrames
LOCAL INSTANCE SequencesExt

Fn(params, block, temps, is_block) ==
  [params |-> params, block |-> block, temps |-> temps, is_block |-> is_block]
Times(p, n) == [i \in 1..n |-> p]
\* A block |a = 1, *r| spreads its argument in some versions of Ruby only.
Parameters ==
  ({Times(Req, r) \o Times(Opt, o) \o Times(Rest, s) : r \in 0..2, o \in 0..2, s \in 0..1}
   \ {<<Opt, Rest>>})
  \cup {<<Destruct(2)>>, <<Req, Destruct(2)>>, <<Destruct(1), Req>>, <<Destruct(2), Opt, Rest>>}

PlainMethod == Fn(<<>>, TRUE, 1, FALSE)
PlainBlock == Fn(<<>>, FALSE, 1, TRUE)
MCDeep == {PlainMethod, PlainBlock}
MCFunctions ==
  {Fn(p, b, t, k) : p \in Parameters, b \in BOOLEAN, t \in {0, 3}, k \in BOOLEAN} \cup MCDeep

Arg(i) == <<"arg", i>>
Args(n) == [i \in 1..n |-> Arg(i)]
MCObjects ==
  {Arg(i) : i \in 1..5} \cup {Array(Args(n)) : n \in 0..5}
  \cup {Array(<<Arg(2)>>), Array(<<Array(Args(3)), Arg(4)>>)}
MCArgLists ==
  {Args(n) : n \in 0..5} \cup {<<Array(Args(n))>> : n \in 0..5}
  \cup {<<Array(Args(2)), Arg(3)>>, <<Arg(1), Array(<<Arg(2)>>)>>, <<Array(<<Array(Args(3)), Arg(4)>>)>>}
=============================================================================
