------------------------------ MODULE Arguments ------------------------------
(***************************************************************************)
(* How a Ruby function receives its arguments: the layout that             *)
(* handle_args computes, the prologue of the interpreter, the prologue of  *)
(* compiled code, the instructions the function begins with, and, to       *)
(* compare them with, what Ruby binds to each parameter.                   *)
(*                                                                         *)
(* A value is a tagged tuple.  Registers are numbered from 1, the first    *)
(* argument; register 0, self, is not touched here.                        *)
(***************************************************************************)
EXTENDS Integers, Sequences, FiniteSets

CONSTANT MaxSlot    \* bound: the registers and stack words looked at

Nil == <<"nil">>
Unset == <<"zero">>             \* the word 0, which no Ruby value has
Stale == <<"stale">>            \* whatever the stack held
Default(i) == <<"default", i>>  \* what the initializer of parameter i gives
Array(s) == <<"array", s>>
IsArray(v) == v[1] = "array"
NoBlock == Unset
AtOrNil(s, i) == IF i <= Len(s) THEN s[i] ELSE Nil

-----------------------------------------------------------------------------
(* A function: its parameters in order, each [kind, len]; whether it has a  *)
(* block parameter; the temporaries its body needs; whether it is a block.  *)

Req == [kind |-> "req", len |-> 0]
Opt == [kind |-> "opt", len |-> 0]
Rest == [kind |-> "rest", len |-> 0]
Destruct(n) == [kind |-> "destruct", len |-> n]

\* Optional parameters follow required ones, and a rest parameter is last:
\* handle_args only counts them, and refuses all other kinds the parser has.
WellFormed(f) ==
  /\ f.params \in Seq({Req, Opt, Rest} \cup [kind : {"destruct"}, len : Nat \ {0}])
  /\ \A i, j \in DOMAIN f.params : i < j =>
       /\ f.params[i].kind # "rest"
       /\ f.params[i].kind = "opt" => f.params[j].kind \in {"opt", "rest"}
  /\ f.block \in BOOLEAN /\ f.is_block \in BOOLEAN /\ f.temps \in Nat

\* What may be passed: arrays are of such values too.
Passable(V) == Unset \notin V /\ \A v \in V : IsArray(v) => v[2] \in Seq(V)

Count(f, kinds) == Cardinality({i \in DOMAIN f.params : f.params[i].kind \in kinds})
\* The variables of destructured parameters before the i-th.
LenBefore(f, i) == Cardinality(UNION {{j} \X (1..f.params[j].len) : j \in 1..(i - 1)})

ArgNum(f) == Len(f.params)
PosNum(f) == ArgNum(f) - Count(f, {"rest"})
ReqNum(f) == Count(f, {"req", "destruct"})
HasRest(f) == ArgNum(f) # PosNum(f)
ExpandDst(f, i) == ArgNum(f) + LenBefore(f, i) + 1
Expands(f) == {i \in DOMAIN f.params : f.params[i].kind = "destruct"}
Optionals(f) == {i \in DOMAIN f.params : f.params[i].kind = "opt"}

Locals(f) == ArgNum(f) + LenBefore(f, ArgNum(f) + 1) + (IF f.block THEN 1 ELSE 0)
RegNum(f) == 1 + Locals(f) + f.temps
\* Where the prologue puts the block, and where the body reads it.
BlockPos(f) == IF f.block THEN ArgNum(f) + 1 ELSE 0
BlockSlot(f) == Locals(f)

\* Every destructured parameter gets the local variable "/", at most one can.
Accepted(f) == Cardinality(Expands(f)) <= 1

\* -1 unless all parameters are required: only then do callers check the count.
Arity(f) == IF PosNum(f) = ReqNum(f) /\ ~HasRest(f) THEN PosNum(f) ELSE -1
CheckArg(f, n) == Arity(f) = -1 \/ Arity(f) = n

\* The frame is rounded up to 16 bytes; so many registers are inside it.
StackOffset(f) == (RegNum(f) * 8 + 40 + 15) \div 16
Room(f) == StackOffset(f) * 2 - 5

-----------------------------------------------------------------------------
(* The prologues.                                                           *)

Fill(regs, from, to, v) == [s \in DOMAIN regs |-> IF s \in from..to THEN v ELSE regs[s]]

\* A Rust function that is called uses the stack below the frame.
CallRust(f, regs) == [s \in DOMAIN regs |-> IF s <= Room(f) THEN regs[s] ELSE Stale]

MakeRest(f, regs, passed) ==
  LET r == CallRust(f, regs)
  IN  [r EXCEPT ![PosNum(f) + 1] = Array(SubSeq(r, PosNum(f) + 1, passed))]
EmptyRest(f, regs) == IF HasRest(f) THEN MakeRest(f, regs, PosNum(f)) ELSE regs
FillReq(f, regs, passed) == Fill(regs, passed + 1, ReqNum(f), Nil)
\* From the arguments that were passed on, over the nil of missing ones.
FillOpt_FromPassed(f, regs, passed) == Fill(regs, passed + 1, PosNum(f), Unset)
FillOpt(f, regs, passed) ==
  Fill(regs, (IF passed < ReqNum(f) THEN ReqNum(f) ELSE passed) + 1, PosNum(f), Unset)
FillTemp(f, regs) == Fill(regs, ArgNum(f) + 1, RegNum(f) - 1, Nil)

\* The only argument of a block with several parameters is spread over them.
\* block_expand_array writes every element, also where its own frame is.
Spreads(f, args) == f.is_block /\ Len(args) = 1 /\ PosNum(f) >= 2 /\ IsArray(args[1])
ExpandArg0(f, args) ==
  IF ~Spreads(f, args) THEN args
  ELSE LET a == args[1][2]
       IN  a \o [i \in 1..(ReqNum(f) - Len(a)) |-> Nil]
Overruns(f, args) == Spreads(f, args) /\ Len(args[1][2]) > Room(f)

Stack(args) == [s \in 1..MaxSlot |-> AtOrNil(args \o [i \in 1..MaxSlot |-> Stale], s)]

\* The part both prologues share, for a function with positional parameters.
TooMany(f, passed) == passed > PosNum(f) /\ ~HasRest(f) /\ ~f.is_block
TooFew(f, passed) == passed < ReqNum(f) /\ ~f.is_block
InitFunc(f, regs, passed) ==
  FillTemp(f, IF passed <= PosNum(f) THEN EmptyRest(f, FillOpt(f, FillReq(f, regs, passed), passed))
              ELSE IF HasRest(f) THEN MakeRest(f, regs, passed) ELSE regs)

VmInit(f, args, block) ==
  LET regs == InitFunc(f, Stack(args), Len(args))
  IN  IF f.block THEN [regs EXCEPT ![BlockPos(f)] = block] ELSE regs

\* Compiled code has no place for the block; without positional parameters it
\* does not look at the arguments.
JitInit(f, args) ==
  IF PosNum(f) = 0 THEN FillTemp(f, EmptyRest(f, Stack(args)))
  ELSE InitFunc(f, Stack(args), Len(args))

Refuses(tier, f, passed) ==
  /\ tier = "jit" => PosNum(f) > 0
  /\ TooMany(f, passed) \/ TooFew(f, passed)

-----------------------------------------------------------------------------
(* The function begins with an ExpandArray for each destructured parameter  *)
(* and a CheckLocal for each optional one.                                  *)

ExpandArray(v, len) ==
  IF IsArray(v) THEN [j \in 1..len |-> AtOrNil(v[2], j)]
  ELSE [j \in 1..len |-> IF j = 1 THEN v ELSE Nil]

ExpandAll(f, regs) ==
  [s \in DOMAIN regs |->
     LET into == {i \in Expands(f) : s \in ExpandDst(f, i)..(ExpandDst(f, i) + f.params[i].len - 1)}
     IN  IF into = {} THEN regs[s]
         ELSE LET i == CHOOSE i \in into : TRUE
              IN  ExpandArray(regs[i], f.params[i].len)[s - ExpandDst(f, i) + 1]]

CheckLocals(f, regs) ==
  [s \in DOMAIN regs |-> IF s \in Optionals(f) /\ regs[s] = Unset THEN Default(s) ELSE regs[s]]

\* The values of the parameters when the body starts.
Seen(f, regs) ==
  [i \in DOMAIN f.params |->
     IF i \in Expands(f)
     THEN Array(SubSeq(regs, ExpandDst(f, i), ExpandDst(f, i) + f.params[i].len - 1))
     ELSE regs[i]]
  \o (IF f.block THEN <<regs[BlockSlot(f)]>> ELSE <<>>)

\* <<>> if the call is refused, else the values in an array of their own.
Enter(tier, f, args, block) ==
  LET given == ExpandArg0(f, args)
      regs == IF tier = "vm" THEN VmInit(f, given, block) ELSE JitInit(f, given)
  IN  IF Refuses(tier, f, Len(given)) THEN <<>>
      ELSE Array(Seen(f, CheckLocals(f, ExpandAll(f, regs))))

-----------------------------------------------------------------------------
(* Ruby.                                                                    *)

RubySpreads(f, args) ==
  /\ f.is_block /\ Len(args) = 1 /\ IsArray(args[1])
  /\ PosNum(f) >= 2 \/ (ReqNum(f) = 1 /\ HasRest(f))
RubyArgs(f, args) == IF RubySpreads(f, args) THEN args[1][2] ELSE args

RubyValue(f, args, i) ==
  CASE f.params[i].kind = "req" -> AtOrNil(args, i)
    [] f.params[i].kind = "opt" -> IF i <= Len(args) THEN args[i] ELSE Default(i)
    [] f.params[i].kind = "rest" -> Array(SubSeq(args, i, Len(args)))
    [] f.params[i].kind = "destruct" -> Array(ExpandArray(AtOrNil(args, i), f.params[i].len))

RubyEnter(f, args, block) ==
  LET given == RubyArgs(f, args)
  IN  IF ~f.is_block /\ (Len(given) < ReqNum(f) \/ (Len(given) > PosNum(f) /\ ~HasRest(f))) THEN <<>>
      ELSE Array([i \in DOMAIN f.params |-> RubyValue(f, given, i)]
                 \o (IF f.block THEN <<IF block = NoBlock THEN Nil ELSE block>> ELSE <<>>))

-----------------------------------------------------------------------------
(* Calls that do something else here than in Ruby.                          *)

\* def f(*r), compiled: r is always empty.
RestDropped(tier, f, args) == tier = "jit" /\ PosNum(f) = 0 /\ HasRest(f) /\ args # <<>>
\* |a, *r| is not given the elements of its only argument.
RestNotSpread(f, args) == RubySpreads(f, args) /\ ~Spreads(f, args)
\* &b: 0 instead of nil if there is no block; nil in compiled code; and nil
\* beside a destructured parameter, whose first variable had the block's place.
BlockUnset(tier, f, block) == f.block /\ block = NoBlock /\ tier = "vm" /\ Expands(f) = {}
BlockLost(tier, f, block) == f.block /\ block # NoBlock /\ (tier = "jit" \/ Expands(f) # {})
\* More arguments than the frame has room for, when a Rust function is called.
BelowFrame(f, args) == Overruns(f, args) \/ (HasRest(f) /\ Len(ExpandArg0(f, args)) > Room(f))

Divergent(tier, f, args, block) ==
  \/ RestDropped(tier, f, args) \/ RestNotSpread(f, args)
  \/ BlockUnset(tier, f, block) \/ BlockLost(tier, f, block)
  \/ BelowFrame(f, args)
=============================================================================
