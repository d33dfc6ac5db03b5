------------------------------ MODULE RubyEval ------------------------------
(***************************************************************************)
(* What a program means: operands are evaluated once, from left to right,  *)
(* and an operand has the value it had when it was evaluated.  This is the *)
(* reference the compiled programs are compared with.                      *)
(*                                                                         *)
(* Values are terms.  Whatever may call a method is an event in trace; the *)
(* truth of the results of calls and comparisons is taken, in order, from  *)
(* oracle, and an evaluation that asks for more is stuck.  jump says how   *)
(* an expression was left: "" when it has a value, "brk" or "ret".         *)
(***************************************************************************)
EXTENDS RubyAst, RubyValues
LOCAL INSTANCE SequencesExt

Val(s, v) == [s EXCEPT !.v = v]
Event(s, ev) == [s EXCEPT !.trace = Append(@, ev)]
Asked(s) == IF s.n = Len(s.oracle) THEN [s EXCEPT !.jump = "stuck"] ELSE [s EXCEPT !.n = @ + 1]
Answer(s) == s.oracle[s.n + 1]
CallResult(s) == IF s.n = Len(s.oracle) THEN Nil ELSE <<"res", s.n + 1, Answer(s)>>

RECURSIVE Ev(_, _)

\* The values of es, evaluated from left to right; vs is complete if no jump.
EvAll(es, s) ==
  FoldLeft(LAMBDA a, e : LET t == Ev(e, a.s) IN [s |-> t, vs |-> Append(a.vs, t.v)],
           [s |-> s, vs |-> <<>>], es)
Then(a, R(_, _)) == IF a.s.jump = "" THEN R(a.s, a.vs) ELSE a.s

Arith(s, op, l, r) ==
  Val(IF IsConcrete(op, l, r) THEN s ELSE Event(s, <<op, l, r>>), ArithVal(op, l, r))
Compare(s, op, l, r) ==
  IF IsInt(l) /\ IsInt(r) THEN Val(s, <<"bool", CmpInts(op, l[2], r[2])>>)
  ELSE Val(Asked(Event(s, <<op, l, r>>)),
           IF s.n = Len(s.oracle) THEN Nil ELSE <<"bool", Answer(s)>>)
Operate(s, op, l, r) == IF op \in CmpKinds THEN Compare(s, op, l, r) ELSE Arith(s, op, l, r)

SendTo(s, recv, args, blk) ==
  LET t == Val(Asked(Event(s, <<"call", recv, args, blk>>)), CallResult(s))
  IN IF blk = <<"block">> THEN [t EXCEPT !.env["a"] = <<"blk", t.n>>] ELSE t
BlockVal(s) == CASE s = "block" -> <<"block">> [] s = "proxy" -> <<"proxy">> [] OTHER -> Nil

-----------------------------------------------------------------------------
(* Places: what is evaluated of them, and how they are read and written.   *)

PlaceParts(l) == IF l.k \in {"index", "send"} THEN l.x ELSE <<>>
ReadPlace(s, l, ps) ==
  CASE l.k = "local" -> Val(s, s.env[l.s])
    [] l.k = "cell" -> Val(s, s.cells[l.s])
    [] l.k = "index" -> Val(Event(s, <<"index", ps[1], ps[2]>>), <<"index", ps[1], ps[2]>>)
    [] l.k = "send" -> SendTo(s, ps[1], <<>>, Nil)
WritePlace(s, l, ps, v) ==
  Val(CASE l.k = "local" -> [s EXCEPT !.env[l.s] = v]
        [] l.k = "cell" -> [s EXCEPT !.cells[l.s] = v]
        [] l.k = "index" -> Event(s, <<"setindex", ps[1], ps[2], v>>)
        [] l.k = "send" -> SendTo(s, ps[1], <<v>>, Nil), v)

EvAssign(e, s) ==
  Then(EvAll(PlaceParts(e.x[1]) \o <<e.x[2]>>, s),
       LAMBDA t, vs : WritePlace(t, e.x[1], vs, vs[Len(vs)]))

EvOpAssign(e, s) ==
  LET a == EvAll(PlaceParts(e.x[1]), s)
      cur == ReadPlace(a.s, e.x[1], a.vs)
      rhs == Ev(e.x[2], cur)
  IN CASE a.s.jump # "" -> a.s
       [] cur.jump # "" -> cur
       [] e.s \in {"and", "or"} /\ Truthy(cur.v) = (e.s = "or") -> cur
       [] rhs.jump # "" -> rhs
       [] e.s \in {"and", "or"} -> WritePlace(rhs, e.x[1], a.vs, rhs.v)
       [] OTHER -> LET t == Operate(rhs, e.s, cur.v, rhs.v)
                   IN IF t.jump # "" THEN t ELSE WritePlace(t, e.x[1], a.vs, t.v)

EvMulAssign(e, s) ==
  LET p1 == PlaceParts(e.x[1])
      p2 == PlaceParts(e.x[2])
      n1 == Len(p1)
      n2 == Len(p2)
  IN Then(EvAll(p1 \o p2 \o SubSeq(e.x, 3, 4), s),
          LAMBDA t, vs :
            LET w == WritePlace(t, e.x[1], SubSeq(vs, 1, n1), vs[n1 + n2 + 1])
                u == WritePlace(w, e.x[2], SubSeq(vs, n1 + 1, n1 + n2), vs[n1 + n2 + 2])
            IN Val(u, <<"array", SubSeq(vs, n1 + n2 + 1, n1 + n2 + 2)>>))

-----------------------------------------------------------------------------
(* Loops.                                                                  *)

AfterBody(s) == IF s.jump = "brk" THEN [s EXCEPT !.jump = ""] ELSE s

RECURSIVE EvWhile(_, _), EvDoWhile(_, _), EvFor(_, _, _)
EvWhile(e, s) ==
  LET c == Ev(e.x[1], s)
      b == Ev(e.x[2], c)
  IN CASE c.jump # "" -> c
       [] Truthy(c.v) = (e.s = "until") -> Val(c, Nil)
       [] b.jump # "" -> AfterBody(b)
       [] OTHER -> EvWhile(e, b)
EvDoWhile(e, s) ==
  LET b == Ev(e.x[2], s)
      c == Ev(e.x[1], b)
  IN CASE b.jump # "" -> AfterBody(b)
       [] c.jump # "" -> c
       [] Truthy(c.v) = (e.s = "until") -> Val(c, Nil)
       [] OTHER -> EvDoWhile(e, c)
\* rng is the integer that is next, the last one, and the value of the range.
EvFor(e, s, rng) ==
  LET b == Ev(e.x[3], [s EXCEPT !.env[e.s] = IntVal(rng[1])])
  IN CASE rng[1] > rng[2] -> Val(s, rng[3])
       [] b.jump # "" -> AfterBody(b)
       [] OTHER -> EvFor(e, b, [rng EXCEPT ![1] = @ + 1])

EvEnsure(e, s) ==
  LET t == Ev(e.x[1], s)
      u == Ev(e.x[2], [t EXCEPT !.jump = ""])
  IN IF t.jump = "stuck" THEN t
     ELSE IF u.jump = "" THEN [u EXCEPT !.jump = t.jump, !.v = t.v] ELSE u

Ev(e, s) ==
  IF s.jump # "" THEN s ELSE
  CASE e.k = "nil" -> Val(s, Nil)
    [] e.k = "self" -> Val(s, <<"self">>)
    [] e.k = "int" -> Val(s, IntVal(e.i))
    [] e.k \in {"local", "cell"} -> ReadPlace(s, e, <<>>)
    [] e.k = "neg" ->
         Then(EvAll(e.x, s),
              LAMBDA t, vs : IF IsInt(vs[1]) THEN Val(t, IntVal(-vs[1][2]))
                             ELSE Val(Event(t, <<"neg", vs[1]>>), <<"neg", vs[1]>>))
    [] e.k = "bin" -> Then(EvAll(e.x, s), LAMBDA t, vs : Operate(t, e.s, vs[1], vs[2]))
    [] e.k \in {"and", "or"} ->
         LET l == Ev(e.x[1], s)
         IN IF l.jump # "" \/ Truthy(l.v) = (e.k = "or") THEN l ELSE Ev(e.x[2], l)
    [] e.k = "assign" -> EvAssign(e, s)
    [] e.k = "opassign" -> EvOpAssign(e, s)
    [] e.k = "mulassign" -> EvMulAssign(e, s)
    [] e.k = "call" ->
         Then(EvAll(e.x, s), LAMBDA t, vs : SendTo(t, vs[1], Tail(vs), BlockVal(e.s)))
    [] e.k = "yield" ->
         Then(EvAll(e.x, s), LAMBDA t, vs : Val(Asked(Event(t, <<"yield", vs>>)), CallResult(t)))
    [] e.k \in {"array", "str"} -> Then(EvAll(e.x, s), LAMBDA t, vs : Val(t, <<e.k, vs>>))
    [] e.k = "index" -> Then(EvAll(e.x, s), LAMBDA t, vs : ReadPlace(t, e, vs))
    [] e.k = "range" -> Then(EvAll(e.x, s), LAMBDA t, vs : Val(t, <<"range", vs[1], vs[2]>>))
    [] e.k = "if" ->
         LET c == Ev(e.x[1], s)
         IN IF c.jump # "" THEN c ELSE Ev(e.x[IF Truthy(c.v) THEN 2 ELSE 3], c)
    [] e.k = "while" -> EvWhile(e, s)
    [] e.k = "dowhile" -> EvDoWhile(e, s)
    [] e.k = "for" ->
         Then(EvAll(SubSeq(e.x, 1, 2), s),
              LAMBDA t, vs : EvFor(e, t, <<vs[1][2], vs[2][2], <<"range", vs[1], vs[2]>>>>))
    [] e.k = "break" -> Then(EvAll(e.x, s), LAMBDA t, vs : [Val(t, vs[1]) EXCEPT !.jump = "brk"])
    [] e.k = "return" -> Then(EvAll(e.x, s), LAMBDA t, vs : [Val(t, vs[1]) EXCEPT !.jump = "ret"])
    [] e.k \in {"stmts", "beginelse"} ->
         Then(EvAll(e.x, Val(s, Nil)), LAMBDA t, vs : t)
    [] e.k = "ensure" -> EvEnsure(e, s)
    [] e.k = "mdef" -> Val(Event(s, <<"def">>), <<"sym">>)
    [] e.k = "cdef" ->
         Then(EvAll(e.x, s),
              LAMBDA t, vs : Val(Asked(Event(t, <<"class", IF vs = <<>> THEN Nil ELSE vs[1]>>)),
                                 CallResult(t)))

\* The optional parameters that were not passed, then the body.
EvOptional(s, o) ==
  IF s.env[o.name] # Unset THEN s
  ELSE Then(EvAll(<<o.init>>, s), LAMBDA t, vs : WritePlace(t, Local(o.name), <<>>, vs[1]))
EvExpand(s, names, x) ==
  [s EXCEPT !.env = [n \in DOMAIN @ |->
     IF \E j \in 0..x.len - 1 : names[j] = n
     THEN <<"elem", @[x.src], CHOOSE j \in 0..x.len - 1 : names[j] = n>> ELSE @[n]]]
=============================================================================
