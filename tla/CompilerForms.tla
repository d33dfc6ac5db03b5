--------------------------- MODULE CompilerForms ---------------------------
(***************************************************************************)
(* The forms of programs that the compiler does not compile as they are    *)
(* meant, each named for what it does instead.  Everything else has to     *)
(* behave like RubyEval; these are the exceptions, and they are as narrow  *)
(* as the checks allow.                                                    *)
(***************************************************************************)
EXTENDS RubyAst
LOCAL INSTANCE SequencesExt

Loops == {"while", "dowhile", "for"}
Places == {"index", "send"}
Parts(l) == IF l.k \in Places THEN l.x ELSE <<>>

\* Evaluating e changes nothing and calls nothing.
Simple(e) == \A d \in Nodes(e) : d.k \in {"nil", "self", "int", "local", "cell"}

-----------------------------------------------------------------------------
(* An operand that is a local variable is not copied: the instruction      *)
(* reads it after the later operands were evaluated.                       *)

Operands(d) ==
  CASE d.k = "assign" -> Parts(d.x[1]) \o <<d.x[2]>>
    [] d.k = "opassign" /\ d.x[1].k = "local" /\ d.s \in {"and", "or"} -> <<>>
    [] d.k = "opassign" /\ d.x[1].k = "local" -> d.x
    [] d.k = "opassign" /\ d.x[1].k # "local" -> Parts(d.x[1]) \o <<d.x[2]>>
    [] d.k = "mulassign" -> Parts(d.x[1]) \o Parts(d.x[2]) \o SubSeq(d.x, 3, 4)
    [] d.k \in {"bin", "range", "index", "call"} -> d.x
    [] OTHER -> <<>>
ReadInPlace(d) ==
  CASE d.k = "call" -> {1}
    [] d.k = "mulassign" -> 1..Len(Operands(d)) - 2
    [] OTHER -> DOMAIN Operands(d)

ReadsLate(d) ==
  \/ \E j \in ReadInPlace(d), l \in DOMAIN Operands(d) :
       j < l /\ Operands(d)[j].k = "local" /\ Assigns(Operands(d)[l], Operands(d)[j].s)
  \/ d.k = "mulassign" /\ \E j \in DOMAIN Parts(d.x[2]) : Parts(d.x[2])[j] = d.x[1]

-----------------------------------------------------------------------------
(* && and || leave the left value in the variable that is assigned to      *)
(* before the right operand is evaluated, and the value of an assignment   *)
(* to a place is in the variable before the place is written.              *)

RECURSIVE StoresEarly(_, _)
StoresEarly(e, n) ==
  CASE e.k \in {"and", "or"} ->
         Mentions(e.x[2], n) \/ Assigns(e.x[2], n) \/ \E j \in 1..2 : StoresEarly(e.x[j], n)
    [] e.k = "neg" -> StoresEarly(e.x[1], n)
    [] e.k = "stmts" /\ e.x # <<>> -> StoresEarly(Last(e.x), n)
    [] e.k = "assign" /\ e.x[1].k # "local" ->
         StoresEarly(e.x[2], n) \/ \E j \in DOMAIN Parts(e.x[1]) : Parts(e.x[1])[j] = Local(n)
    [] OTHER -> FALSE

AssignsEarly(d) ==
  \/ d.k = "assign" /\ d.x[1].k = "local" /\ StoresEarly(d.x[2], d.x[1].s)
  \/ d.k = "opassign" /\ d.x[1].k = "local" /\ d.s \in {"and", "or"}
     /\ StoresEarly(d.x[2], d.x[1].s)
  \/ d.k = "for" /\ StoresEarly(d.x[1], d.s)

(* place op= e evaluates the parts of the place twice, and && and || store *)
(* also when the value stays.                                              *)
EvaluatesTwice(d) ==
  d.k = "opassign" /\ d.x[1].k \in Places
  /\ (d.s \in {"and", "or"} \/ \E j \in DOMAIN d.x[1].x : ~Simple(d.x[1].x[j]))

-----------------------------------------------------------------------------
(* for counts in its variable: it ends one above the range, the body       *)
(* changes what is counted, and the variable is assigned before the end of *)
(* the range is evaluated.                                                 *)

RECURSIVE MentionsOutside(_, _)
MentionsOutside(e, n) ==
  \/ e = Local(n)
  \/ \E j \in DOMAIN e.x :
       ~(e.k = "for" /\ e.s = n /\ j = 3) /\ MentionsOutside(e.x[j], n)

CountsVisibly(body, d) ==
  d.k = "for" /\ (Assigns(d.x[3], d.s) \/ Assigns(d.x[2], d.s) \/ MentionsOutside(body, d.s))

-----------------------------------------------------------------------------
(* break and return are compiled where their value is not used.            *)

Jumps(e) == {d \in Nodes(e) : d.k \in {"break", "return"}}

RECURSIVE StmtJumps(_, _)
StmtJumps(e, loop) ==
  CASE e.k = "return" \/ (e.k = "break" /\ loop) -> {e}
    [] e.k \in {"stmts", "beginelse"} -> UNION {StmtJumps(e.x[j], loop) : j \in DOMAIN e.x}
    [] e.k = "if" -> StmtJumps(e.x[2], loop) \cup StmtJumps(e.x[3], loop)
    [] e.k \in {"while", "dowhile"} -> StmtJumps(e.x[2], TRUE)
    [] e.k = "for" -> StmtJumps(e.x[3], TRUE)
    [] OTHER -> {}

JumpsInValues(body) == Jumps(body) # StmtJumps(body, FALSE)
ReturnsInFor(body) ==
  \E d \in Nodes(body) : d.k = "for" /\ \E r \in Nodes(d.x[3]) : r.k = "return"

\* The nodes whose value is returned.
RECURSIVE TailNodes(_)
TailNodes(e) ==
  {e} \cup
  CASE e.k = "stmts" /\ e.x # <<>> -> TailNodes(Last(e.x))
    [] e.k = "if" -> TailNodes(e.x[2]) \cup TailNodes(e.x[3])
    [] e.k = "beginelse" -> TailNodes(e.x[2])
    [] e.k \in {"ensure", "return"} -> TailNodes(e.x[1])
    [] OTHER -> {}
Returned(body) ==
  TailNodes(body) \cup UNION {TailNodes(d) : d \in {r \in Nodes(body) : r.k = "return"}}

\* The value of a break is only evaluated if the value of its loop is used.
DropsBreakValue(body) ==
  \E d \in Nodes(body) \ Returned(body) :
    d.k \in Loops /\ \E r \in Nodes(d) : r.k = "break" /\ ~Simple(r.x[1])

\* An ensure clause is emitted after the code of its body, which may have
\* returned or jumped already.
SkipsEnsure(body) ==
  \E d \in Nodes(body) : d.k = "ensure" /\ (d \in Returned(body) \/ Jumps(d.x[1]) # {})

-----------------------------------------------------------------------------

\* What the compiler does not accept.
Rejected(body) == JumpsInValues(body) \/ ReturnsInFor(body)

\* What is compiled to something else.
Divergent(body) ==
  \/ \E d \in Nodes(body) :
       ReadsLate(d) \/ AssignsEarly(d) \/ EvaluatesTwice(d) \/ CountsVisibly(body, d)
  \/ JumpsInValues(body)
  \/ DropsBreakValue(body)
  \/ SkipsEnsure(body)
=============================================================================
