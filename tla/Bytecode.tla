------------------------------ MODULE Bytecode ------------------------------
(***************************************************************************)
(* A function from its syntax tree to its result: the compiler's           *)
(* instructions are encoded into words, and the interpreter runs them.     *)
(* What it computes is compared with what the program means.               *)
(***************************************************************************)
EXTENDS Interpreter, BytecodeGen, RubyEval, CompilerForms, TLC
LOCAL INSTANCE SequencesExt

\* A function is its parameters and its body; the compiler may fail.
UnitOf(p, k) ==
  [prog |-> p, ir |-> k.ir, labels |-> k.labels, temp_num |-> k.temp_num,
   accepted |-> k.panics = {}, code |-> IF k.panics = {} THEN Encode(k) ELSE <<>>]
Compile(p) == UnitOf(p, CompileFunc(p))

ASSUME CompiledAssumption == \A u \in Units : u = Compile(u.prog)

-----------------------------------------------------------------------------
(* The reference run of the same program, with the same results.           *)

RubyRun(p, answers) ==
  LET names == {LocalNames[j] : j \in DOMAIN LocalNames}
      env == [n \in names |-> IF n \in DOMAIN p.args THEN p.args[n] ELSE Nil]
      s == [env |-> env, cells |-> CellsAtStart, trace |-> <<>>, n |-> 0,
            oracle |-> answers, jump |-> "", v |-> Nil]
      expanded == FoldLeft(LAMBDA t, x : EvExpand(t, [j \in 0..x.len - 1 |-> LocalNames[LocalNo(x.dst) + j]], x),
                           s, p.expand)
  IN Ev(p.body, FoldLeft(EvOptional, expanded, p.optional))

Counters(p) == {d.s : d \in {e \in Nodes(p.body) : e.k = "for"}}

\* The interpreter is where the reference run s is.
Agrees(s) ==
  /\ s.jump \in {"", "ret"}
  /\ s.n = Len(oracle)
  /\ s.v = ret
  /\ s.trace = trace
  /\ s.cells = cells
  /\ \A j \in DOMAIN LocalNames :
       LocalNames[j] \in Counters(prog) \/ regs[j] = s.env[LocalNames[j]]

-----------------------------------------------------------------------------
(* Properties.                                                             *)

\* What the interpreter computes is what the program means: the same calls
\* with the same operands in the same order, the same result, and the same
\* variables, whatever the called methods return.  This is about every rule
\* of bytecodegen.rs and binary.rs that chooses a register: an operand that
\* is overwritten, a temporary that is reused while it is needed, a branch
\* that skips a move show up as a wrong term.
AgreesWithRuby ==
  (status = "halted" /\ ~Divergent(prog.body)) => Agrees(RubyRun(prog, oracle))

\* The compiler meets what the interpreter takes for granted of its code,
\* except that a label of an ensure clause behind a return may be behind the
\* code.
EmitsClosedCode == CodeIsClosed \/ SkipsEnsure(prog.body)

\* The compiler fails, on an assertion or an unreachable arm, only for a
\* return or a break where a value is needed and for a return in a for: for
\* everything else the temporaries are balanced (bytecodegen.rs:150,187,911).
RejectsOnlyJumps == status = "rejected" => Rejected(prog.body)

\* Every program that was accepted ends: the code has no loop that the source
\* does not have, and no path that runs off its end.
Halts == <>(status # "running")
=============================================================================
