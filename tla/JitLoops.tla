------------------------------ MODULE JitLoops ------------------------------
(***************************************************************************)
(* How the JIT compiler walks over the bytecode of a function: its basic   *)
(* blocks, the analysis of a loop that says which slots the loop does not  *)
(* need, and the order in which blocks are compiled and their branches are *)
(* collected.  At the header of a loop the links of the slots that are not *)
(* needed are dropped without a write-back (ToHeader in XmmLink); the      *)
(* slots must then hold nothing that is read again.                        *)
(***************************************************************************)
EXTENDS JitCode, FiniteSets

Positions == 1..Size
Branches == {"Br", "CondBr", "CheckLocal"}
BranchesTo(j) == IF Op(j) \in Branches THEN {Dest(j)} ELSE {}

\* Mutated: conditional branches are overlooked.
Starts_NoCond == {1} \cup UNION {BranchesTo(j) : j \in {i \in Insts : Op(i) = "Br"}}

\* get_bb_info: basic blocks start where branches lead.
Starts == {1} \cup UNION {BranchesTo(j) : j \in Insts}

-----------------------------------------------------------------------------
(* The scan.                                                               *)

\* What touches a slot first decides whether its value is used.
NoInfo == [s \in Slots |-> "ND"]
Touch(info, j) ==
  [s \in Slots |->
     IF info[s] # "ND" THEN info[s]
     ELSE IF s \in UsedSlots(j) /\ ~(DefinesFirst(j) /\ s \in DefSlots(j)) THEN "Used"
     ELSE IF s \in DefSlots(j) THEN "NotUsed"
     ELSE "ND"]

MergeInfos(infos) ==
  [s \in Slots |->
     IF \E i \in infos : i[s] = "Used" THEN "Used"
     ELSE IF infos # {} /\ \A i \in infos : i[s] = "NotUsed" THEN "NotUsed"
     ELSE "ND"]

\* A scan goes over the blocks in the order of the code.  into collects the
\* infos of the branches to each block; live says that the current block goes
\* on; exit is the info at the end of the loop.
NewScan == [into |-> [j \in Positions |-> {}], info |-> NoInfo, live |-> FALSE,
            level |-> 0, back |-> {}, returns |-> {}, exit |-> {}]

AtBlock(k, j) == IF j \in Starts THEN [k EXCEPT !.info = MergeInfos(k.into[j]), !.live = TRUE] ELSE k
AtMark(k, j) ==
  CASE Op(j) = "LoopStart" -> [k EXCEPT !.level = @ + 1]
    [] Op(j) = "LoopEnd" /\ k.level = 1 -> [k EXCEPT !.level = 0, !.exit = {k.info}]
    [] Op(j) = "LoopEnd" /\ k.level # 1 -> [k EXCEPT !.level = @ - 1]
    [] Op(j) = "Ret" -> [k EXCEPT !.returns = @ \cup {k.info}, !.live = FALSE]
    [] Op(j) \notin {"LoopStart", "LoopEnd", "Ret"} -> [k EXCEPT !.info = Touch(@, j)]
AtBranch(k, j) ==
  IF Op(j) \notin Branches THEN k
  ELSE IF Dest(j) > j THEN [k EXCEPT !.into[Dest(j)] = @ \cup {k.info}]
  ELSE IF k.level = 1 THEN [k EXCEPT !.back = @ \cup {k.info}]
  ELSE k
AtEnd(k, j) ==
  IF Op(j) = "Br" THEN [k EXCEPT !.live = FALSE]
  ELSE IF k.live /\ Follow(j) \in Starts
  THEN [k EXCEPT !.into[Follow(j)] = @ \cup {k.info}, !.live = FALSE]
  ELSE k

ScanInst(k, j) == IF k.live THEN AtEnd(AtBranch(AtMark(k, j), j), j) ELSE k
ScanNext(k, j) == IF k.exit # {} \/ j \notin Insts THEN k ELSE ScanInst(AtBlock(k, j), j)
ScanFrom(h) ==
  LET scan[j \in (h - 1)..Size] == IF j = h - 1 THEN NewScan ELSE ScanNext(scan[j - 1], j)
  IN scan
Scan(h) == ScanFrom(h)[Size]

\* Mutated: what follows a return in the loop is taken for what is read.
Unneeded_NoReturns(k) ==
  {s \in Slots : MergeInfos(k.exit \cup {MergeInfos(k.back)})[s] = "NotUsed"}

\* The slots that are set on every way through the loop before they are read.
Unneeded(k) ==
  LET exit == IF k.exit = {} THEN {NoInfo} ELSE k.exit
      returns == IF k.returns = {} THEN {} ELSE {MergeInfos(k.returns)}
  IN {s \in Slots : MergeInfos(exit \cup {MergeInfos(k.back)} \cup returns)[s] = "NotUsed"}

-----------------------------------------------------------------------------
(* jit_compile_ruby, for a method or for the loop that starts at first.    *)

NewJit(first) == [map |-> {first}, headers |-> {}, live |-> FALSE, count |-> 0,
                  done |-> FALSE, panics |-> {}]
Panics(k, why) == [k EXCEPT !.panics = {why}, !.done = TRUE]

\* The branches that lead to a block are taken out of the map and merged; a
\* loop is analysed there.
EnterHeader(k, j) ==
  IF Scan(j).back = {} THEN Panics(k, "no back edge") ELSE [k EXCEPT !.headers = @ \cup {j}]
JitBlock(k, j) ==
  IF j \notin Starts THEN k
  ELSE IF j \notin k.map THEN Panics(k, "no branch")
  ELSE LET d == [k EXCEPT !.map = @ \ {j}, !.live = TRUE]
       IN IF Op(j) = "LoopStart" THEN EnterHeader(d, j) ELSE d
JitMark(k, j, is_loop) ==
  CASE Op(j) = "LoopStart" -> [k EXCEPT !.count = @ + 1]
    [] Op(j) = "LoopEnd" /\ k.count = 0 -> Panics(k, "loop_count")
    [] Op(j) = "LoopEnd" /\ k.count # 0 ->
         [k EXCEPT !.count = @ - 1, !.done = is_loop /\ k.count = 1]
    [] Op(j) \notin {"LoopStart", "LoopEnd"} -> k
JitBranch(k, j) ==
  LET next == IF Op(j) \notin {"Br", "Ret"} /\ Follow(j) \in Starts THEN {Follow(j)} ELSE {}
  IN IF k.done THEN k
     ELSE [k EXCEPT !.map = @ \cup BranchesTo(j) \cup next, !.live = Op(j) \notin {"Br", "Ret"} /\ next = {}]
JitInst(k, j, is_loop) ==
  IF k.live /\ ~k.done THEN JitBranch(JitMark(k, j, is_loop), j) ELSE k

\* What is left in the map are branches back.
BackEdges(k) ==
  IF k.panics # {} \/ k.map \subseteq k.headers THEN k ELSE Panics(k, "no header")
JitNext(k, j, is_loop) ==
  IF k.done \/ j \notin Insts THEN k ELSE JitInst(JitBlock(k, j), j, is_loop)
JitFrom(first, is_loop) ==
  LET jit[j \in (first - 1)..Size] ==
        IF j = first - 1 THEN NewJit(first) ELSE JitNext(jit[j - 1], j, is_loop)
  IN jit
JitCompile(first, is_loop) == BackEdges(JitFrom(first, is_loop)[Size])

-----------------------------------------------------------------------------
(* The reference: the paths of the interpreter.                            *)

Follows[j \in Insts] == BranchesTo(j) \cup (IF Op(j) \in {"Br", "Ret"} THEN {} ELSE {Follow(j)})
Onward[j \in Insts] == {k \in Follows[j] : k > j}

\* Where paths of no more than as many steps as there are words lead from S,
\* without passing one of stops.
Ways(S, stops, step) ==
  LET ways[n \in 0..Size] ==
        IF n = 0 THEN S
        ELSE LET before == ways[n - 1] IN before \cup UNION {step[j] : j \in before \ stops}
  IN ways[Size]

\* The loops that are analysed: those that start a basic block.
Headers == {j \in Insts : Op(j) = "LoopStart" /\ j \in Starts}

\* How many loops from h on are open behind j; h's is the last to be closed.
Level(h, j) == Cardinality({i \in Insts \cap (h..j) : Op(i) = "LoopStart"})
               - Cardinality({i \in Insts \cap (h..j) : Op(i) = "LoopEnd"})
Within(h, j) == h <= j /\ \A i \in Insts \cap (h..j) : Level(h, i) > 0
Closes(h, j) == /\ h < j /\ Op(j) = "LoopEnd" /\ Level(h, j) = 0
                /\ \A i \in Insts \cap (h..(j - 1)) : Level(h, i) > 0

\* Where a way through the loop of h ends: behind it, back at h, or in a return.
Ends(h) == {j \in Insts : Closes(h, j) \/ h \in BranchesTo(j) \/ Op(j) = "Ret"}
\* The analysis does not follow the branch back of a loop inside of the loop: a
\* read is not seen if every way on from it takes one.
OnlyAround(h, j) == Ways({j}, Ends(h), Onward) \cap Ends(h) = {}

\* Blocks that no path leads to; loops that no path leads around.
DeadBlocks == Starts \ Ways({1}, {}, Follows)
OnceLoops == {h \in Headers : h \notin Ways(Follows[h], {c \in Insts : Closes(h, c)}, Follows)}
MayPanic == (IF DeadBlocks = {} THEN {} ELSE {"no branch"})
            \cup (IF OnceLoops = {} THEN {} ELSE {"no back edge"})

-----------------------------------------------------------------------------
(* Properties.                                                             *)

\* What the compiler takes for granted of the code it is given.
\* Every way goes on to an instruction, unless the function returns.
WaysGoOn ==
  /\ Size \in Nat /\ Insts \subseteq Positions /\ 1 \in Insts
  /\ \A j \in Insts : /\ Follows[j] \subseteq Insts
                      /\ Op(j) \notin {"Br", "Ret"} =>
                           Follow(j) > j /\ \A i \in Insts : ~(j < i /\ i < Follow(j))
\* A branch back leads to the header of the loop that it is directly inside of.
BackToHeader ==
  \A j \in Insts : \A h \in BranchesTo(j) : h <= j =>
    Op(h) = "LoopStart" /\ Within(h, j) /\ Level(h, j) = 1
\* A loop is entered at its header, and left for the instruction that closes it.
EntersAtHeader ==
  \A h \in {i \in Insts : Op(i) = "LoopStart"} : \A j \in Insts, k \in Insts :
    k \in Onward[j] =>
      /\ j < h /\ (Within(h, k) \/ Closes(h, k)) => k = h
      /\ Within(h, j) => Within(h, k) \/ Closes(h, k)
\* What ends is a loop.
EndsLoops == \A j \in Insts : Level(1, j) >= 0
\* Where loops start and end is scanned.
MarksAreScanned ==
  \A j \in Insts : Op(j) \in {"LoopStart", "LoopEnd"} =>
    \E i \in Starts \cap Insts :
      i <= j /\ \A k \in Insts : i <= k /\ k < j => Op(k) \notin {"Br", "Ret"}
\* What is read is marked, before what is set, unless the opposite is known.
ReadsAreMarked ==
  \A j \in Insts : Op(j) # "Ret" /\ ~Unmarked(j) =>
    /\ ReadSlots(j) \subseteq UsedSlots(j)
    /\ ReadSlots(j) # {} => Op(j) \notin {"LoopStart", "LoopEnd"}
    /\ DefinesFirst(j) => UsedSlots(j) \cap DefSlots(j) = {}

NestedLoops ==
  WaysGoOn /\ BackToHeader /\ EntersAtHeader /\ EndsLoops /\ MarksAreScanned /\ ReadsAreMarked

\* The functions that are compiled: get_bb_info fails if a branch leads behind
\* the code (functions.rs:877).  Code that does not end in a return has an
\* ensure clause behind one (SkipsEnsure in CompilerForms).
IsCompiled ==
  /\ pc = 1 /\ code # <<>>
  /\ Op(Size) = "Ret" /\ \A j \in Insts : BranchesTo(j) \subseteq Positions

\* The bytecode generator nests loops: a way enters one at its start and leaves
\* it for its end, whatever conditions, breaks and returns there are in it
\* (gen_while, gen_for, NodeKind::Break, bytecodegen.rs:891, 1604); branches
\* back lead to the start of the loop around them, and loops start and end in
\* blocks that are scanned.
LoopsAreNested == IsCompiled => NestedLoops

\* A slot whose link a loop header drops without a write-back holds nothing
\* that is read before it is set, on any path from the header, out of the
\* loop and in code after it included, except by the instructions that the
\* analysis does not mark as reading ("Liveness analysis for loops",
\* analysis.rs:19), and in an inner loop that nothing but its branch back
\* goes on from.
UnneededAreDead ==
  IsCompiled =>
    \A h \in Headers : \A s \in Unneeded(Scan(h)) :
      \A j \in Ways({h}, {i \in Insts : s \in DefSlots(i)}, Follows) :
        s \in ReadSlots(j) => Unmarked(j) \/ OnlyAround(h, j)

\* Compiling a function, or one of its loops, meets none of the states that
\* are declared unreachable or unwrapped (merge.rs:83,129, analysis.rs:57,
\* jitgen.rs:93,910), except for code that can never run: a block that no
\* path leads to, or a loop that no path leads around.
JitCompiles ==
  IsCompiled =>
    /\ JitCompile(1, FALSE).panics \subseteq MayPanic
    /\ \A h \in Headers : JitCompile(h, TRUE).panics \subseteq MayPanic
=============================================================================
