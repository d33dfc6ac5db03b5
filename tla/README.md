# A verification project for monoruby

monoruby is a Ruby implementation with a bytecode interpreter written in
x86-64 assembly and a just-in-time compiler that generates machine code for
methods and loops. This directory holds TLA+ modules that model its core, TLC
configurations that check them on small instances, and proofs, checked by
TLAPS, of what holds for every instance.

To run a model: `tlc -config DispatchCaches.cfg MCMethodDispatch.tla`.
To check the proofs: `tlapm XmmLinkProofs.tla`, and so for each of the eight modules
whose names end in `Proofs`.

## The system

Everything runs in one thread. What makes the program hard is not concurrency
but the number of places that remember a decision (which callee, which slot,
which value, which register) and the number of ways in which the ground of
that decision can move before the memory is used: any instruction may call
code that defines methods, reopens classes, compiles the running method again,
or runs the same method for another receiver.

| component | state it keeps | operations | talks to |
| --- | --- | --- | --- |
| interpreter (`compiler/vmgen*`) | `r13` (pc), the control frame, inline caches in the bytecode | one handler per instruction | runtime functions, compiled code |
| JIT (`compiler/jitgen*`) | machine code, caches in its data, `BBContext` while compiling | compile a method or a loop, recompile, deoptimize | bytecode caches, class and constant version |
| classes (`globals/class*`) | superclass links, method, constant and ivar tables, singleton classes | define, look up, open a singleton class | both tiers, through the two versions |
| functions (`globals/functions.rs`) | `FuncInfo`s, constant sites, inlinable builtins, code pointers | compile on demand | everything that calls |
| executor (`executor.rs`) | the control-frame pointer, the lexical class stack | evaluate a script, invoke a method or block | classes |
| bytecode generator (`executor/bytecodegen*`) | registers, labels | one function per node of the syntax tree | functions |
| values (`value.rs`, `rvalue.rs`, `op.rs`) | tagged words, heap objects | arithmetic, conversion | everything |
| heap (`alloc.rs`) | pages, free list, mark bits | allocate, mark, sweep | not wired to the executor yet |
| builtins (`executor/builtins*`) | - | library methods | classes, executor |

How they interact. A `MethodCall` instruction carries a cache of class,
version and callee. The interpreter fills it. A method is called through a
stub, which counts and then asks the JIT to compile the method for the class
its `self` has now; the JIT reads the bytecode caches to decide what each call
will do, and leaves guards that go back to the interpreter. Every definition
of a method increments the class version, every assignment of a constant the
constant version; caches compare those versions. Nothing else invalidates
anything.

What is hard about each of them is listed, line by line, under `hazards` in
PROJECT.json. What makes each component correct:

* method dispatch: whatever is cached or compiled, a call invokes the method
  that lookup finds for the receiver at that moment;
* constants: the value of a constant expression is the one lookup finds in the
  context it is evaluated in;
* register linking: at every point where the interpreter may take over, a slot
  holds, or is written back to, the value the interpreter would have there;
* instance variables: a slot number in a cache denotes the variable it was
  cached for, in every object of the class;
* bytecode: what is compiled, encoded, decoded and executed is what the source
  means, in the registers of the frame, and ends if the source does;
* arithmetic: both tiers compute the same unbounded Integers;
* loop analysis: what is dropped at the header of a loop is not read again;
* control frames: the chain of frames, and the outer frames of blocks, are the
  activations that are live;
* arguments: every parameter gets the argument that Ruby's rules give it;
* errors: everything on the stack ends, up to the entry point.

## Modules

**`MethodLookup`** has the constants of the world a method body runs in
(classes, names, receivers, call sites, functions by kind) and the pure
functions `FindMethod` (`Globals::find_method`), `Resolve`
(`find_method_checked` with `check_arg`) and `AddMethod`. `Super` is a constant:
the code never changes a superclass, and classes created later are present from
the start with empty tables. The number of arguments is abstracted to the set
`Accepts[s]` of functions that accept what site `s` passes.

**`RubyDispatch`** is the abstract specification: method tables, the class of
every receiver, and the call the last step made. A call invokes what `Resolve` finds now.

**`MethodDispatch`** is the machine, for one Ruby method body with any number of
call sites:

| variable | code |
| --- | --- |
| `methods`, `classOf` | `ClassInfo::methods`; the class word of an object |
| `version` | `Codegen.class_version` |
| `bc` | class, version and callee in the bytecode of each call site |
| `codes` | every piece of machine code compiled for the body: the class of `self` it was compiled for, whether it is the code of its loop, and how each site was compiled |
| `entry`, `loopEntry` | where the method's stub and the `LoopStart` instruction jump |
| `frames` | activations of the body: `self`, and the code it is running in (0: the interpreter) |
| `invoked` | the call the last step made, if any (observed by the properties only) |

A site is compiled as `inline` (`gen_inlinable`), `cached` (`gen_call_cached`:
guards on class and version, callee fixed) or `uncached`
(`gen_call_not_cached`: a cache of its own in machine code, which the slow path
patches). `retry` says that the site had no callee when it was compiled, so
that `recompile_and_deopt` precedes it.

| action | code |
| --- | --- |
| `DefineMethod`, `DefineAttr` | `MethodDef` in either tier; `attr_reader`, `attr_writer`, and `attr_accessor` as both |
| `OpenSingleton` | `Object#singleton_class` on a class object |
| `EnterVm`, `EnterCompile`, `EnterJit`, `EnterSideExit` | the stub: counting; compiling and patching itself; the prologue's class guard on `self` passing; failing |
| `LoopStart`, `LoopCompile` | the interpreter's `LoopStart` |
| `Deopt` | `LoopEnd` of a loop's code, and guards of other instructions |
| `VmCallHit`, `VmCallSlow`, `VmCallError` | `vm_method_call` |
| `JitCallGuarded`, `JitCallDeopt` | a `cached` or `inline` site whose guards pass, or fail |
| `JitCallHit`, `JitCallSlow`, `JitCallError` | an `uncached` site |
| `Recompile` | `recompile_and_deopt` when its counter reaches zero |
| `Return` | return from the activation |

A call is one step: between the comparison of a cache and the call nothing else
runs. What the callee does, definitions and further activations of the same
body included, are the steps that follow, so every interleaving of cache use
and invalidation by nested code is explored. The counters that decide when to
compile are abstracted to a choice. An error unwinds all activations because
the compiler accepts no `rescue`.

**`MCMethodDispatch`** is the instance TLC runs, **`MethodDispatchProofs`** holds
the theorems.

**`ConstCache`** is the machine for constants:

| variable | code |
| --- | --- |
| `consts`, `classes` | `ClassInfo::constants`; the classes that exist |
| `version` | `Codegen.const_version` |
| `context` | `Executor::lexical_class`, the stack of class contexts |
| `bodies`, `leaked` | the class bodies being executed; the contexts that were current when the last error was raised (both only observe `context`) |
| `cache` | `ConstSiteInfo::cache` of each site |
| `last` | the value `vm_load_const` leaves in the bytecode, from which the JIT decides how to compile the site |
| `code` | the caches in the machine code of the site: version, value and, for a site compiled as a load of a Float, the number |
| `loaded` | the load the last step made, if any (observed by the properties only) |

| action | code |
| --- | --- |
| `StoreConst` | `vm_store_const`, `jit_store_constant`: bump the version, set the constant in the current class context |
| `ReopenClass`, `CreateClass`, `ClassFails` | `vm_class_def` with `define_class`: the class exists; it is new, and its constant is set without a bump; the definition is refused |
| `LeaveBody` | the end of `vm_class_def`: `pop_class_context` |
| `VmHit`, `VmMiss`, `VmError` | `vm_get_constant` |
| `Compile` | the JIT compiles the site, as a generic load or as a load of a Float |
| `JitHit`, `JitMiss`, `JitError` | `load_generic_constant`; `JitHit` and `JitError` also stand for the float load |
| `JitMissFloat`, `JitFloatDeopt` | `load_float_constant` on a Float; on another value, which side-exits after the value was cached and before the version is |

A site may be executed in any context, because the context belongs to the
executor and not to the method. An error (`Unwind`) ends every activation and
leaves the contexts on the stack, and the interactive front end goes on with the
same executor; so contexts can leak. Expressions are `N`, `::N`, `P::N` and
`::P::N`; a longer prefix repeats the step of `P`. Class objects and class ids are
one value each; the superclass checks of `define_class` are part of the choice
`ClassFails`. A piece of machine code that still runs after the method was
compiled again keeps caches of its own: it behaves as a second site with the
same path.

**`MCConstCache`** is the instance TLC runs, **`ConstCacheProofs`** holds the
theorems.

**`XmmLink`** follows one activation of compiled code along one path, and
compares it with the interpreter:

| variable | code |
| --- | --- |
| `ctx` | the `BBContext` the compiler had for the instruction that is executed now: `mode` and `reg` are `stack_slot`, `xmm` is `xmm` |
| `target`, `at` | the merged context and the position in the two loops of `gen_write_back_for_target`, while branches meet; `at = 0` otherwise |
| `conv`, `guards` | the slots that still have to be converted for a loop header, and the slots whose class is still to be checked |
| `xmms`, `slots` | the registers and the stack slots that the machine code computes |
| `ref` | what the interpreter would have in the slots had it executed everything |
| `strayed` | the first reason for which the machine code lost track of a value (observed by the properties only) |
| `alike`, `agreed` | whether the slots of the last merge share registers in both contexts; whether the last instruction read what the interpreter would read (observed by the properties only) |

| action | code |
| --- | --- |
| `Store`, `LoadFloat`, `Copy` | instructions that set a slot; load a Float; `Mov` |
| `FloatOp`, `FloatCmp` | arithmetic and comparison compiled for Floats: operands are converted into registers |
| `Generic`, `Consume` | instructions that write back what they read, and then set a slot or set none |
| `MakeArray`, `MakeRange`, `CondBr` | `Array`; `Range` and `ClassDef`; `CondBr` and `CheckLocal`, each of which differs from the rule |
| `Call`, `CallBlock`, `Tof`, `Sqrt` | a call, a call with a block, the inlined builtins |
| `Deopt` | a side exit, from a guard that fails before the instruction changed anything, from `recompile_and_deopt` or at the end of a loop's code; `exits` in `Generic` and `Call` is a side exit after the operands were written back |
| `Meet`, `Unlink`, `Move`, `Arrive` | `gen_merging_branches`: the target context, the two loops one slot at a time, and the code that goes on with the target |
| `EnterLoop`, `BackEdge`, `LeaveAtHeader` | `gen_merging_branches_loop`; `gen_backedge_branch`; a check of a class at a header that fails |
| `Return` | `Ret`; the next activation has new slots |

Compile time and run time are one step: the context is a function of the path, and
the path is what is executed. What is abstracted:

* A Float is named by the number it unboxes to; `BoxOf` boxes a number, and the only
  number that boxing changes is -0.0. The results of arithmetic are any number, the
  same one for the machine code and the interpreter.
* Where branches meet, the context of the branch that was not taken is any context
  whose two tables agree (`MutualContexts`); in the instance of `xmm_links` every
  one of them is the `ctx` of some reachable state. More than two branches merge
  pairwise.
* At a merge, a slot that the target links RW while its link has become R in the first
  loop was written in that loop, so the guard on its class in the slot cannot fail; at a
  loop header it can, and `guards` remembers it.
* The result slot of a comparison fused with a branch is a temporary that nothing
  reads; the model drops its link.
* Allocation fails when no register is free: the actions are disabled there.

Several instructions lose track of a value in circumstances of their own. The
model takes them as the code has them and names the circumstance in `strayed`:

| `strayed` | circumstance |
| --- | --- |
| `integer` | an Integer that was converted for an earlier instruction is used through its register: copied (linked RW, `jitgen.rs:843`), or an operand of arithmetic in which every operand is an Integer by now (`read_slot.rs:53`) |
| `zero` | an operand is -0.0 in the register, while the interpreter has the 0.0 that boxing made of it |
| `array` | a register is linked while an Array literal calls a function without saving it (`jitgen.rs:966`) |
| `operand` | `Range`, `ClassDef`, `CondBr` or `CheckLocal` reads a slot that is linked RW, or leaves its result linked |
| `receiver` | the receiver's link is dropped with the result's before it is written back (`method_call.rs:27`), or a block call's receiver is never written back (`method_call.rs:119`) |
| `merge` | slots that stay linked share registers in one way before the merge and in another after it |
| `guard` | a check at a loop header fails after the slot of an Integer was relinked read-write (`merge.rs:276`) |

`Faithful` and `ReadsAgree` say that nothing else goes wrong. Whether the bytecode
generator can bring such a circumstance about is not modelled: a receiver, for
example, is mostly a fresh temporary. So `strayed` marks what the register
linking relies on, not what is known to happen.

At a loop header the context is chosen by an analysis of the loop that is not
the merge of what is known so far, and the branches back to it are compiled
when the whole function is. `EnterLoop` and `BackEdge` let the header link any
slots (`LoopContext`) and drop the links of any others (`ToHeader`);
`LeaveAtHeader` is the side exit when a slot that the header wants in a
register turns out to hold no number. That exit can overwrite an Integer by
the Float it was converted to (`strayed` is `guard`), because the slot has been
relinked for the header by then (`merge.rs:276`).

**`MCXmmLink`** is the instance; its `MergeSpec` starts from any context and does
nothing but one merge or one back edge.

**`BytecodeGen`**, **`Encoding`**, **`Interpreter`**, **`Bytecode`**, **`RubyEval`** and
**`CompilerForms`** follow a function from its syntax tree to its result. `RubyAst` names the
nodes of the tree, which an external parser makes. `BytecodeGen` is `bytecodegen.rs` and
`binary.rs` as functions from trees to instructions: which register each operand
is put into, which temporaries are pushed and popped, where the branches go.
`Encoding` is the format: the number of an instruction (`Opcode`), its word (`EncodeInst`,
`encode.rs`), and the two tables it is decoded with, the interpreter's (`Dispatch`) and the JIT
compiler's (`FromBc`). `Words` is the words of the function that runs, and `Interpreter` executes
them, for any functions at all, whoever made their instructions; `UnitsAssumption` is what it
takes from the generator: instructions and operands have the types that `BcIr` gives them
(`IsTyped`), and a cache comes after a call. `Bytecode` closes the circle: its functions are what
`BytecodeGen` makes of programs. The values are terms (`RubyValues`). The state is the interpreter's:

| variable | code |
| --- | --- |
| `unit` | the function: its tree, its instructions, its words (`Compile`, done before the run) |
| `pc`, `regs` | `r13`; the registers of the frame, and the words below it |
| `cells` | an instance variable, a global, a constant, a variable of an outer frame |
| `trace`, `oracle` | the calls made so far, with their operands, and the truth of what they answered |
| `status`, `ret` | running, halted, or refused by the compiler; the result |

Every instruction is one step. `RubyEval` evaluates the tree directly: it is
the reference, written from what Ruby means and not from this code, and it takes
the same answers from `oracle`. `CompilerForms` names the programs that are
compiled to something else, as narrowly as the checks allow:

| name | what is different |
| --- | --- |
| `ReadsLate` | an operand that is a local variable is read after later operands have changed it (`bytecodegen.rs:603`) |
| `AssignsEarly` | `a = b && a` has assigned `a` before it evaluates the right operand (`binary.rs:121`) |
| `EvaluatesTwice` | `place op= e` evaluates the parts of the place twice |
| `CountsVisibly` | the variable of a `for` is its counter |
| `JumpsInValues`, `ReturnsInFor` | a `break` or `return` where a value is needed: the compiler fails on an assertion, or the temporaries are off by one |
| `DropsBreakValue` | the value of a `break` is not evaluated if its loop's is not used |
| `SkipsEnsure` | an `ensure` clause is emitted behind a body that has returned |

The assertions are checked in a debug build; a release build computes a register
number that wraps around.

**`Fixnum`** is the arithmetic on Integers, as operators on words: the generic
functions of `op.rs`, and the fast paths of the interpreter and of compiled code,
which work on tagged words and watch the overflow flag. `ArithmeticExact`
compares all of them with unbounded integers. The differences have names:
`Truncates` (`%` of numbers with different signs, `vmgen.rs:1015`; a remainder by
0 panics), `ShiftsOut` (a left shift by less than the width of a word loses bits),
`CountsLost` (shift counts are truncated to 32 bits), `NoPower` (negative and huge
exponents), `IntoSign` (compiled `1 << 62` is negative), the interpreter's negation of
the least small Integer, and `Unordered` (compiled comparisons of NaN).

**`JitLoops`** is what the JIT compiler makes of the same bytecode before any
register is chosen: the starts of basic blocks (`get_bb_info`), the part of
`LoopAnalysis` that finds the slots a loop does not need (`Scan`, `Unneeded`), and
the order in which blocks are compiled and their branches collected (`JitCompile`).
`XmmLink` takes it for granted that a slot whose link is dropped at a header is set
before it is read again; `UnneededAreDead` is where that is checked, against the
paths of the interpreter. It holds but for two kinds of reads: instructions that
the analysis does not mark as reading (`Unmarked`: `Index`, `IndexAssign`, `Array`,
`StoreConst`, `ClassDef`, `CheckLocal`, and a `Range` or an expanded array into its own
operand), and reads in an inner loop that nothing but its branch back goes on from (`OnlyAround`:
`analysis.rs:334` ignores branches back except those of the outermost loop). A
variable that only a block literal reads is not counted either; blocks are outside
of this model. In these cases a Float that is in a register only can be lost.
`JitCompiles` says that compilation meets no state declared unreachable, but for two
kinds of code that the bytecode generator does emit: a block that no path leads to
(`DeadBlocks`; `merge.rs:129`), and a loop that no path leads around, such as
`while c; break; end` (`OnceLoops`; `analysis.rs:57`). The compiler panics on them.

**`JitCode`** has the words of a function as the compiler walks over them: which
are instructions, where they branch to, which slots `scan_bb` marks, and which slots executing them
reads. **`Words`** is what the interpreter and the compiler share. What the
compiler takes for granted of the code is `NestedLoops`: ways go on to instructions; a branch
back leads to the header of the loop directly around it; a loop is entered at its header and left for
the instruction that closes it; loop ends match loop starts; both are in blocks that
are scanned; and what is read is marked unless `Unmarked` says otherwise. The generator has to see
to it, nothing in the compiler tests it, and `LoopsAreNested` says that it does, for every
function that the compiler accepts (`IsCompiled`: `get_bb_info` fails on a branch behind the code; and a
function ends in a return, but for an `ensure` emitted behind one, `SkipsEnsure`).

**`MCBytecode`** lists the programs.

**`Arguments`** has the layout of parameters (`handle_args`), the two prologues
(`init_method.rs`, `jitgen.rs`), the instructions that destructure parameters and
supply defaults, and what Ruby binds (`RubyEnter`). **`CallFrames`** is the stack:

| variable | code |
| --- | --- |
| `frames` | the frames on the machine stack: `prev`, `outer`, `self` and the word of the block in each |
| `cfp` | `Executor::cfp` |
| `status` | whether a function runs, a call is being entered, or an error is passed on |
| `entered` | the call that is being entered, with the values its parameters get |

| action | code |
| --- | --- |
| `Eval`, `Require` | the entry point, from the front end and from `require`, a method in Rust |
| `CallMethod`, `CallNative` | a call of a method in Ruby or in Rust by generated code |
| `Invoke`, `InvokeNative`, `InvokeAccessor` | a call by an invoker (`invoke_method`, `invoke_func2`) of a method in Ruby, of one in Rust, of an accessor: by an operator, in the frame of the Ruby code that has the operator, or by `new` in its own |
| `Start` | the prologue of the function that was called |
| `YieldTo`, `YieldNowhere` | a block is found by walking up the list, and called; there is no block |
| `OpenClass` | a class body, which pushes no control frame (`vmgen.rs:1172`) |
| `Return`, `Raise`, `Unwind` | return; an error; the return of 0 from each caller |

What functions do between calls is left open: the running one may do anything that
changes the stack. Generated code makes `cfp` its own frame after a call it made; the epilogue of
the invokers takes it from the word in which a callee with a frame has `prev` (`vmgen.rs:396`).
So `cfp` is not the running frame in three places, which `since` remembers:

* in a class body until its first call, and around it until the first call after it: no frame was
  pushed (`vmgen.rs:1172`), and `cfp` is another frame;
* after an accessor that an invoker called, until generated code next makes a call from the frame:
  an accessor has no frame, and its own call overwrites the word that the epilogue reads with a return address
  (`compiler.rs:627-644, 663-681`). After `-obj`, where `-@` is an `attr_reader`, `cfp` is an
  address in the code;
* in `require`, after its file: the entry point gave the file a list of its own
  (`vmgen.rs:85`) and leaves 0 (`vmgen.rs:114`).

A block passed on there is found in another frame, or not at all; `via` in its word says so.
`CfpIsTheRunningFrame` says that `cfp` is the running frame exactly outside of these places.
`YieldNowhere` ends the run: without a block, or where the walk meets no frame, what is read
is no function to call. Calls that bind something else than
Ruby have names in `Arguments`: `RestDropped` (compiled `def f(*r)` gets nothing),
`RestNotSpread` (`|a, *r|`), `BlockUnset` and `BlockLost` (`&b`), `BelowFrame` (more
arguments than the frame has room for).

**`IvarStore`** is what instance variables promise: a map from names to values for
every object. **`IvarCache`** is how they are kept:

| variable | code |
| --- | --- |
| `ivarNames`, `classOf` | `ClassInfo::ivar_names`; the class word of an object |
| `inlined`, `table` | the slots inside an `RValue`; `RValue::var_table` |
| `program` | a body with ivar instructions and calls of attr methods, or attr methods |
| `bc`, `stub` | the caches in the bytecode, and in the functions of attr methods |
| `codes`, `act` | compiled codes of the body or its loop with their caches; the one that runs, and its self |
| `reply`, `fault` | the answer of the last operation; a divergence after which nothing is followed |

| action | code |
| --- | --- |
| `InstanceVariableGet`, `InstanceVariableSet`, `GetIvars` | the builtins, which look the slot up |
| `VmLoadIvar`, `VmStoreIvar` | the interpreter, with the cache in the bytecode |
| `CallReader`, `CallWriter` | the functions of attr methods, with a cache of their own |
| `Compile`, `Enter`, `Leave` | compilation for the class of a self; entry into the code; leaving it |
| `JitLoadIvar`, `JitStoreIvar` | compiled instructions: the slot is a constant if it was cached, else they compare |
| `JitReader`, `JitWriter` | attr methods compiled into their caller, whose cache the first execution fills |
| `OpenSingleton` | `singleton_class` gives an object a class with no slot names |

`ImplementsStore` is refinement: an object of `IvarStore` maps a name to what is in the
slot its class gives it, whichever tier reads or writes. Known differences are mapped by
`AsRuby` (a compiled read of an empty slot inside the RValue gives the word 0 instead of
nil; a compiled attr_writer goes on after a FrozenError, `method_call.rs:443`; after a
write outside the RValue it tests a register that holds garbage; a reader compiled for an
always-frozen class answers nil, `method_call.rs:183`, whatever was set), or end the behaviour (`fault`):

* `lost`: an object with variables gets a singleton class and its slots lose their names;
* `strays`: compiled code runs for a self of another class than it was compiled for, which
  `MethodDispatch` shows to be possible; or an attr_writer compiled in place, filled by a heap Float, gets a
  Float that is an immediate, which passes the same guard, and reads it as an address;
* `panics`: the compiler meets a cache of an always-frozen class.

The last one contradicts an assertion of the code. Integer, Float and Range are always frozen
(`is_always_frozen`), but a Range, a Bignum or a heap Float is an object, and neither
`set_instance_var_with_cache` nor `get_instance_var_with_cache` (`instance_var.rs:75-124`) tests for the
class: setting a variable of a Range succeeds and caches its class. `jit_load_ivar` and
`jit_store_ivar` assert that no cache has such a class (`compile.rs:12, 52`), so compiling the
method fails. `Compile` has both outcomes, by what the caches hold (`FrozenCached`), and
that compiled ivar instructions have no such cache, which `IvarsImplementStore` needs, follows from
the assertion and from nothing else.

## Runs

| run | question | instance |
| --- | --- | --- |
| `dispatch_caches` | is a cache or compiled callee that is current ever stale, in any order of definitions, singleton classes, loops, compilations and recompilations? No | one class object whose class changes, two classes, an ISeq and an attr_reader, one site on `self` and one with a receiver that refuses the attr_reader; 2 compilations, 1 definition, 1 activation at a time |
| `dispatch_refinement` | where `self` keeps its class, is every call a call of `RubyDispatch`? Yes | an Integer and a Float receiver, an inlinable `to_f` on Integer, a redefinition of it; 2 compilations, 2 definitions, 2 activations |
| `loop_self_class` | does compiled code run only for the class it was compiled for, as the comments in `jitgen/method_call.rs` say? **No**: a loop's code has no guard on `self` | as above, with a loop |
| `const_caches` | is a current constant cache ever without a binding, do qualified and unshadowed constants stay fresh, does the stack of contexts keep step with the class bodies? Yes | classes Object and A, two values of which one is a Float, a site `N` and a site `::A::N`; 2 assignments, 2 nested contexts, any number of class definitions, errors and compilations |
| `const_in_context` | is a constant always the one lookup finds where it is evaluated? **No**: the caches do not know the class context | as above, the site `N` only |
| `inline_self_call` | does a call on `self` that is compiled without a class guard reach the method of `self`'s class? **No**: inlining looks only at the cached callee | as above, the self site accepting the builtin |
| `xmm_links` | has every slot, or the register linked to it, the interpreter's value at every instruction, in every merge, at loop headers and back edges, and after every side exit, and does every instruction read it? Yes, but for the listed circumstances | two slots, one of them a local variable; two registers; two Floats and -0.0, an Integer, nil; every instruction; 95,000 states |
| `xmm_merges` | do the moves and exchanges at a merge or a back edge lose a number on the way? No. Do they arrive? Yes if the slots share registers alike | three slots, three registers, any two contexts, Floats and Integers in the slots; 436,000 states |
| `xmm_copy` | is a copy of a slot the value of the slot? **No**: for an Integer that was converted, it is a Float | as `xmm_links` |
| `bytecodes` | does compiled code do what the source means, with the registers it reserves, in both decoders; is it closed under what the interpreter does with it, and does the interpreter stay in the code and in the frame; does it end; is arithmetic exact in both tiers; are loops nested as the JIT takes for granted, is what a loop header drops never read again, and does the JIT's walk find every block it expects? Yes, but for the named forms | about 4,700 functions, 74,000 states |
| `calls` | are parameters bound as in Ruby, do blocks run in the frame they were written in, is `cfp` the running frame, do errors end everything? Yes, but for the named calls and the three places where `cfp` is not | frames nested five deep, 888,000 states |
| `ivars` | do caches name the right slots, has every value one name, is every operation one of `IvarStore`? Yes, up to the named differences | two ordinary objects, two class objects, a heap Integer, a heap Float and a Float that is an immediate, two names, one slot inside the RValue, 107,000 states |

The bounds. Two compilations are what it takes for an old and a new code to
coexist, two activations for an outer one to run old code while an inner one
replaces it; two receivers of different classes make every guard fail and
succeed; one definition outdates every cache, the second one outdates those
filled in between. `VersionMod` (2^32 in the code) is larger than the number of
definitions, so the version never wraps: see the hazard about it.
For constants, two classes are what shadowing takes, two contexts are a body and
a leaked one or two nested bodies, and two assignments make a cache outdated,
filled and outdated again; `MaxStores` stands for the 2^64 values of the version.
For registers, two slots are enough to share a register and to be copied,
overwritten and merged with each other; exchanging registers in a circle takes
three, which is why merges have a run of their own. As many registers as slots
means that allocation succeeds, as it does with 14 registers in code with few
live Floats.

For bytecode, the programs are every expression of two levels over a base of
calls, variables, literals and assignments; every binary operator with every mix of
operands; every condition under every branch; every loop with bodies that break,
return, loop again and write variables; every assignable place, alone and in
pairs; parameters with defaults and destructured ones. Deeper trees are
compiled by the same rules from the same states of the generator (the depth of
temporaries, the destination, whether the value is used), all of which occur.
`MaxCalls` = 2 answers of calls are free, which reaches both arms of every
condition in every combination of two; later answers follow a pattern that ends
every loop. `MaxSlot` = 16 is more than any frame here has.
Arithmetic has words of 6 bits, shift counts of 3 and immediates of 2^3 values
in place of 64, 32 and 2^16: operands from -40 to 40 lie on both sides of the range of
small Integers (-16..15) and of the word (-32..31), counts up to 12 lie beyond the word
and beyond the count.

For calls, `MaxDepth` = 5 is a method, a block in it, a method that passes the block
on, one more that calls it, and a class body, a required file or a method in Rust anywhere between.
Functions have any list of up to two required, two optional and a rest
parameter, with destructuring and a block parameter, and 0 to 5 arguments or arrays of
them, so that arguments are missing, fit, are left over and overrun the frame; shapes are
free where the first frame calls a method and the first two yield to a block (`Shallow`), in
both tiers, and deeper functions take none and are interpreted, because binding depends
on nothing below and the tiers push the same frames. `|a = 1, *r|` is left out, since versions of Ruby differ on it.

For instance variables, two names in either order put each of them inside the RValue and
in the table; two objects of one class differ in how many slots they have; a class
object changes class; an immediate is refused, and shares the class Float with a value on the
heap (a Range is like the latter; the guard for Integer passes no Bignum, so there is one of each). Each program has one cached
instruction or attr method, as caches of different sites share nothing but the
slot names, which the builtins change at any time. One value suffices, since
a slot that was never set differs from it. `MaxCodes` = 1: a later code has caches of its own
and runs with no other.

Deadlock is not checked where the system stops: in `bytecodes` every function ends; in
`calls` a yield without a block ends the run (`dead`); in `ivars` nothing is followed after
a `fault`.

Fairness. `bytecodes` assumes `WF_vars(Next)`: a thread that has a next
instruction executes it; with it `Halts` says that every accepted function ends
once the calls it makes answer so that its loops end in the source.
`calls` assumes `WF_vars(Unwind)` only: when an error is pending every caller tests for it
and returns at once, with no other code in between (but for an attr_writer compiled in place, whose
slow path leaves no frame by going on: `Silent` in `IvarCache`); `ErrorsReachTheEntry` says that it gets to
the entry point.

## Findings

* The code compiled for a loop is entered by any activation of the method
  (`vmgen.rs:750`) and has no guard on `self`; calls on `self` in it are
  compiled for the class of the activation that triggered compilation
  (`loop_self_class`). The comments at `jitgen/method_call.rs:51`, `173` and `258`
  claim the opposite.
* A builtin is inlined because of the cached callee before the cached class is
  compared with the class of `self` (`inline_self_call`).
* The caches of a constant compare `const_version` only (`op.rs:462`,
  `jitgen/constants.rs:45`), although lookup depends on the class context, which
  belongs to the executor and changes without a bump, and a class definition
  sets a constant without a bump (`class.rs:168`). A site that ran inside a class
  body returns that class's constant outside of it (`const_in_context`), where
  `executor.rs:143` says that a constant is found "in current class context".
* `copy_slot` links the destination read-write to the register of the source
  (`jitgen.rs:842`), also when that register only has the conversion of an Integer, so
  that the copy becomes a Float (`xmm_copy`), where the comment says "Copy *src*
  to *dst*."

The first two concern a method that several classes share by inheritance, the
third a name that is bound in more than one class, the fourth a variable that is
used in mixed arithmetic and then copied. The theorems say what holds
in spite of the first three.

Differences from Ruby, or from what another part of the code relies on, that
contradict no line of the repository are no findings but names in the models,
listed above: `strayed` in `XmmLink`, `CompilerForms`, `Unmarked`, `OnlyAround`,
`DeadBlocks` and `OnceLoops` in `JitLoops`, the last section of `Fixnum`, `Divergent` in
`Arguments`, `Linked` and `YieldNowhere` in `CallFrames`, `AsRuby` and `fault` in
`IvarCache`. The properties say that nothing else differs, and were written with
each name as narrow as the runs allow.

## Proofs

`MethodDispatchProofs` proves, for any classes, superclass links, sites,
functions and bounds that satisfy `LookupAssumption` and `DispatchAssumption`:

* `TypeCorrect`: `Spec => []TypeOK`.
* `CachesStayCoherent`: `Spec => []CachesCoherent`. The invariant is inductive
  together with `TypeOK`. The argument: a definition makes every filled cache
  strictly older than the version (`InstallOutdates`); a fill is coherent
  because resolution just accepted its callee (`FillCoherent`); compilation
  copies coherent bytecode caches or starts from the empty one
  (`CoherentEmit`); nothing else writes a cache.
* `ReceiverCallsResolve`: `Spec => ReceiverDispatch`. A step that calls either
  resolved just now, or hit a cache whose class is the receiver's and whose
  version is current, and `CachesCoherent` says that its callee is what
  resolution finds.
* `SelfClassIsStable` and `DispatchRefinesRuby`, under `StableSelf`: the body has
  no loop, no class of a receiver changes, and no site on `self` accepts an
  inlinable builtin. They need the stronger invariant `StableInv`, whose
  additional part `SelfSitesMatch` says that a guarded site on `self` was
  compiled from a cache filled for the code's own `self` class, and that the
  self-modifying caches of self sites are coherent too. `DispatchRefinesRuby`
  shows that every step of the machine is a step of `RubyDispatch` or a stutter,
  with the identity on the three shared variables.

`StableSelf` is exactly what the JIT takes for granted; the two violation runs
and `dispatch_caches` show what happens without it.

`ConstCacheProofs` proves, for any classes, names, sites, initial tables and bounds
that satisfy `ConstAssumption`, the five properties of `const_caches`:
`ConstTypeCorrect`, `ContextsStayCovered`, `CachesStayBound`,
`QualifiedLoadsAreFresh` and `UnshadowedLoadsAreFresh`. The inductive invariant
`ConstInv` is `TypeOK`, `ContextCoversBodies` and `CachesGood`; the last one says of
every cache that it is not newer than the version and, if it is current, that
its value is bound to the name in some class and, for a site that starts at the
top level, is what lookup from Object finds (`GoodIn`). It is needed because
`CachesBound` alone does not say that a qualified site still finds the same
value. The argument: an assignment makes every cache strictly older
(`NewVersionGood`); a class definition does not, but only fills an entry that was
empty, so that every chain of bound names from Object is still the same chain
(`GrowsGood`); a fill was just found by lookup (`FillGood`, from `FindBound`); and
the float load's side exit comes before the version is stored, so the half-filled
cache stays outdated (`JitFloatDeoptStep`). The stack of contexts is a matter of
sequences (`EnterBodyStack`, `LeaveBodyStack`, `UnwindStack`).

`XmmLinkProofs` proves the five invariants of `xmm_links` and `xmm_merges`, for any
number of slots and registers, any numbers and Integers that satisfy
`XmmAssumption`: `XmmTypeCorrect`, `LinksStayMutual`, `RegistersStayFaithful`
(`Faithful`), `ReadsStayExact` (`ReadsAgree`) and `UnaliasedMergesStayExact`. The
inductive invariant `XmmInv` adds to these five what is true between two moves of
a merge:

* `MergeInv`: outside of a merge there is no target; a merge is only followed while
  nothing has strayed; slots before `at` that the target does not link have lost
  their link; what waits for a conversion or a check has been moved, is stored and
  is not taken for converted; a slot that was moved and is not linked RW
  afterwards holds its value on the stack.
* `AlikeInv`, for merges of slots that share registers alike: slots that share a
  register by now will share one (`Grouped`), with the same number (`SameNumber`); the
  register a moved slot will have holds its number (`InPlace`) and is linked to no slot
  that will not share it (`Alone`). It is what makes the exchange of two
  registers in the middle of the second loop correct.

The attempt to prove `Faithful` showed that it was not inductive as first stated: a
merge could make an Integer share the register of a Float whose number agreed with
it, and a copy of the Float, written back to every slot of the register, then turned the
Integer into a Float. TLC confirmed it with three slots. `Arrived` and `Sound` now say
that what shares a register is all Floats or all Integers, and a merge that
breaks this counts as one that strayed. The clause is checked and proved with the rest.

`IvarCacheProofs` proves the invariants and the refinement of `ivars`, for any
classes, objects, names, programs and bounds that satisfy
`IvarAssumption`: `IvarTypeCorrect`, `CachesStayRight`, `SlotsStayNamed` and
`IvarsImplementStore` (`ImplementsStore`). `IvarInv` has four parts: `MemInv` (the names of
a class have numbers below their count, each its own, and every value an object holds has
the number of a name of its class), `SitesGood` and `CodesGood` (every cache in
bytecode, in an attr method or in compiled code names the slot its class gives the
variable, a compiled attr method was cached for the class its code
guards, and a compiled ivar instruction for a class that is not always frozen, or the compiler would have
stopped) and `RunGood`. The argument: a name, once numbered, keeps its number
(`KeepsNumbers`), so that the only step that could make a cache wrong is the one that
fills it; a step of any tier then reads or writes the slot of the name, which is
a step of `IvarStore` (`RubyStep`), up to what `AsRuby` maps and `fault` ends.

The first part of `CallFramesProofs` proves `CallsBindLikeRuby`: for every list of parameters that a parser
can produce (`WellFormed`) and the compiler accepts (`Accepted`), all arguments that pass
the caller's check of their number, and registers enough for them, what the prologue of the interpreter or of
compiled code and the instructions behind it leave in the registers is what Ruby binds,
or `Divergent` names the call. `Layout` computes where `handle_args` puts each kind of
parameter, from the position of the first of the next kind (a least-number argument, since the list is
of any length); `InitFuncIs` and `JitInitIs` say what each prologue leaves in each register;
`ExpandedIs` what destructuring, defaults and the block parameter make of it. `Passable` keeps
the values that are passed apart from the marks for nil and for an
unset register; `Objects`, what may be passed in `CallFrames`, is assumed to be so.

The second part proves the five invariants of `calls`, for any functions, arguments,
objects and depth that satisfy `CallFramesAssumption`: `FramesTypeCorrect`,
`CfpStaysTheRunningFrame`, `WalksStayInFrames`, `BlocksStayWhereWritten` and, with
`CallsBindLikeRuby`, `ParametersBindLikeRuby`. The invariant `StackInv` says of every frame
what its words name (`Placed`): the word of its block is that of the frame below, one
step longer, or a literal's, which names the frame below (`WordPlaced`), and `prev` is that frame where
`via` says so; a block's `outer` is then the frame that wrote it (`BlockPlaced`); no two frames have
one name. `CfpPlaced` says what `cfp` is while the frames up to some place run: below class bodies that have
done nothing it is the frame there if and only if that is linked, and never one further below; and it is a
frame at all unless an accessor or a required file left none. `prev` satisfies the same for the frames
below its own, because it is what `cfp` was when the frame was pushed: so the epilogue of an invoker, which makes
`cfp` what `prev` says, leaves it as good or as bad as it was, and a call by generated code makes
it right. `WalksEndAtFrames` is about the walk itself, a function on the
number of steps; `AlongDef` establishes its equation by the least number for which it
could fail. A new frame gets a name that nothing mentions because a frame has six words and
there are six names for each (a pigeonhole argument, `Fresh`), which is why `Ids` has that size.

`FixnumProofs` proves, for words of any width that satisfies `FixnumAssumption` and for
all Integers, what `ArithmeticExact` checks for words of six bits: `ArithmeticIsExact` (`+ - * / %`
in the interpreter, in the generic functions and in each form of compiled code),
`ShiftsAreExact` (shifts by counts up to `MaxPower`, to both sides), `BitsAreExact` (`&`, `|`, `^` on
tagged words), `PowersAreExact` (`**`), `NegationIsExact` and `ComparisonIsExact`, each up to
the same named differences. The lemma `Words` is two's complement as an interval, `Overflow` says that the
flag of the tagged operation is set exactly when the number is not small, `Made` and
`Unpacked` that the two representations are distinguished by size, and `Zeros` that a number with
more leading zeros than the count survives the shift. Bits are sums and powers are products, as recursive
functions whose equations are established by the least number for which they could fail
(as with every function on the numbers here); that the tag, the lowest bit, goes through an operation on words
unharmed is then a matter of the first bit. `PowersAssumption` states what `^` means up to
`MaxPower`, because the provers do not know it; TLC evaluates it.

`InterpreterProofs` is about `Interpreter` for any functions that satisfy `UnitsAssumption`: of any length, with any
number of variables and temporaries, and not only those that the generator makes of the programs of the run.

* `CodeIsReadBack` (`Spec => []DecodersAgree`): an instruction's number leads back to the instruction, in
  both tables (`RoundTrip`, one lemma for each kind of instruction; no number is given twice, and the ranges of the kinds do
  not overlap), and a word's operands are those of the instruction, with their signs (`Halves`, `WholeWord`,
  `Encodes`). Every word that is not skipped as a cache is an instruction (`WordIs`).
* `InterpreterStaysInCode` (`Spec /\ CodeIsClosed => []StaysInCode`) and `InterpreterTypeOK`. The inductive invariant `IInv` is
  `TypeOK`, `StaysInCode`, and `CodeIsClosed` without its "at the start", which depends on the words only and
  so stays (`ClosedNext`). Each step goes where `After` says (`StepsAdvance`, one step per action), and
  what comes after an instruction is an instruction, because the code is closed.
* `InterpreterStaysInFrame` (`Spec /\ CodeIsClosed /\ InFrame => StaysInFrame`): a step writes `Written` only
  (`StepsWrite`); the registers it writes are named in its word (`WrittenAreNamed`), but for what the prologue clears
  and what a block assigns. The prologue's word holds the size of the frame (`PrologueWord`), and a variable is in the frame
  whatever the depth of temporaries (`LocalNoInFrame`).
* `InstructionsAreExact` (`Spec => []ArithmeticExact`), from the theorems of `FixnumProofs`: whatever the table has
  for a word (`Arms`), the handler is exact for it. `CompareExact` compares Floats too, of which there
  are finitely many in `Fixnum`.

`CodeIsClosed` and `InFrame` are hypotheses about the words a function starts with. `bytecodes` checks them for
every function it compiles (`EmitsClosedCode` and `InFrame`); the only code that is not closed has a label of an
`ensure` clause behind a return (`SkipsEnsure`). `IsTyped` says that lengths and the size of a frame have 16 bits, which
the code does not check: `len as u16` cuts a longer one.

`JitLoopsProofs` proves, for any code whose loops are nested, that the
analysis of loops and the walk of the compiler do what `bytecodes` checks of them:
`AnalysisIsSound` (`LoopsAreNested => UnneededAreDead`) and `CompilerIsSafe`
(`LoopsAreNested => JitCompiles`), for any words in `unit`, however long, and not only those the
generator makes of the programs of the run. They assume `LoopsAreNested` and nothing else; `bytecodes`
checks it for every function it compiles. Functions on the words of the code (the scan,
the walk, sets of ways) are shown to exist by the least word for which they would not
(`TablesExist`), and what holds of them is proved by the least word for which it fails.

* The scan: `Level`, the number of loops that are open behind a word, is additive
  (`LevelSplit`) and is the level the scan counts (`LevelsAgree`), because starts and
  ends of loops are always looked at (`MarksAreLookedAt`); so the scan of a loop ends at the
  instruction that closes it (`EndsAtClose`), and looks at the loop only (`LooksInside`).
* What is known of a slot goes on along every way ahead (`WaysAreLookedAt`), whether the way
  goes on in the block or branches to another one. Where a way through the loop ends,
  in an exit, a branch back to its header or a return, an unneeded slot has been set
  (`EndsAreNotUsed`). So ways ahead on which it is not set never get there: they stay
  in the loop, and the slot is not marked as read on them (`ReachIsLookedAt`, `UsesAreSeen`).
* A path of the interpreter also goes back, but only to the header of an inner loop,
  which every way into that loop has passed (`HeadersAreReached`, `BranchesStayInside`); so a
  path on which the slot is not set stays where ways ahead have been (`PathsAreWaysOn`).
* The compiler: `JitInv` holds after every word of the walk: loops are counted
  (`Counted`), the map has branches ahead and branches back to headers that were compiled
  (`Collected`), what ways ahead lead to has a branch in the map when it is met
  (`Led`), and the walk is live until a jump or a return (`Lively`). A block without a
  branch is then one that no path leads to (`JitIsBlocked`, from `PathsFromStart`), a loop whose
  scan finds no branch back one that no path leads around (`ScanFindsBranchBack`).

The proof shaped the model: `NestedLoops` says what earlier versions of these
properties left to the programs of the run, `OnlyAround` and `OnceLoops` were made exact, and
`EndsLoops` was found missing.

What stays with TLC, and why:

* `Halts` and `ErrorsReachTheEntry` are liveness under fairness.
* `BytecodeGen`, `RubyEval` and `CompilerForms` have recursive operators on trees. That a compiled
  function means what its tree means, fits its frame, is closed and nests its loops (`AgreesWithRuby`,
  `InFrame`, `EmitsClosedCode`, `RejectsOnlyJumps`, `LoopsAreNested`) are inductions over trees; neither the
  operators nor the induction are within the provers' reach.
* In `Fixnum`, shifts by more than `MaxPower` need powers that `PowersAssumption` says nothing of.
* Invariants of dispatch that need `StableSelf` are proved under it; what happens
  without it is the subject of the violation runs.

## Plan

Everything the inventory lists as modelled is modelled and checked, and everything without recursive
operators on trees is proved about. What could be added: that the generator's code is closed and its loops
are nested for trees of any depth, with an invariant of the generator's state (the depth of temporaries, the
open labels and loops) that each of its operations keeps, written as a state machine that emits one
instruction at a time.

## Not modelled

* Tier-up counters: `MethodDispatch` and `IvarCache` let them expire at any time;
  when they do is a question of speed. Comparison and negation of Integers do not record
  classes in the bytecode, so that code compiled for them leaves and compiles again
  more often than it need: no property is about that.
* The heap (`alloc.rs`): nothing in the executor runs a collection.
* Values: arithmetic of Floats, flonums, Strings and Symbols.
* Register linking: which slots the loop analysis chooses to link (`XmmLink` lets it
  choose any), and more live Floats than registers, where the compiler panics. It
  panics too on a slot that a header links read-write and the end of the body does not
  link; `BackEdge` is disabled there.
* Instance variables: copies of objects, and arrays made by `allocate`.
* Instruction encodings, register save and restore, and the layout of the
  machine stack below the frames.
* The builtin classes are sequential library code; those that call back do it
  through the invokers (`times`, `new`, the operators) or run a file (`require`), which
  `CallFrames` has. The parser is an external
  crate. Identifiers, error messages and the front ends are data and I/O; that the
  interactive front end goes on after an error is in `ConstCache` and `CallFrames`.
