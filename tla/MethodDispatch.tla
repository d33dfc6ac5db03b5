--------------------------- MODULE MethodDispatch ---------------------------
(***************************************************************************)
(* Dispatch of the method calls of ONE Ruby method body, executed by the   *)
(* interpreter and by the code the JIT compiles from it: the global class  *)
(* version, the inline caches written into the bytecode, the guards and    *)
(* the self-modifying caches in machine code, compilation of the whole     *)
(* method and of a loop in it, recompilation and deoptimization.           *)
(*                                                                         *)
(* Activations of the body form a stack, frames; only the top (last) one    *)
(* runs.  Whatever other code does between two instructions of the     *)
(* body (define methods, open singleton classes, activate the body again)  *)
(* is a step of its own.  The counters that decide when to compile are     *)
(* abstracted: wherever the code counts, the model may or may not compile. *)
(***************************************************************************)
EXTENDS MethodLookup, Integers, Sequences
CONSTANTS
    InitMethods, InitClass, NoCall,
    SelfSites,      \* sites whose receiver register is %0
    BlockSites,     \* sites compiled as MethodCallBlock
    Inlinable,      \* builtins in FnStore::inline
    HasLoop,        \* the body contains a loop
    Openable,       \* class objects whose class is not a singleton class yet
    MetaChain,      \* [Openable -> SUBSET Objs]: it and its superclasses' objects
    SingletonClass, \* [Openable -> Classes]
    Reopened,       \* bound: classes methods are added to after start-up
    VersionMod,     \* 2^32: class_version is a u32
    MaxDefs,        \* bound: method definitions after start-up
    MaxDepth,       \* bound: nested activations of the body
    MaxCodes        \* bound: compilations of the body or its loop

VARIABLES
    methods, classOf,   \* Globals.class
    version,            \* Codegen.class_version
    bc,                 \* inline cache of each site, in the bytecode
    codes,              \* compiled codes: self class, and code of each site
    entry, loopEntry,   \* code the method stub / the LoopStart jumps to, 0 = none
    frames,             \* activations: self, and the code running, 0 = interpreter
    invoked             \* the call the last step made, NoCall if it made none

vars == <<methods, classOf, version, bc, codes, entry, loopEntry, frames, invoked>>
jitVars   == <<codes, entry, loopEntry>>
classVars == <<methods, classOf, version>>

EmptyCache   == [class |-> NoClass, version |-> VersionMod - 1, func |-> NoFunc]
FilledCaches == [class : Classes, version : 0..VersionMod - 1, func : Funcs]
Caches       == FilledCaches \cup {EmptyCache}

\* How a site was compiled; retry: callee_codeptr was None, so it recompiles.
Guarded   == [form : {"cached", "inline"}, cache : FilledCaches, retry : {FALSE}]
Uncached  == [form : {"uncached"}, cache : Caches, retry : BOOLEAN]
SiteCodes == Guarded \cup Uncached
Codes     == [loop : BOOLEAN, self : Classes, site : [Sites -> SiteCodes]]
Frames    == [self : Objs, code : 0..MaxCodes]
Calls     == [site : Sites, recv : Objs, func : Funcs \cup {NoFunc}]

ASSUME DispatchAssumption ==
    /\ InitMethods \in MethodTables
    /\ InitClass \in [Objs -> Classes]
    /\ NoCall \notin Calls
    /\ SelfSites \subseteq Sites /\ BlockSites \subseteq Sites
    /\ Inlinable \subseteq Builtins
    /\ HasLoop \in BOOLEAN
    /\ Openable \subseteq Objs
    /\ MetaChain \in [Openable -> SUBSET Openable]
    /\ SingletonClass \in [Openable -> Classes]
    /\ Reopened \subseteq Classes
    /\ MaxDefs \in Nat /\ VersionMod \in Nat /\ MaxDefs < VersionMod
    /\ MaxDepth \in Nat \ {0} /\ MaxCodes \in Nat

Fill(cls, f) == [class |-> cls, version |-> version, func |-> f]
Hits(c, cls) == c.class = cls /\ c.version = version

TypeOK ==
    /\ methods \in MethodTables
    /\ classOf \in [Objs -> Classes]
    /\ version \in 0..MaxDefs
    /\ bc \in [Sites -> Caches]
    /\ codes \in Seq(Codes) /\ Len(codes) <= MaxCodes
    /\ entry \in 0..Len(codes) /\ loopEntry \in 0..Len(codes)
    /\ frames \in Seq(Frames) /\ Len(frames) <= MaxDepth
    /\ \A i \in DOMAIN frames : frames[i].code <= Len(codes)
    /\ invoked \in Calls \cup {NoCall}

Init ==
    /\ methods = InitMethods /\ classOf = InitClass
    /\ version = 0
    /\ bc = [s \in Sites |-> EmptyCache]
    /\ codes = <<>> /\ entry = 0 /\ loopEntry = 0
    /\ frames = <<>>
    /\ invoked = NoCall
-----------------------------------------------------------------------------
(* Definitions and classes, executed by any code.                           *)

(* Mutated: a definition that does not bump class_version. *)
InstallUnversioned(c, n, f) ==
    /\ version < MaxDefs
    /\ methods' = AddMethod(methods, c, n, f)
    /\ UNCHANGED <<version, classOf, bc, jitVars, frames>> /\ invoked' = NoCall

(* add_method, then class_version + 1 (addl: modulo 2^32). *)
Install(c, n, f) ==
    /\ version < MaxDefs
    /\ methods' = AddMethod(methods, c, n, f)
    /\ version' = (version + 1) % VersionMod
    /\ UNCHANGED <<classOf, bc, jitVars, frames>> /\ invoked' = NoCall

(* MethodDef: c is the dynamic class context, whatever it is. *)
DefineMethod(c, n, f) == f \in ISeqs /\ Install(c, n, f)

(* attr_reader, attr_writer, attr_accessor. *)
DefineAttr(c, n, f) == f \in Attrs /\ Install(c, n, f)

(* Object#singleton_class on a class object whose class is not a singleton  *)
(* class: it and its superclasses get singleton classes with empty tables,  *)
(* and their class changes.  class_version does not.                        *)
OpenSingleton(o) ==
    /\ classOf[o] # SingletonClass[o]
    /\ classOf' = [q \in Objs |-> IF q \in MetaChain[o] THEN SingletonClass[q]
                                  ELSE classOf[q]]
    /\ UNCHANGED <<methods, version, bc, jitVars, frames>> /\ invoked' = NoCall
-----------------------------------------------------------------------------
(* Compilation.                                                             *)

(* Mutated: gen_call without its comparison with the class of self. *)
CompileSiteAnySelf(s, cls) ==
    [form |-> IF bc[s].func = NoFunc THEN "uncached" ELSE "cached",
     cache |-> bc[s], retry |-> bc[s].func = NoFunc]

(* Mutated: compiled as if every site had a callee. *)
CompileSiteNoCallee(s, cls) == [form |-> "cached", cache |-> bc[s], retry |-> FALSE]

(* The code generated for site s when the JIT compiles for self class cls.  *)
(* gen_method_call looks at FnStore::inline before gen_call compares the    *)
(* cached class with the class of self.                                     *)
CompileSite(s, cls) ==
    LET cached == bc[s]
        Code(form, cache) == [form |-> form, cache |-> cache,
                              retry |-> cached.func = NoFunc]
    IN  IF cached.func \in Inlinable /\ s \notin BlockSites
        THEN Code("inline", cached)
        ELSE IF cached.func # NoFunc /\ (s \in SelfSites => cached.class = cls)
        THEN Code("cached", cached)
        ELSE Code("uncached", EmptyCache)

(* jit_compile_ruby, of the whole body or of its loop, for the class self has now. *)
Emit(self, loop) ==
    /\ Len(codes) < MaxCodes
    /\ codes' = Append(codes,
          [loop |-> loop, self |-> classOf[self],
           site |-> [s \in Sites |-> CompileSite(s, classOf[self])]])
-----------------------------------------------------------------------------
(* Activation of the body through its stub, return, and loops.              *)

Running == frames # <<>>
Top     == frames[Len(frames)]
Push(self, k) == /\ Len(frames) < MaxDepth
                 /\ frames' = Append(frames, [self |-> self, code |-> k])
SwitchTo(k)   == frames' = [frames EXCEPT ![Len(frames)].code = k]

(* The stub jumps to vm_entry while it counts. *)
EnterVm(o) == /\ entry = 0 /\ Push(o, 0)
              /\ UNCHANGED <<classVars, bc, jitVars>> /\ invoked' = NoCall

(* The stub's counter is spent: compile, patch the stub, jump to the code.   *)
EnterCompile(o) == /\ entry = 0 /\ Emit(o, FALSE) /\ Push(o, Len(codes) + 1)
                   /\ entry' = Len(codes) + 1
                   /\ UNCHANGED <<classVars, bc, loopEntry>> /\ invoked' = NoCall

(* Mutated: a prologue without the class guard on self. *)
EnterJitUnguarded(o) == /\ entry # 0 /\ Push(o, entry)
                        /\ UNCHANGED <<classVars, bc, jitVars>> /\ invoked' = NoCall

(* The patched stub: the prologue's class guard on self passes ...           *)
EnterJit(o) == /\ entry # 0 /\ classOf[o] = codes[entry].self /\ Push(o, entry)
               /\ UNCHANGED <<classVars, bc, jitVars>> /\ invoked' = NoCall

(* ... or side-exits to the interpreter.                                     *)
EnterSideExit(o) == /\ entry # 0 /\ classOf[o] # codes[entry].self /\ Push(o, 0)
                    /\ UNCHANGED <<classVars, bc, jitVars>> /\ invoked' = NoCall

Return == /\ Running /\ frames' = SubSeq(frames, 1, Len(frames) - 1)
          /\ UNCHANGED <<classVars, bc, jitVars>> /\ invoked' = NoCall

(* LoopStart in the interpreter: jump to the loop's code whatever self is;   *)
(* without code, count or compile it for the self of this activation.        *)
LoopStart == /\ HasLoop /\ Running /\ Top.code = 0
             /\ loopEntry # 0 /\ SwitchTo(loopEntry)
             /\ UNCHANGED <<classVars, bc, jitVars>> /\ invoked' = NoCall

LoopCompile == /\ HasLoop /\ Running /\ Top.code = 0
               /\ loopEntry = 0 /\ Emit(Top.self, TRUE)
               /\ loopEntry' = Len(codes) + 1 /\ SwitchTo(Len(codes) + 1)
               /\ UNCHANGED <<classVars, bc, entry>> /\ invoked' = NoCall

(* Back to the interpreter: LoopEnd of a loop's code, or a guard that has    *)
(* nothing to do with calls.                                                 *)
Deopt == /\ Running /\ Top.code # 0 /\ SwitchTo(0)
         /\ UNCHANGED <<classVars, bc, jitVars>> /\ invoked' = NoCall
-----------------------------------------------------------------------------
(* Calls.  r is the receiver; at a self site it is the activation's self.    *)

IsReceiver(s, r)   == s \in SelfSites => r = Top.self
Invoke(s, r, f)    == invoked' = [site |-> s, recv |-> r, func |-> f]
InVm(s, r)         == Running /\ Top.code = 0 /\ IsReceiver(s, r)
InJit(s, r)        == Running /\ Top.code # 0 /\ IsReceiver(s, r)
CodeOf(s)          == codes[Top.code].site[s]
Found(s, r)        == Resolve(methods, classOf[r], s)

VmCallHit(s, r) == /\ InVm(s, r) /\ Hits(bc[s], classOf[r])
                   /\ Invoke(s, r, bc[s].func)
                   /\ UNCHANGED <<classVars, bc, jitVars, frames>>

VmCallSlow(s, r) == /\ InVm(s, r) /\ ~Hits(bc[s], classOf[r])
                    /\ Found(s, r) \in Accepts[s]
                    /\ bc' = [bc EXCEPT ![s] = Fill(classOf[r], Found(s, r))]
                    /\ Invoke(s, r, Found(s, r))
                    /\ UNCHANGED <<classVars, jitVars, frames>>

(* No method, or a wrong number of arguments: the error unwinds every        *)
(* activation (nothing rescues), and no cache is touched.                    *)
VmCallError(s, r) == /\ InVm(s, r) /\ ~Hits(bc[s], classOf[r])
                     /\ Found(s, r) = NoFunc
                     /\ Invoke(s, r, NoFunc) /\ frames' = <<>>
                     /\ UNCHANGED <<classVars, bc, jitVars>>

(* Mutated: the class guard omitted for every receiver. *)
GuardsPassAnyClass(s, r) == CodeOf(s).cache.version = version

(* gen_call_cached and gen_inlinable: class guard unless the receiver is     *)
(* self, version guard.                                                      *)
GuardsPass(s, r) == /\ s \in SelfSites \/ classOf[r] = CodeOf(s).cache.class
                    /\ CodeOf(s).cache.version = version

JitCallGuarded(s, r) == /\ InJit(s, r) /\ CodeOf(s).form # "uncached"
                        /\ GuardsPass(s, r)
                        /\ Invoke(s, r, CodeOf(s).cache.func)
                        /\ UNCHANGED <<classVars, bc, jitVars, frames>>

JitCallDeopt(s, r) == /\ InJit(s, r) /\ CodeOf(s).form # "uncached"
                      /\ ~GuardsPass(s, r) /\ SwitchTo(0)
                      /\ UNCHANGED <<classVars, bc, jitVars>> /\ invoked' = NoCall

(* gen_call_not_cached: the class compared with the site's own cache, and    *)
(* stored in it, is the self class of the code when the receiver is self.    *)
KeyClass(s, r) == IF s \in SelfSites THEN codes[Top.code].self ELSE classOf[r]

JitCallHit(s, r) == /\ InJit(s, r) /\ CodeOf(s).form = "uncached"
                    /\ Hits(CodeOf(s).cache, KeyClass(s, r))
                    /\ Invoke(s, r, CodeOf(s).cache.func)
                    /\ UNCHANGED <<classVars, bc, jitVars, frames>>

Patched(k, s, cache) == [codes EXCEPT ![k].site[s].cache = cache]

(* The slow path resolves for the real receiver.                             *)
JitCallSlow(s, r) == /\ InJit(s, r) /\ CodeOf(s).form = "uncached"
                     /\ ~Hits(CodeOf(s).cache, KeyClass(s, r))
                     /\ Found(s, r) \in Accepts[s]
                     /\ codes' = Patched(Top.code, s, Fill(KeyClass(s, r), Found(s, r)))
                     /\ Invoke(s, r, Found(s, r))
                     /\ UNCHANGED <<classVars, bc, entry, loopEntry, frames>>

JitCallError(s, r) == /\ InJit(s, r) /\ CodeOf(s).form = "uncached"
                      /\ ~Hits(CodeOf(s).cache, KeyClass(s, r))
                      /\ Found(s, r) = NoFunc
                      /\ Invoke(s, r, NoFunc) /\ frames' = <<>>
                      /\ UNCHANGED <<classVars, bc, jitVars>>

(* recompile_and_deopt, at a site that had no callee when it was compiled:   *)
(* the whole method or the loop is compiled again, for the class self has    *)
(* now, and this activation goes back to the interpreter.                    *)
Recompile(s) == /\ Running /\ Top.code # 0 /\ CodeOf(s).retry
                /\ Emit(Top.self, codes[Top.code].loop) /\ SwitchTo(0)
                /\ \/ /\ ~codes[Top.code].loop
                      /\ entry' = Len(codes) + 1 /\ UNCHANGED loopEntry
                   \/ /\ codes[Top.code].loop
                      /\ loopEntry' = Len(codes) + 1 /\ UNCHANGED entry
                /\ UNCHANGED <<classVars, bc>> /\ invoked' = NoCall
-----------------------------------------------------------------------------
Next ==
    \/ \E c \in Reopened, n \in Names, f \in Funcs :
           DefineMethod(c, n, f) \/ DefineAttr(c, n, f)
    \/ \E o \in Openable : OpenSingleton(o)
    \/ \E o \in Objs : EnterVm(o) \/ EnterCompile(o) \/ EnterJit(o) \/ EnterSideExit(o)
    \/ Return \/ LoopStart \/ LoopCompile \/ Deopt
    \/ \E s \in Sites, r \in Objs :
           \/ VmCallHit(s, r) \/ VmCallSlow(s, r) \/ VmCallError(s, r)
           \/ JitCallGuarded(s, r) \/ JitCallDeopt(s, r)
           \/ JitCallHit(s, r) \/ JitCallSlow(s, r) \/ JitCallError(s, r)
    \/ \E s \in Sites : Recompile(s)

Spec == Init /\ [][Next]_vars
-----------------------------------------------------------------------------
(* Properties.                                                              *)

(* A filled cache was filled by a resolution, now or before; if the version  *)
(* it was filled at is current, resolution still finds its callee.           *)
Coherent(s, cache) ==
    cache # EmptyCache =>
        /\ cache.func \in Accepts[s]
        /\ cache.version <= version
        /\ cache.version = version => cache.func = Resolve(methods, cache.class, s)

(* No definition leaves a stale inline cache or a stale compiled callee      *)
(* behind: whenever the version in the cache of a bytecode site, of a        *)
(* guarded JIT site or of a self-modifying JIT site with an explicit         *)
(* receiver is current, its callee is the method resolution finds for the    *)
(* cached class.                                                             *)
CachesCoherent ==
    /\ \A s \in Sites : Coherent(s, bc[s])
    /\ \A k \in DOMAIN codes, s \in Sites :
          \/ s \in SelfSites /\ codes[k].site[s].form = "uncached"
          \/ Coherent(s, codes[k].site[s].cache)

(* A call with an explicit receiver, and every call the interpreter makes,   *)
(* invokes the method that resolution finds for the receiver at that moment, *)
(* whichever tier runs it.                                                   *)
DispatchStep ==
    invoked' # NoCall
       => \/ invoked'.func = Resolve(methods, classOf[invoked'.recv], invoked'.site)
          \/ invoked'.site \in SelfSites /\ Top.code # 0
ReceiverDispatch == [][DispatchStep]_vars

(* "If recv is *self*, a recv's class is guaranteed to be ctx.self_class":   *)
(* compiled code runs only for a self of the class it was compiled for.      *)
SelfClassGuaranteed ==
    \A i \in DOMAIN frames :
        frames[i].code # 0 => classOf[frames[i].self] = codes[frames[i].code].self

(* Every call, self calls from compiled code included, is a call of the      *)
(* Ruby-level semantics; compilation, deoptimization and cache updates are   *)
(* invisible.                                                                *)
Ruby == INSTANCE RubyDispatch
ImplementsRuby == Ruby!Spec

(* "Thus, we can omit a class guard": a self call also invokes the method    *)
(* that resolution finds for self.                                           *)
SelfDispatch ==
    [][invoked' # NoCall =>
         invoked'.func = Resolve(methods, classOf[invoked'.recv], invoked'.site)]_vars
=============================================================================
