----------------------------- MODULE ConstCache -----------------------------
(***************************************************************************)
(* Constants: a table per class, lookup along the stack of class contexts, *)
(* class definitions, the inline cache of each constant site, and the      *)
(* caches in the machine code compiled for a site.                         *)
(*                                                                         *)
(* A site may be executed at any time, in whatever context its method is   *)
(* called from: the stack of class contexts belongs to the Executor, not   *)
(* to the method.  After an error the same Executor runs the next input,   *)
(* as the interactive front end does.                                      *)
(***************************************************************************)
EXTENDS Integers, Sequences
CONSTANTS
    Classes, Object,    \* a class object and its id are the same here
    Plain, Floats,      \* the other values, and those that are Floats
    Absent,             \* None
    Names,
    Sites,
    Path,               \* [Sites -> Paths]: the expression at a site
    NoPrefix, NoCode, NoLoad,
    InitClasses, InitConsts,
    MaxStores,          \* bound: assignments of constants
    MaxContext          \* bound: nested class contexts, leaked ones included

VARIABLES
    consts,     \* ClassInfo::constants
    classes,    \* the classes that exist
    version,    \* Codegen.const_version
    context,    \* Executor::lexical_class
    bodies,     \* the class bodies being executed, outermost first
    leaked,     \* contexts that were current when the last error was raised
    cache,      \* ConstSiteInfo::cache
    last,       \* the value the interpreter last wrote into the site's bytecode
    code,       \* the caches in the code compiled for the site
    loaded      \* the site and value of the load the last step made

vars == <<consts, classes, version, context, bodies, leaked, cache, last, code, loaded>>
tableVars == <<consts, classes, version>>
stackVars == <<context, bodies, leaked>>
cacheVars == <<cache, last, code>>

Values == Classes \cup Plain
\* ::N, ::P::N, N and P::N; longer prefixes repeat the step from P to N.
Paths  == [toplevel : BOOLEAN, prefix : Names \cup {NoPrefix}, name : Names]
Caches == [version : -1..MaxStores, value : Values \cup {Absent}]
Codes  == [float : BOOLEAN, version : -1..MaxStores,
           value : Values \cup {Absent}, num : Floats \cup {Absent}]
Loads  == [site : Sites, value : Values \cup {Absent}]
Tables == [Classes -> [Names -> Values \cup {Absent}]]

ASSUME ConstAssumption ==
    /\ Object \in InitClasses /\ InitClasses \subseteq Classes
    /\ Floats \subseteq Plain
    /\ Classes \cap Plain = {} /\ Absent \notin Values
    /\ Path \in [Sites -> Paths] /\ NoPrefix \notin Names
    /\ NoCode \notin Codes /\ NoLoad \notin Loads
    /\ InitConsts \in Tables
    /\ MaxStores \in Nat /\ MaxContext \in Nat

TypeOK ==
    /\ consts \in Tables
    /\ classes \subseteq Classes /\ Object \in classes
    /\ version \in 0..MaxStores
    /\ context \in Seq(Classes) /\ Len(context) <= MaxContext
    /\ bodies \in Seq(Classes) /\ leaked \in Seq(Classes)
    /\ cache \in [Sites -> Caches]
    /\ last \in [Sites -> Values \cup {Absent}]
    /\ code \in [Sites -> Codes \cup {NoCode}]
    /\ loaded \in Loads \cup {NoLoad}

Init ==
    /\ consts = InitConsts /\ classes = InitClasses /\ version = 0
    /\ context = <<>> /\ bodies = <<>> /\ leaked = <<>>
    /\ cache = [s \in Sites |-> [version |-> -1, value |-> Absent]]
    /\ last = [s \in Sites |-> Absent]
    /\ code = [s \in Sites |-> NoCode]
    /\ loaded = NoLoad
-----------------------------------------------------------------------------
(* Lookup.                                                                  *)

(* The innermost class context that has the constant, or else Object. *)
Innermost(name) ==
    {i \in DOMAIN context : /\ consts[context[i]][name] # Absent
                            /\ \A j \in DOMAIN context :
                                  j > i => consts[context[j]][name] = Absent}
Lexical(name) ==
    IF Innermost(name) = {} THEN consts[Object][name]
    ELSE consts[context[CHOOSE i \in Innermost(name) : TRUE]][name]

First(toplevel, name) == IF toplevel THEN consts[Object][name] ELSE Lexical(name)

(* find_constant; Absent is its error, also when the prefix is not a class. *)
Find(s) ==
    LET p == Path[s]
        parent == First(p.toplevel, p.prefix)
    IN  IF p.prefix = NoPrefix THEN First(p.toplevel, p.name)
        ELSE IF parent \in Classes THEN consts[parent][p.name] ELSE Absent
-----------------------------------------------------------------------------
(* Assignments and class definitions.                                       *)

Current == IF context = <<>> THEN Object ELSE context[Len(context)]

SetConstant(n, v) == consts' = [consts EXCEPT ![Current][n] = v]

(* Mutated: the version is bumped only when the constant is a new one. *)
StoreConstOnce(n, v) ==
    /\ version < MaxStores
    /\ version' = IF consts[Current][n] = Absent THEN version + 1 ELSE version
    /\ SetConstant(n, v)
    /\ loaded' = NoLoad /\ UNCHANGED <<classes, stackVars, cacheVars>>

StoreConst(n, v) ==
    /\ version < MaxStores
    /\ version' = version + 1
    /\ SetConstant(n, v)
    /\ loaded' = NoLoad /\ UNCHANGED <<classes, stackVars, cacheVars>>

EnterBody(c) ==
    /\ Len(context) < MaxContext
    /\ context' = Append(context, c) /\ bodies' = Append(bodies, c)
    /\ loaded' = NoLoad /\ UNCHANGED <<version, leaked, cacheVars>>

(* class N ... end, for a class that exists in the current context ...      *)
ReopenClass(n) ==
    /\ consts[Current][n] \in Classes
    /\ EnterBody(consts[Current][n])
    /\ UNCHANGED <<consts, classes>>

(* ... and for a new one, c: the constant is set, const_version is not bumped. *)
CreateClass(n, c) ==
    /\ consts[Current][n] = Absent /\ c \notin classes
    /\ classes' = classes \cup {c}
    /\ SetConstant(n, c)
    /\ EnterBody(c)

(* An error unwinds every activation; the class contexts stay. *)
Unwind == bodies' = <<>> /\ leaked' = context /\ UNCHANGED context

(* Mutated: the context is pushed before the definition is checked. *)
ClassFailsPushed(n) ==
    /\ Len(context) < MaxContext /\ context' = Append(context, Object)
    /\ bodies' = <<>> /\ leaked' = context
    /\ loaded' = NoLoad /\ UNCHANGED <<tableVars, cacheVars>>

(* define_class refuses: N is not a class, or not one with the superclass   *)
(* given, or the superclass is not a class.                                 *)
ClassFails(n) ==
    /\ Unwind
    /\ loaded' = NoLoad /\ UNCHANGED <<tableVars, cacheVars>>

(* The end of a class body. *)
LeaveBody ==
    /\ bodies # <<>>
    /\ bodies' = SubSeq(bodies, 1, Len(bodies) - 1)
    /\ context' = SubSeq(context, 1, Len(context) - 1)
    /\ loaded' = NoLoad /\ UNCHANGED <<tableVars, leaked, cacheVars>>
-----------------------------------------------------------------------------
(* Loads by the interpreter.                                                *)

Loaded(s, v) == loaded' = [site |-> s, value |-> v]

VmHit(s) ==
    /\ cache[s].version = version
    /\ Loaded(s, cache[s].value)
    /\ last' = [last EXCEPT ![s] = cache[s].value]
    /\ UNCHANGED <<tableVars, stackVars, cache, code>>

(* Mutated: the result is cached even when there is none. *)
VmErrorCached(s) ==
    /\ cache[s].version # version /\ Find(s) = Absent
    /\ cache' = [cache EXCEPT ![s] = [version |-> version, value |-> Absent]]
    /\ Loaded(s, Absent) /\ Unwind
    /\ UNCHANGED <<tableVars, last, code>>

VmMiss(s) ==
    /\ cache[s].version # version /\ Find(s) # Absent
    /\ cache' = [cache EXCEPT ![s] = [version |-> version, value |-> Find(s)]]
    /\ Loaded(s, Find(s))
    /\ last' = [last EXCEPT ![s] = Find(s)]
    /\ UNCHANGED <<tableVars, stackVars, code>>

VmError(s) ==
    /\ cache[s].version # version /\ Find(s) = Absent
    /\ Loaded(s, Absent) /\ Unwind
    /\ UNCHANGED <<tableVars, cacheVars>>
-----------------------------------------------------------------------------
(* Loads by compiled code.                                                  *)

(* The JIT compiles the site, as a load of a Float if the interpreter saw   *)
(* one last.  Later compilations start with caches of their own again; a    *)
(* piece of code that still runs is another site with the same path.        *)
Compile(s) ==
    /\ code' = [code EXCEPT ![s] = [float |-> last[s] \in Floats, version |-> -1,
                                    value |-> Absent, num |-> Absent]]
    /\ loaded' = NoLoad /\ UNCHANGED <<tableVars, stackVars, cache, last>>

JitStale(s) == code[s] # NoCode /\ code[s].version # version

JitHit(s) ==
    /\ code[s] # NoCode /\ code[s].version = version
    /\ Loaded(s, code[s].value)
    /\ UNCHANGED <<tableVars, stackVars, cacheVars>>

JitMiss(s) ==
    /\ JitStale(s) /\ ~code[s].float /\ Find(s) # Absent
    /\ code' = [code EXCEPT ![s].version = version, ![s].value = Find(s)]
    /\ Loaded(s, Find(s))
    /\ UNCHANGED <<tableVars, stackVars, cache, last>>

(* Mutated: the conversion to a number never side-exits. *)
JitMissFloatUnchecked(s) ==
    /\ JitStale(s) /\ code[s].float /\ Find(s) # Absent
    /\ code' = [code EXCEPT ![s].version = version, ![s].value = Find(s),
                            ![s].num = Find(s)]
    /\ Loaded(s, Find(s))
    /\ UNCHANGED <<tableVars, stackVars, cache, last>>

JitMissFloat(s) ==
    /\ JitStale(s) /\ code[s].float /\ Find(s) \in Floats
    /\ code' = [code EXCEPT ![s].version = version, ![s].value = Find(s),
                            ![s].num = Find(s)]
    /\ Loaded(s, Find(s))
    /\ UNCHANGED <<tableVars, stackVars, cache, last>>

(* Mutated: the version is stored together with the value. *)
JitFloatDeoptVersioned(s) ==
    /\ JitStale(s) /\ code[s].float /\ Find(s) \in Values \ Floats
    /\ code' = [code EXCEPT ![s].version = version, ![s].value = Find(s)]
    /\ loaded' = NoLoad /\ UNCHANGED <<tableVars, stackVars, cache, last>>

(* A constant that is no longer a Float: the value is cached, then the      *)
(* conversion side-exits to the interpreter, which executes the load again. *)
JitFloatDeopt(s) ==
    /\ JitStale(s) /\ code[s].float /\ Find(s) \in Values \ Floats
    /\ code' = [code EXCEPT ![s].value = Find(s)]
    /\ loaded' = NoLoad /\ UNCHANGED <<tableVars, stackVars, cache, last>>

JitError(s) ==
    /\ JitStale(s) /\ Find(s) = Absent
    /\ Loaded(s, Absent) /\ Unwind
    /\ UNCHANGED <<tableVars, cacheVars>>
-----------------------------------------------------------------------------
Next ==
    \/ \E n \in Names, v \in classes \cup Plain : StoreConst(n, v)
    \/ \E n \in Names : ReopenClass(n) \/ ClassFails(n)
    \/ \E n \in Names, c \in Classes : CreateClass(n, c)
    \/ LeaveBody
    \/ \E s \in Sites :
          \/ VmHit(s) \/ VmMiss(s) \/ VmError(s)
          \/ Compile(s) \/ JitHit(s) \/ JitMiss(s) \/ JitMissFloat(s)
          \/ JitFloatDeopt(s) \/ JitError(s)

Spec == Init /\ [][Next]_vars
-----------------------------------------------------------------------------
(* Properties.                                                              *)

Bound(name, v) == v \in Values /\ \E c \in Classes : consts[c][name] = v

(* A cache whose version is current holds a value that its constant's name  *)
(* is bound to now, in some class, although class definitions set constants *)
(* without bumping the version; and a Float cached in machine code is the   *)
(* number of the Value cached beside it.                                    *)
CachesBound ==
    \A s \in Sites :
        /\ cache[s].version = version => Bound(Path[s].name, cache[s].value)
        /\ code[s] # NoCode /\ code[s].version = version =>
              /\ Bound(Path[s].name, code[s].value)
              /\ code[s].float => code[s].num = code[s].value

(* The class contexts are those an earlier error left behind followed by    *)
(* the class bodies being executed.                                         *)
ContextCoversBodies == context = leaked \o bodies

(* The value of a constant expression that starts at the top level is the   *)
(* one lookup finds, in both tiers and whatever was cached before.          *)
QualifiedFresh ==
    [][loaded' # NoLoad /\ Path[loaded'.site].toplevel
         => loaded'.value = Find(loaded'.site)]_vars

(* A constant whose name is bound in one class only is read as that binding *)
(* wherever lookup finds it: caches can go stale by shadowing only.         *)
Shadowed(name) ==
    \E c, d \in Classes : /\ c # d
                          /\ consts[c][name] # Absent /\ consts[d][name] # Absent
UnshadowedFresh ==
    [][loaded' # NoLoad =>
         LET s == loaded'.site
         IN  loaded'.value = Find(s) \/ Find(s) = Absent \/ Shadowed(Path[s].name)]_vars

(* "Find Constant in current class context": the value of every constant    *)
(* expression is the one lookup finds in the context it is evaluated in.    *)
EvaluatedInContext ==
    [][loaded' # NoLoad => loaded'.value = Find(loaded'.site)]_vars
=============================================================================
