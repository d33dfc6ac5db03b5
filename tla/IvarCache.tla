----------------------------- MODULE IvarCache -----------------------------
(***************************************************************************)
(* Instance variables as slots.  A class numbers the names its objects use *)
(* in the order they are first set; an object keeps the values at those    *)
(* numbers, the first few of an ordinary object inside its RValue, the     *)
(* others in a table that grows.  Four kinds of code read and write them,  *)
(* three through a cached (class, number): an ivar instruction in the      *)
(* interpreter, the function of an attr_reader or attr_writer, code        *)
(* compiled from one method body, and the builtins, which look up.         *)
(*                                                                         *)
(* The body's instructions are executed by the interpreter for any self at *)
(* any time.  Compiled code runs in one activation, act; what other code   *)
(* does meanwhile is a step of its own.                                    *)
(***************************************************************************)
EXTENDS Integers, Sequences, FiniteSets
CONSTANTS
    Objs,           \* heap values
    Ordinary,       \* those of kind ObjKind::OBJECT
    Packed,         \* immediates
    Classes, NoClass,
    AlwaysFrozen,   \* ClassId::is_always_frozen; values of theirs may be on the heap
    OnlyPacked,     \* those whose guard lets immediates pass, and no Bignum: Integer
    InitClass,
    Openable,       \* class objects whose class is not a singleton class yet
    SingletonClass, \* [Openable -> Classes]
    Names, Vals, Nil,
    None,           \* Option<Value>::None, which is the word 0
    Raised,         \* a pending FrozenError
    Silent,         \* a FrozenError is pending and the code goes on
    Spurious,       \* control goes to the error exit, and no error is pending
    Presumed,       \* nil, and no variable was looked at
    NoReply,
    InlineIvars,    \* OBJECT_INLINE_IVAR
    Programs,       \* a body with or without a loop, attr methods, values
    MaxCodes        \* bound: compilations of the body or its loop

VARIABLES
    ivarNames,  \* ClassInfo.ivar_names
    classOf,
    inlined,    \* ObjKind.object, of ordinary objects
    table,      \* RValue.var_table (None and the empty vector are alike)
    program,    \* the program executed; it never changes
    bc,         \* the caches of the body's ivar instructions
    stub,       \* the caches of the functions of attr methods
    codes,      \* compiled codes
    act,        \* the running compiled code, 0 = none, and its self
    reply,      \* what the last operation answered
    fault       \* a divergence after which nothing is followed

vars == <<ivarNames, classOf, inlined, table, program, bc, stub, codes, act, reply, fault>>
memVars  == <<ivarNames, inlined, table>>
codeVars == <<classOf, program, codes, act, fault>>

Values     == Objs \cup Packed
Ids        == 0..Cardinality(Names) - 1
InlineIds  == 0..InlineIvars - 1
Filled     == [class : Classes, id : Ids]
EmptyCache == [class |-> NoClass, id |-> 0]
EmptySite  == [class |-> NoClass, id |-> -1]
Caches     == Filled \cup {EmptyCache}
Replies    == {Nil, None, Raised, Silent, Spurious, Presumed} \cup Vals

IvarInstrs == [op : {"load", "store"}, name : Names]
AttrInstrs == [op : {"reader", "writer"}, name : Names, self : BOOLEAN]
AttrMethods == [op : {"reader", "writer"}, name : Names]
IvarSites  == {s \in program.body : s.op \in {"load", "store"}}
AttrSites  == program.body \ IvarSites
Stubs      == program.attrs
Live       == program.values

ASSUME IvarAssumption ==
    /\ Ordinary \subseteq Objs /\ Objs \cap Packed = {}
    /\ NoClass \notin Classes /\ AlwaysFrozen \subseteq Classes
    /\ OnlyPacked \subseteq AlwaysFrozen
    /\ InitClass \in [Values -> Classes]
    /\ \A o \in Packed : InitClass[o] \in AlwaysFrozen
    /\ Openable \subseteq Objs \ Ordinary
    /\ SingletonClass \in [Openable -> Classes \ AlwaysFrozen]
    /\ {Nil, None, Raised, Silent, Spurious, Presumed} \cap Vals = {}
    /\ None \notin {Nil, Raised, Silent, Spurious, Presumed}
    /\ Silent \notin {Nil, Raised, Spurious, Presumed}
    /\ Spurious \notin {Nil, Raised, Presumed} /\ Presumed \notin {Nil, Raised}
    /\ NoReply \notin [op : {"get", "set"}, recv : Values, name : Names, value : Replies]
    /\ InlineIvars \in Nat /\ MaxCodes \in Nat
    /\ \A q \in Programs : /\ q.body \subseteq IvarInstrs \cup AttrInstrs
                             /\ q.attrs \subseteq AttrMethods
                             /\ q.values \subseteq Values /\ q.loop \in BOOLEAN
    /\ IsFiniteSet(Names)

Init ==
    /\ ivarNames = [c \in Classes |-> <<>>]
    /\ classOf = InitClass
    /\ inlined = [o \in Ordinary |-> [i \in InlineIds |-> None]]
    /\ table = [o \in Objs |-> <<>>]
    /\ program \in Programs
    /\ bc = [s \in IvarSites |-> EmptyCache]
    /\ stub = [s \in Stubs |-> EmptyCache]
    /\ codes = <<>>
    /\ act = [self |-> Nil, code |-> 0]
    /\ reply = NoReply /\ fault = "none"
-----------------------------------------------------------------------------
(* The slots of an object and the numbers of a class.                       *)

\* An id is a place in the object, or in the table from TableIndex on.
IsInline(o, id)   == o \in Ordinary /\ id < InlineIvars
TableIndex(o, id) == IF o \in Ordinary THEN id - InlineIvars + 1 ELSE id + 1

\* Mutated: ids of ordinary objects are not shifted where they are read.
GetVar_Unshifted(o, id) ==
    CASE IsInline(o, id)           -> inlined[o][id]
      [] id + 1 \in DOMAIN table[o] -> table[o][id + 1]
      [] OTHER                     -> None

GetVar(o, id) ==
    IF IsInline(o, id) THEN inlined[o][id]
    ELSE IF TableIndex(o, id) \in DOMAIN table[o] THEN table[o][TableIndex(o, id)]
    ELSE None

Resized(t, n) == [i \in 1..(IF n > Len(t) THEN n ELSE Len(t)) |->
                     IF i \in DOMAIN t THEN t[i] ELSE None]

SetVar(o, id, v) ==
    IF IsInline(o, id)
    THEN inlined' = [inlined EXCEPT ![o][id] = v] /\ UNCHANGED table
    ELSE /\ table' = [table EXCEPT ![o] =
                [Resized(@, TableIndex(o, id)) EXCEPT ![TableIndex(o, id)] = v]]
         /\ UNCHANGED inlined

Knows(c, n) == n \in DOMAIN ivarNames[c]

\* Mutated: numbers start from 1.
GetIvarId_FromOne(c, n) ==
    IF Knows(c, n) THEN ivarNames[c][n] ELSE Cardinality(DOMAIN ivarNames[c]) + 1

GetIvarId(c, n) ==
    IF Knows(c, n) THEN ivarNames[c][n] ELSE Cardinality(DOMAIN ivarNames[c])

Number(c, n) ==
    ivarNames' = [ivarNames EXCEPT ![c] =
        [m \in DOMAIN @ \cup {n} |-> IF m = n THEN GetIvarId(c, n) ELSE @[m]]]

OrNil(v) == IF v = None THEN Nil ELSE v
Followed == fault = "none"
Answer(op, o, n, v) == reply' = [op |-> op, recv |-> o, name |-> n, value |-> v]
-----------------------------------------------------------------------------
(* Globals::get_ivar and set_ivar, without a cache, and the two functions   *)
(* with one, c: their answer, and what they leave in the cache.             *)

GetIvar(o, n) ==
    IF o \in Objs /\ Knows(classOf[o], n)
    THEN GetVar(o, ivarNames[classOf[o]][n]) ELSE None

SetIvar(o, n, v) ==
    IF o \in Packed
    THEN Answer("set", o, n, Raised) /\ UNCHANGED memVars
    ELSE /\ Number(classOf[o], n)
         /\ SetVar(o, GetIvarId(classOf[o], n), v)
         /\ Answer("set", o, n, v)

GetWithCache(o, n, c) ==
    IF o \in Objs /\ classOf[o] = c.class THEN GetVar(o, c.id) ELSE GetIvar(o, n)

CacheOfGet(o, n, c) ==
    IF o \in Objs /\ classOf[o] # c.class /\ Knows(classOf[o], n)
    THEN [class |-> classOf[o], id |-> ivarNames[classOf[o]][n]] ELSE c

SetWithCache(o, n, v, c) ==
    IF o \in Objs /\ classOf[o] = c.class
    THEN SetVar(o, c.id, v) /\ Answer("set", o, n, v) /\ UNCHANGED ivarNames
    ELSE SetIvar(o, n, v)

\* Mutated: the cache is filled before the receiver is known to be a heap value.
CacheOfSet_Early(o, n, c) ==
    [class |-> classOf[o], id |-> GetIvarId(classOf[o], n)]

CacheOfSet(o, n, c) ==
    IF o \in Objs /\ classOf[o] # c.class
    THEN [class |-> classOf[o], id |-> GetIvarId(classOf[o], n)] ELSE c
-----------------------------------------------------------------------------
(* Other code: builtins, class changes, calls of attr methods.              *)

InstanceVariableGet(o, n) ==
    /\ Followed
    /\ Answer("get", o, n, OrNil(GetIvar(o, n)))
    /\ UNCHANGED <<memVars, codeVars, bc, stub>>

InstanceVariableSet(o, n, v) ==
    Followed /\ SetIvar(o, n, v) /\ UNCHANGED <<codeVars, bc, stub>>

(* get_ivars: the names of the class whose slot in o is not empty; inspect  *)
(* and instance_variable_defined? read o through it and get_ivar.           *)
NamesIn(o) == IF o \in Objs THEN {n \in DOMAIN ivarNames[classOf[o]] :
                                      GetIvar(o, n) # None} ELSE {}
GetIvars(o) ==
    /\ Followed
    /\ reply' = [op |-> "inspect", recv |-> o,
                 value |-> [n \in NamesIn(o) |-> GetIvar(o, n)]]
    /\ UNCHANGED <<memVars, codeVars, bc, stub>>

(* The class of a class object becomes a singleton class, with no names.    *)
(* The values the object had cannot be reached any more: not followed.      *)
OpenSingleton(o) ==
    /\ Followed /\ classOf[o] # SingletonClass[o]
    /\ IF NamesIn(o) = {}
       THEN classOf' = [classOf EXCEPT ![o] = SingletonClass[o]] /\ UNCHANGED fault
       ELSE fault' = "lost" /\ UNCHANGED classOf
    /\ reply' = NoReply /\ UNCHANGED <<memVars, program, bc, stub, codes, act>>

\* The function of an attr_reader or attr_writer: every call of one, from
\* either tier, that is not compiled in place.
CallReader(s, o) ==
    /\ Followed /\ s.op = "reader"
    /\ Answer("get", o, s.name, OrNil(GetWithCache(o, s.name, stub[s])))
    /\ stub' = [stub EXCEPT ![s] = CacheOfGet(o, s.name, @)]
    /\ UNCHANGED <<memVars, codeVars, bc>>

CallWriter(s, o, v) ==
    /\ Followed /\ s.op = "writer"
    /\ SetWithCache(o, s.name, v, stub[s])
    /\ stub' = [stub EXCEPT ![s] = CacheOfSet(o, s.name, @)]
    /\ UNCHANGED <<codeVars, bc>>
-----------------------------------------------------------------------------
(* The interpreter, executing the body for any self.                        *)

VmLoadIvar(s, o) ==
    /\ Followed /\ s.op = "load"
    /\ Answer("get", o, s.name, OrNil(GetWithCache(o, s.name, bc[s])))
    /\ bc' = [bc EXCEPT ![s] = CacheOfGet(o, s.name, @)]
    /\ UNCHANGED <<memVars, codeVars, stub>>

VmStoreIvar(s, o, v) ==
    /\ Followed /\ s.op = "store"
    /\ SetWithCache(o, s.name, v, bc[s])
    /\ bc' = [bc EXCEPT ![s] = CacheOfSet(o, s.name, @)]
    /\ UNCHANGED <<codeVars, stub>>
-----------------------------------------------------------------------------
(* Compilation.  An ivar instruction keeps what its cache holds now.  A call *)
(* of an attr method is compiled in place, behind a guard for the class the  *)
(* call was cached for, or left a call (NoClass): a self call keeps its      *)
(* class only if it is the class of self, and has no guard.                  *)

Guards(c) == {g \in [AttrSites -> Classes \cup {NoClass}] :
                 \A s \in AttrSites : s.self => g[s] \in {c, NoClass}}

CodesFor(c) == {[self |-> c, cache |-> bc, guard |-> g,
                 attr |-> [s \in AttrSites |-> EmptySite]] : g \in Guards(c)}

\* jit_load_ivar and jit_store_ivar assert that no cache holds an always-frozen
\* class.  A Range, or another heap value of such a class, that the interpreter
\* executed the body for leaves one that does: the compiler panics.
FrozenCached == \E s \in IvarSites : bc[s].class \in AlwaysFrozen

Compile(o) ==
    /\ Followed /\ Len(codes) < MaxCodes
    /\ IF FrozenCached
       THEN fault' = "panics" /\ UNCHANGED codes
       ELSE (\E c \in CodesFor(classOf[o]) : codes' = Append(codes, c)) /\ UNCHANGED fault
    /\ reply' = NoReply
    /\ UNCHANGED <<memVars, classOf, program, bc, stub, act>>

\* guard_class.
Passes(x, c) == classOf[x] = c /\ (c \in OnlyPacked => x \in Packed)

\* The code of the method guards the class of self; LoopStart just jumps.
Enter(o, k) ==
    /\ Followed /\ act.code = 0
    /\ program.loop \/ Passes(o, codes[k].self)
    /\ act' = [self |-> o, code |-> k]
    /\ reply' = NoReply
    /\ UNCHANGED <<memVars, classOf, program, bc, stub, codes, fault>>

\* Return or deoptimization.
Leave ==
    /\ Followed /\ act.code # 0
    /\ act' = [self |-> Nil, code |-> 0] /\ reply' = NoReply
    /\ UNCHANGED <<memVars, classOf, program, bc, stub, codes, fault>>
-----------------------------------------------------------------------------
(* Compiled code.                                                           *)

Code == codes[act.code]

\* Mutated: compiled code never meets a self of another class.
Strays_Never == FALSE

\* self has not (or not any more) the class the code was compiled for.
Strays == classOf[act.self] # Code.self

\* Code that relies on it then reads or writes some other object's layout, or
\* words that are no object's: not followed.
Stray == /\ fault' = "strays" /\ reply' = NoReply
         /\ UNCHANGED <<memVars, classOf, program, bc, stub, codes, act>>

\* A slot inside the RValue is read as a word: no value is the word 0.
Word(o, id) == IF IsInline(o, id) THEN GetVar(o, id) ELSE OrNil(GetVar(o, id))

ForSelf(s) == Code.self = Code.cache[s].class

JitLoadIvar(s) ==
    /\ Followed /\ act.code # 0 /\ s.op = "load"
    /\ \/ ~ForSelf(s) /\ InstanceVariableGet(act.self, s.name)
       \/ ForSelf(s) /\ Strays /\ Stray
       \/ /\ ForSelf(s) /\ ~Strays
          /\ Answer("get", act.self, s.name, Word(act.self, Code.cache[s].id))
          /\ UNCHANGED <<memVars, codeVars, bc, stub>>

JitStoreIvar(s, v) ==
    /\ Followed /\ act.code # 0 /\ s.op = "store"
    /\ \/ ~ForSelf(s) /\ InstanceVariableSet(act.self, s.name, v)
       \/ ForSelf(s) /\ Strays /\ Stray
       \/ /\ ForSelf(s) /\ ~Strays
          /\ SetVar(act.self, Code.cache[s].id, v)
          /\ Answer("set", act.self, s.name, v)
          /\ UNCHANGED <<ivarNames, codeVars, bc, stub>>

(* An attr method compiled in place runs for a receiver x that passed the   *)
(* guard (self is not guarded).  Its own cache is empty until the first     *)
(* execution fills it, and then its class is not looked at again.           *)
InPlace(s, x) ==
    /\ act.code # 0 /\ Code.guard[s] # NoClass
    /\ IF s.self THEN x = act.self ELSE Passes(x, Code.guard[s])

Empty(s) == Code.attr[s].id = -1

KeepSite(s, c) ==
    codes' = [codes EXCEPT ![act.code].attr[s] = IF c.class = NoClass THEN EmptySite ELSE c]

\* A reader is compiled to nil if it is cached for an always-frozen class.
JitReader(s, x) ==
    /\ Followed /\ s.op = "reader" /\ InPlace(s, x)
    /\ \/ s.self /\ Strays /\ Stray
       \/ /\ ~(s.self /\ Strays)
          /\ IF Code.guard[s] \in AlwaysFrozen
             THEN Answer("get", x, s.name, Presumed) /\ UNCHANGED codes
             ELSE IF Empty(s)
             THEN /\ Answer("get", x, s.name, OrNil(GetWithCache(x, s.name, EmptyCache)))
                  /\ KeepSite(s, CacheOfGet(x, s.name, EmptyCache))
             ELSE Answer("get", x, s.name, Word(x, Code.attr[s].id)) /\ UNCHANGED codes
          /\ UNCHANGED <<memVars, classOf, program, bc, stub, act, fault>>

(* The slow path does not look at the error set_instance_var_with_cache     *)
(* returns; after the slot is written outside the RValue, what the function *)
(* left in rax, which is nothing it returned, is tested as if it were one.  *)
(* An immediate that passes the guard of a site a heap value of its class   *)
(* has filled (a Float) is read as the address of an object.                *)
JitWriter(s, x, v) ==
    /\ Followed /\ s.op = "writer" /\ InPlace(s, x)
    /\ \/ s.self /\ Strays /\ Stray
       \/ x \in Packed /\ ~Empty(s) /\ Stray
       \/ /\ ~(s.self /\ Strays) /\ Empty(s)
          /\ IF x \in Packed
             THEN Answer("set", x, s.name, Silent) /\ UNCHANGED memVars
             ELSE SetWithCache(x, s.name, v, EmptyCache)
          /\ KeepSite(s, CacheOfSet(x, s.name, EmptyCache))
          /\ UNCHANGED <<classOf, program, bc, stub, act, fault>>
       \/ /\ ~(s.self /\ Strays) /\ ~Empty(s) /\ x \in Objs
          /\ SetVar(x, Code.attr[s].id, v)
          /\ \E a \in {v} \cup (IF IsInline(x, Code.attr[s].id) THEN {} ELSE {Spurious}) :
                Answer("set", x, s.name, a)
          /\ UNCHANGED <<ivarNames, codeVars, bc, stub>>
-----------------------------------------------------------------------------
OtherCode ==
    \/ \E o \in Live, n \in Names : InstanceVariableGet(o, n)
    \/ \E o \in Live, n \in Names, v \in Vals : InstanceVariableSet(o, n, v)
    \/ \E o \in Live : GetIvars(o)
    \/ \E o \in Openable \cap Live : OpenSingleton(o)
    \/ \E s \in Stubs, o \in Live : CallReader(s, o)
    \/ \E s \in Stubs, o \in Live, v \in Vals : CallWriter(s, o, v)

Interpreter ==
    \/ \E s \in IvarSites, o \in Live : VmLoadIvar(s, o)
    \/ \E s \in IvarSites, o \in Live, v \in Vals : VmStoreIvar(s, o, v)

CompiledCode ==
    \/ \E o \in Live : Compile(o)
    \/ \E o \in Live, k \in DOMAIN codes : Enter(o, k)
    \/ Leave
    \/ \E s \in IvarSites : JitLoadIvar(s)
    \/ \E s \in IvarSites, v \in Vals : JitStoreIvar(s, v)
    \/ \E s \in AttrSites, x \in Live : JitReader(s, x)
    \/ \E s \in AttrSites, x \in Live, v \in Vals : JitWriter(s, x, v)

Next == OtherCode \/ Interpreter \/ CompiledCode

Spec == Init /\ [][Next]_vars
-----------------------------------------------------------------------------
TypeOK ==
    /\ \A c \in Classes : /\ DOMAIN ivarNames[c] \subseteq Names
                          /\ \A n \in DOMAIN ivarNames[c] : ivarNames[c][n] \in Ids
    /\ classOf \in [Values -> Classes]
    /\ inlined \in [Ordinary -> [InlineIds -> Vals \cup {None}]]
    /\ \A o \in Objs : /\ table[o] \in Seq(Vals \cup {None})
                       /\ Len(table[o]) <= Cardinality(Names)
    /\ program \in Programs
    /\ bc \in [IvarSites -> Caches] /\ stub \in [Stubs -> Caches]
    /\ Len(codes) <= MaxCodes
    /\ \A k \in DOMAIN codes :
          /\ codes[k].self \in Classes
          /\ codes[k].cache \in [IvarSites -> Caches]
          /\ codes[k].guard \in Guards(codes[k].self)
          /\ codes[k].attr \in [AttrSites -> Filled \cup {EmptySite}]
    /\ act.code \in 0..Len(codes) /\ (act.code # 0 => act.self \in Values)
    /\ reply # NoReply => reply.op = "inspect" \/ reply.value \in Replies
    /\ fault \in {"none", "lost", "strays", "panics"}

(* Every cache, in the bytecode, in the functions of attr methods, in the   *)
(* bytecode as it was compiled and in machine code, holds the number its    *)
(* class gives its name, for as long as it is used, and an attr method      *)
(* compiled in place is only ever filled for the class its guard lets pass. *)
(* (That no cache holds an always-frozen class, which jit_load_ivar and     *)
(* jit_store_ivar assert, is not so: see FrozenCached.)                     *)
Right(c, n) == c \in Filled => Knows(c.class, n) /\ ivarNames[c.class][n] = c.id
CachesNameSlots ==
    /\ \A s \in IvarSites : Right(bc[s], s.name)
    /\ \A s \in Stubs : Right(stub[s], s.name)
    /\ \A k \in DOMAIN codes :
          /\ \A s \in IvarSites : Right(codes[k].cache[s], s.name)
          /\ \A s \in AttrSites : /\ Right(codes[k].attr[s], s.name)
                                  /\ ~codes[k].attr[s] = EmptySite
                                       => codes[k].attr[s].class = codes[k].guard[s]

(* Every value an object holds is the value of exactly one name of its      *)
(* class: no write lands in a slot that nobody can read, and no two names   *)
(* share one.                                                               *)
NamedBy(o, id) == {n \in DOMAIN ivarNames[classOf[o]] : ivarNames[classOf[o]][n] = id}
EverySlotNamed ==
    \A o \in Objs, id \in Ids :
        GetVar(o, id) # None => Cardinality(NamedBy(o, id)) = 1

(* Slots, caches and compilation are invisible: every operation of any tier *)
(* answers what IvarStore answers.  The answers are compared after AsRuby,  *)
(* which names the four ways compiled code is known to differ: an empty     *)
(* slot inside the RValue is the word 0 and not nil; the error of a write   *)
(* to an immediate is not raised; a write outside the RValue may leave for  *)
(* the error exit; and a reader cached for an always-frozen class answers   *)
(* nil, though heap values of such classes keep what is set.                *)
AsRuby(v, o, n) ==
    CASE v = Spurious                -> GetIvar(o, n)
      [] v = Presumed                -> OrNil(GetIvar(o, n))
      [] v = Silent                  -> Raised
      [] v \notin {Spurious, Presumed, Silent} -> OrNil(v)
Observed ==
    IF reply = NoReply THEN NoReply
    ELSE IF reply.op = "inspect" THEN reply
    ELSE [reply EXCEPT !.value = AsRuby(reply.value, reply.recv, reply.name)]

StoreOf == [o \in Objs |-> [n \in Names |-> GetIvar(o, n)]]
Ruby == INSTANCE IvarStore WITH store <- StoreOf, reply <- Observed, Unset <- None
ImplementsStore == Ruby!Spec
=============================================================================
