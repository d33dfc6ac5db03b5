------------------------ MODULE MethodDispatchProofs ------------------------
(***************************************************************************)
(* Theorems of MethodDispatch, for every instance of its constants.        *)
(*                                                                         *)
(* CachesStayCoherent and ReceiverCallsResolve hold of the code as it is.  *)
(* SelfClassIsStable and DispatchRefinesRuby hold under the assumptions    *)
(* the JIT makes silently, collected in StableSelf: the body has no loop   *)
(* that is compiled on its own, the class of self never changes, and no    *)
(* inlinable builtin is called on self.                                    *)
(***************************************************************************)
EXTENDS MethodDispatch, SequenceTheorems, TLAPS

(* The class version does not wrap around within the bound on definitions.  *)
LEMMA NoWrap == ASSUME NEW v \in 0..MaxDefs, v < MaxDefs
                PROVE  (v + 1) % VersionMod = v + 1
BY DispatchAssumption, SMT

(* Whatever method resolution accepts is a function. *)
LEMMA AcceptedIsFunc == ASSUME NEW s \in Sites, NEW x \in Accepts[s]
                        PROVE  x \in Funcs /\ x # NoFunc
BY LookupAssumption

(* The JIT emits well-formed code for any well-formed bytecode cache. *)
LEMMA SiteCodeType == ASSUME TypeOK, NEW s \in Sites, NEW cls \in Classes
                      PROVE  CompileSite(s, cls) \in SiteCodes
<1>1. bc[s] \in Caches /\ EmptyCache \in Caches
  BY DEF TypeOK, Caches
<1>2. bc[s].func # NoFunc => bc[s] \in FilledCaches
  BY <1>1 DEF Caches, EmptyCache
<1>3. Inlinable \subseteq Funcs /\ NoFunc \notin Inlinable
  BY DispatchAssumption, LookupAssumption DEF Funcs
<1> QED
  BY <1>1, <1>2, <1>3 DEF CompileSite, SiteCodes, Guarded, Uncached

LEMMA EmitType == ASSUME TypeOK, NEW o \in Objs, NEW loop \in BOOLEAN, Emit(o, loop)
                  PROVE  /\ codes' \in Seq(Codes)
                         /\ Len(codes') = Len(codes) + 1
                         /\ Len(codes') <= MaxCodes
<1> DEFINE new == [loop |-> loop, self |-> classOf[o],
                   site |-> [s \in Sites |-> CompileSite(s, classOf[o])]]
<1>1. classOf[o] \in Classes BY DEF TypeOK
<1>2. new \in Codes BY <1>1, SiteCodeType DEF Codes
<1>3. codes' = Append(codes, new) /\ Len(codes) < MaxCodes BY DEF Emit
<1> HIDE DEF new
<1> QED BY <1>2, <1>3, DispatchAssumption DEF TypeOK

LEMMA FrameFacts == ASSUME TypeOK
                    PROVE  /\ Len(frames) \in Nat /\ Len(codes) \in Nat
                           /\ DOMAIN frames = 1..Len(frames)
                           /\ \A i \in 1..Len(frames) :
                                 frames[i] \in Frames /\ frames[i].code \in 0..Len(codes)
<1>1. frames \in Seq(Frames) /\ codes \in Seq(Codes) BY DEF TypeOK
<1>2. \A i \in 1..Len(frames) : frames[i] \in Frames BY <1>1, ElementOfSeq
<1>3. DOMAIN frames = 1..Len(frames) /\ Len(frames) \in Nat /\ Len(codes) \in Nat
  BY <1>1, LenProperties
<1>4. ASSUME NEW i \in 1..Len(frames) PROVE frames[i].code \in 0..Len(codes)
  <2>1. frames[i].code \in 0..MaxCodes BY <1>2 DEF Frames
  <2>2. frames[i].code <= Len(codes) BY <1>3 DEF TypeOK
  <2> QED BY <1>3, <2>1, <2>2, DispatchAssumption
<1> QED BY <1>2, <1>3, <1>4

(* Inside an activation, the top frame is a frame. *)
LEMMA TopType == ASSUME TypeOK, Running
                 PROVE  /\ Len(frames) \in 1..Len(frames)
                        /\ Top \in Frames /\ Top.code <= Len(codes)
BY DEF TypeOK, Running, Top

LEMMA SwitchType == ASSUME TypeOK, Running, NEW k \in 0..MaxCodes, SwitchTo(k)
                    PROVE  /\ frames' \in Seq(Frames)
                           /\ Len(frames') = Len(frames)
                           /\ \A i \in DOMAIN frames' :
                                 /\ frames'[i].self = frames[i].self
                                 /\ frames'[i].code \in {k, frames[i].code}
                           /\ frames'[Len(frames)].code = k
                           /\ \A i \in 1..Len(frames) - 1 : frames'[i] = frames[i]
<1> DEFINE n == Len(frames)
           top == [frames[n] EXCEPT !.code = k]
<1>1. frames \in Seq(Frames) /\ n \in 1..Len(frames)
  BY TopType DEF TypeOK
<1>2. frames[n] \in Frames BY <1>1
<1>3. top \in Frames /\ top.self = frames[n].self /\ top.code = k
  BY <1>2 DEF Frames
<1>4. frames' = [frames EXCEPT ![n] = top] BY DEF SwitchTo
<1> HIDE DEF top, n
<1>5. frames' \in Seq(Frames) /\ Len(frames') = Len(frames)
      /\ \A i \in 1..Len(frames) : frames'[i] = IF i = n THEN top ELSE frames[i]
  BY <1>1, <1>3, <1>4, ExceptSeq
<1> QED BY <1>1, <1>3, <1>5 DEF n

(* The slow path of an uncached JIT site patches the cache of that site and *)
(* changes nothing else of any code.                                        *)
LEMMA PatchType ==
    ASSUME TypeOK, NEW k \in 1..Len(codes), NEW s \in Sites, NEW c \in FilledCaches,
           codes[k].site[s].form = "uncached",
           codes' = Patched(k, s, c)
    PROVE  /\ codes' \in Seq(Codes)
           /\ Len(codes') = Len(codes)
           /\ \A i \in 1..Len(codes) :
                /\ codes'[i].self = codes[i].self
                /\ \A t \in Sites :
                     /\ codes'[i].site[t].form = codes[i].site[t].form
                     /\ codes'[i].site[t].cache =
                          IF i = k /\ t = s THEN c ELSE codes[i].site[t].cache
<1> DEFINE old   == codes[k]
           site  == [old.site[s] EXCEPT !.cache = c]
           sites == [old.site EXCEPT ![s] = site]
           new   == [old EXCEPT !.site = sites]
<1>1. codes \in Seq(Codes) /\ old \in Codes
  BY DEF TypeOK
<1>2. old.site \in [Sites -> SiteCodes] /\ old.site[s] \in Uncached
  BY <1>1 DEF Codes, SiteCodes, Guarded
<1>3. site \in Uncached /\ site.cache = c /\ site.form = "uncached"
  BY <1>2 DEF Uncached, Caches
<1>4. /\ sites \in [Sites -> SiteCodes]
      /\ \A t \in Sites : sites[t] = IF t = s THEN site ELSE old.site[t]
  BY <1>2, <1>3 DEF SiteCodes
<1>5. new \in Codes /\ new.self = old.self /\ new.site = sites
  BY <1>1, <1>4 DEF Codes
<1>6. codes' = [codes EXCEPT ![k] = new]
  BY DEF Patched
<1>7. codes \in Seq(Codes) /\ new \in Codes
  BY <1>1, <1>5
<1> HIDE DEF new
<1>8. /\ [codes EXCEPT ![k] = new] \in Seq(Codes)
      /\ Len([codes EXCEPT ![k] = new]) = Len(codes)
      /\ \A i \in 1..Len(codes) :
            [codes EXCEPT ![k] = new][i] = IF i = k THEN new ELSE codes[i]
  BY <1>7, ExceptSeq
<1>9. /\ codes' \in Seq(Codes) /\ Len(codes') = Len(codes)
      /\ \A i \in 1..Len(codes) : codes'[i] = IF i = k THEN new ELSE codes[i]
  BY <1>6, <1>8, Zenon
<1> QED
  BY <1>3, <1>4, <1>5, <1>9

LEMMA CodeOfType == ASSUME TypeOK, Running, Top.code # 0, NEW s \in Sites
                    PROVE  /\ Top.code \in 1..Len(codes)
                           /\ codes[Top.code] \in Codes
                           /\ CodeOf(s) \in SiteCodes
<1>1. Top.code \in 1..Len(codes)
  BY TopType DEF TypeOK, Frames
<1>2. codes[Top.code] \in Codes
  BY <1>1, ElementOfSeq DEF TypeOK
<1> QED BY <1>1, <1>2 DEF Codes, CodeOf

LEMMA InitType == Init => TypeOK
<1> SUFFICES ASSUME Init PROVE TypeOK
  OBVIOUS
<1>1. EmptyCache \in Caches
  BY DEF Caches
<1> QED
  BY <1>1, LookupAssumption, DispatchAssumption DEF Init, TypeOK

LEMMA InstallType == ASSUME TypeOK, NEW c \in Classes, NEW n \in Names, NEW f \in Funcs,
                            Install(c, n, f)
                     PROVE  TypeOK'
<1>1. methods' \in MethodTables
  BY DEF TypeOK, Install, AddMethod, MethodTables
<1>2. version' \in 0..MaxDefs
  BY NoWrap, DispatchAssumption DEF TypeOK, Install
<1> QED
  BY <1>1, <1>2 DEF TypeOK, Install, jitVars

(* An activation is added, with no code of its own or with existing code. *)
LEMMA PushType == ASSUME TypeOK, NEW o \in Objs, NEW k \in 0..MaxCodes, Push(o, k)
                  PROVE  /\ frames' \in Seq(Frames) /\ Len(frames') <= MaxDepth
                         /\ Len(frames') = Len(frames) + 1
                         /\ frames'[Len(frames) + 1] = [self |-> o, code |-> k]
                         /\ \A i \in 1..Len(frames) : frames'[i] = frames[i]
<1> DEFINE new == [self |-> o, code |-> k]
<1>1. new \in Frames BY DEF Frames
<1>2. frames' = Append(frames, new) /\ Len(frames) < MaxDepth BY DEF Push
<1> HIDE DEF new
<1>3. frames' \in Seq(Frames) /\ Len(frames') = Len(frames) + 1
      /\ frames'[Len(frames) + 1] = new
      /\ \A i \in 1..Len(frames) : frames'[i] = frames[i]
  BY <1>1, <1>2 DEF TypeOK
<1>4. Len(frames') <= MaxDepth
  BY <1>2, <1>3, DispatchAssumption DEF TypeOK
<1> QED BY <1>3, <1>4 DEF new

LEMMA PopType == ASSUME TypeOK, Return
                 PROVE  /\ frames' \in Seq(Frames) /\ Len(frames') = Len(frames) - 1
                        /\ \A i \in 1..Len(frames) - 1 : frames'[i] = frames[i]
<1>1. frames \in Seq(Frames) /\ Len(frames) \in Nat /\ Len(frames) # 0
  BY DEF TypeOK, Return, Running
<1>2. frames' = SubSeq(frames, 1, Len(frames) - 1)
  BY DEF Return
<1> DEFINE n == Len(frames) - 1
<1>3. n \in Nat /\ \A i \in 1..n : frames[i] \in Frames
  BY <1>1
<1> HIDE DEF n
<1>4. /\ SubSeq(frames, 1, n) \in Seq(Frames)
      /\ Len(SubSeq(frames, 1, n)) = n
      /\ \A i \in 1..n : SubSeq(frames, 1, n)[i] = frames[i]
  BY <1>1, <1>3
<1> QED BY <1>2, <1>4 DEF n
-----------------------------------------------------------------------------
(* Type correctness.                                                        *)

(* A step that only switches the code the top activation runs. *)
LEMMA SwitchKeepsType ==
    ASSUME TypeOK, Running, NEW k \in 0..Len(codes), SwitchTo(k),
           UNCHANGED <<classVars, bc, jitVars>>, invoked' = NoCall
    PROVE  TypeOK'
<1>1. k \in 0..MaxCodes /\ Len(codes) \in Nat BY DispatchAssumption DEF TypeOK
<1>2. frames' \in Seq(Frames) /\ Len(frames') = Len(frames)
      /\ \A i \in DOMAIN frames' : frames'[i].code \in {k, frames[i].code}
  BY <1>1, SwitchType
<1>3. \A i \in DOMAIN frames' : frames'[i].code <= Len(codes')
  BY <1>2, <1>1 DEF TypeOK, jitVars
<1> QED BY <1>2, <1>3 DEF TypeOK, classVars, jitVars

(* A step that only adds an activation. *)
LEMMA PushKeepsType ==
    ASSUME TypeOK, NEW o \in Objs, NEW k \in 0..Len(codes), Push(o, k),
           UNCHANGED <<classVars, bc, jitVars>>, invoked' = NoCall
    PROVE  TypeOK'
<1>1. k \in 0..MaxCodes /\ Len(codes) \in Nat BY DispatchAssumption DEF TypeOK
<1>2. /\ frames' \in Seq(Frames) /\ Len(frames') <= MaxDepth
      /\ Len(frames') = Len(frames) + 1
      /\ frames'[Len(frames) + 1] = [self |-> o, code |-> k]
      /\ \A i \in 1..Len(frames) : frames'[i] = frames[i]
  BY <1>1, PushType
<1>3. \A i \in DOMAIN frames' : frames'[i].code <= Len(codes')
  BY <1>1, <1>2 DEF TypeOK, jitVars
<1> QED BY <1>2, <1>3 DEF TypeOK, classVars, jitVars

(* A call that leaves the activations alone, or unwinds them all. *)
LEMMA CallKeepsType ==
    ASSUME TypeOK, NEW s \in Sites, NEW r \in Objs, NEW f \in Funcs \cup {NoFunc},
           Invoke(s, r, f), frames' \in {frames, <<>>},
           UNCHANGED <<classVars, bc, jitVars>>
    PROVE  TypeOK'
<1>1. invoked' \in Calls BY DEF Invoke, Calls
<1>2. CASE frames' = frames BY <1>1, <1>2 DEF TypeOK, classVars, jitVars
<1>3. CASE frames' = <<>> BY <1>1, <1>3, DispatchAssumption DEF TypeOK, classVars, jitVars
<1> QED BY <1>2, <1>3

(* Whatever fills a cache does so with the class of a receiver or of a code, *)
(* the current version and a function.                                       *)
LEMMA FillType == ASSUME TypeOK, NEW cls \in Classes, NEW f \in Funcs
                  PROVE  Fill(cls, f) \in FilledCaches /\ Fill(cls, f) # EmptyCache
<1>1. version \in 0..VersionMod - 1 BY DispatchAssumption DEF TypeOK
<1> QED BY <1>1, LookupAssumption DEF Fill, FilledCaches, EmptyCache

LEMMA HitType == ASSUME NEW c \in Caches, NEW cls \in Classes, Hits(c, cls)
                 PROVE  c \in FilledCaches /\ c # EmptyCache /\ c.func \in Funcs
BY LookupAssumption DEF Caches, FilledCaches, EmptyCache, Hits

(* A compilation adds one code, which takes over the stub, or the loop. *)
LEMMA CompileKeepsType ==
    ASSUME TypeOK, NEW o \in Objs, NEW loop \in BOOLEAN, Emit(o, loop),
           frames' \in Seq(Frames), Len(frames') <= MaxDepth,
           \A i \in DOMAIN frames' : frames'[i].code <= Len(codes) + 1,
           entry' \in {entry, Len(codes) + 1}, loopEntry' \in {loopEntry, Len(codes) + 1},
           UNCHANGED <<classVars, bc>>, invoked' = NoCall
    PROVE  TypeOK'
<1>1. codes' \in Seq(Codes) /\ Len(codes') = Len(codes) + 1 /\ Len(codes') <= MaxCodes
  BY EmitType
<1>2. entry' \in 0..Len(codes') /\ loopEntry' \in 0..Len(codes')
  BY <1>1 DEF TypeOK
<1> QED BY <1>1, <1>2 DEF TypeOK, classVars

LEMMA TypeStep == TypeOK /\ [Next]_vars => TypeOK'
<1> SUFFICES ASSUME TypeOK, [Next]_vars PROVE TypeOK'
  OBVIOUS
<1> USE DEF InVm, InJit
<1>1. ASSUME NEW c \in Reopened, NEW n \in Names, NEW f \in Funcs,
             DefineMethod(c, n, f) \/ DefineAttr(c, n, f)
      PROVE  TypeOK'
  BY <1>1, InstallType, DispatchAssumption DEF DefineMethod, DefineAttr
<1>2. ASSUME NEW o \in Openable, OpenSingleton(o)
      PROVE  TypeOK'
  <2>1. classOf' \in [Objs -> Classes]
    BY <1>2, DispatchAssumption DEF OpenSingleton, TypeOK
  <2> QED BY <1>2, <2>1 DEF OpenSingleton, TypeOK, jitVars
<1>3. ASSUME NEW o \in Objs, EnterVm(o) PROVE TypeOK'
  <2>1. 0 \in 0..Len(codes) BY DEF TypeOK
  <2> QED BY <1>3, <2>1, PushKeepsType DEF EnterVm
<1>4. ASSUME NEW o \in Objs, EnterJit(o) PROVE TypeOK'
  <2>1. entry \in 0..Len(codes) BY DEF TypeOK
  <2> QED BY <1>4, <2>1, PushKeepsType DEF EnterJit
<1>5. ASSUME NEW o \in Objs, EnterSideExit(o) PROVE TypeOK'
  <2>1. 0 \in 0..Len(codes) BY DEF TypeOK
  <2> QED BY <1>5, <2>1, PushKeepsType DEF EnterSideExit
<1>6. ASSUME NEW o \in Objs, EnterCompile(o) PROVE TypeOK'
  <2>1. Len(codes) + 1 \in 0..MaxCodes
    BY <1>6, DispatchAssumption DEF EnterCompile, Emit, TypeOK
  <2>2. /\ frames' \in Seq(Frames) /\ Len(frames') <= MaxDepth
        /\ Len(frames') = Len(frames) + 1
        /\ frames'[Len(frames) + 1] = [self |-> o, code |-> Len(codes) + 1]
        /\ \A i \in 1..Len(frames) : frames'[i] = frames[i]
    <3>1. Push(o, Len(codes) + 1) BY <1>6 DEF EnterCompile
    <3> HIDE DEF Push
    <3> QED BY <2>1, <3>1, PushType
  <2>3. \A i \in DOMAIN frames' : frames'[i].code <= Len(codes) + 1
    <3>1. DOMAIN frames' = 1..Len(frames')
      BY <2>2, LenProperties
    <3> QED BY <2>2, <3>1, FrameFacts
  <2> QED BY <1>6, <2>2, <2>3, CompileKeepsType DEF EnterCompile
<1>7. CASE Return
  <2>1. /\ frames' \in Seq(Frames) /\ Len(frames') = Len(frames) - 1
        /\ \A i \in 1..Len(frames) - 1 : frames'[i] = frames[i]
    BY <1>7, PopType
  <2>2. DOMAIN frames' = 1..Len(frames')
    BY <2>1, LenProperties
  <2>3. Len(frames') <= MaxDepth /\ \A i \in DOMAIN frames' : frames'[i].code <= Len(codes)
    <3>1. Len(frames') <= MaxDepth
      BY <2>1, FrameFacts, DispatchAssumption DEF TypeOK
    <3>2. ASSUME NEW i \in DOMAIN frames' PROVE frames'[i].code <= Len(codes)
      <4>1. i \in 1..Len(frames) - 1 BY <2>1, <2>2
      <4>2. i \in 1..Len(frames) BY <4>1, FrameFacts
      <4> QED BY <2>1, <4>1, <4>2, FrameFacts
    <3> QED BY <3>1, <3>2
  <2> QED BY <1>7, <2>1, <2>3 DEF TypeOK, Return, classVars, jitVars
<1>8. CASE LoopStart
  <2>1. loopEntry \in 0..Len(codes) BY DEF TypeOK
  <2> QED BY <1>8, <2>1, SwitchKeepsType DEF LoopStart
<1>9. ASSUME NEW loop \in BOOLEAN, NEW k \in {0, Len(codes) + 1},
             Running, Emit(Top.self, loop), SwitchTo(k),
             entry' \in {entry, Len(codes) + 1}, loopEntry' \in {loopEntry, Len(codes) + 1},
             UNCHANGED <<classVars, bc>>, invoked' = NoCall
      PROVE  TypeOK'
  <2>1. Top.self \in Objs BY <1>9, TopType DEF Frames
  <2>2. k \in 0..MaxCodes
    BY <1>9, DispatchAssumption DEF Emit, TypeOK
  <2>3. frames' \in Seq(Frames) /\ Len(frames') = Len(frames)
        /\ \A i \in DOMAIN frames' : frames'[i].code \in {k, frames[i].code}
    BY <1>9, <2>2, SwitchType
  <2>4. Len(frames') <= MaxDepth /\ \A i \in DOMAIN frames' : frames'[i].code <= Len(codes) + 1
    <3>1. DOMAIN frames' = 1..Len(frames)
      BY <2>3, LenProperties
    <3>2. Len(frames') <= MaxDepth BY <2>3 DEF TypeOK
    <3>3. ASSUME NEW i \in DOMAIN frames' PROVE frames'[i].code <= Len(codes) + 1
      <4>1. frames[i].code \in 0..Len(codes) /\ Len(codes) \in Nat BY <3>1, FrameFacts
      <4>2. frames'[i].code \in {k, frames[i].code} BY <2>3
      <4>3. CASE k = 0 BY <4>1, <4>2, <4>3
      <4>4. CASE k = Len(codes) + 1 BY <4>1, <4>2, <4>4
      <4> QED BY <4>3, <4>4
    <3> QED BY <3>2, <3>3
  <2> QED BY <1>9, <2>1, <2>3, <2>4, CompileKeepsType
<1>10. CASE LoopCompile
  BY <1>9, <1>10 DEF LoopCompile
<1>11. ASSUME NEW s \in Sites, Recompile(s) PROVE TypeOK'
  <2>1. codes[Top.code].loop \in BOOLEAN
    BY <1>11, CodeOfType DEF Recompile, Codes
  <2> QED BY <1>9, <1>11, <2>1 DEF Recompile
<1>12. CASE Deopt
  <2>1. 0 \in 0..Len(codes) BY DEF TypeOK
  <2> QED BY <1>12, <2>1, SwitchKeepsType DEF Deopt
<1>13. ASSUME NEW s \in Sites, NEW r \in Objs, VmCallHit(s, r) PROVE TypeOK'
  <2>1. bc[s].func \in Funcs
    BY <1>13, HitType DEF VmCallHit, TypeOK
  <2> QED BY <1>13, <2>1, CallKeepsType DEF VmCallHit, jitVars, classVars
<1>14. ASSUME NEW s \in Sites, NEW r \in Objs, VmCallSlow(s, r) PROVE TypeOK'
  <2>1. Found(s, r) \in Funcs /\ classOf[r] \in Classes
    BY <1>14, AcceptedIsFunc DEF VmCallSlow, TypeOK
  <2>2. bc' \in [Sites -> Caches]
    BY <1>14, <2>1, FillType DEF VmCallSlow, TypeOK, Caches
  <2>3. invoked' \in Calls
    BY <1>14, <2>1 DEF VmCallSlow, Invoke, Calls
  <2> QED BY <1>14, <2>2, <2>3 DEF VmCallSlow, TypeOK, jitVars, classVars
<1>15. ASSUME NEW s \in Sites, NEW r \in Objs, VmCallError(s, r) \/ JitCallError(s, r)
       PROVE  TypeOK'
  BY <1>15, CallKeepsType DEF VmCallError, JitCallError
<1>16. ASSUME NEW s \in Sites, NEW r \in Objs, JitCallGuarded(s, r) PROVE TypeOK'
  <2>1. CodeOf(s) \in Guarded
    BY <1>16, CodeOfType DEF JitCallGuarded, SiteCodes, Uncached
  <2>2. CodeOf(s).cache.func \in Funcs
    BY <2>1 DEF Guarded, FilledCaches
  <2> QED BY <1>16, <2>2, CallKeepsType DEF JitCallGuarded
<1>17. ASSUME NEW s \in Sites, NEW r \in Objs, JitCallDeopt(s, r) PROVE TypeOK'
  <2>1. 0 \in 0..Len(codes) BY DEF TypeOK
  <2> QED BY <1>17, <2>1, SwitchKeepsType DEF JitCallDeopt
<1>18. ASSUME NEW s \in Sites, NEW r \in Objs, JitCallHit(s, r) PROVE TypeOK'
  <2>1. CodeOf(s).cache \in Caches
    BY <1>18, CodeOfType DEF JitCallHit, SiteCodes, Guarded, Uncached
  <2>2. KeyClass(s, r) \in Classes
    BY <1>18, CodeOfType DEF JitCallHit, KeyClass, Codes, TypeOK
  <2>3. CodeOf(s).cache.func \in Funcs
    BY <1>18, <2>1, <2>2, HitType DEF JitCallHit
  <2> QED BY <1>18, <2>3, CallKeepsType DEF JitCallHit
<1>19. ASSUME NEW s \in Sites, NEW r \in Objs, JitCallSlow(s, r) PROVE TypeOK'
  <2>1. KeyClass(s, r) \in Classes
    BY <1>19, CodeOfType DEF JitCallSlow, KeyClass, Codes, TypeOK
  <2>2. Found(s, r) \in Funcs
    BY <1>19, AcceptedIsFunc DEF JitCallSlow
  <2>3. Fill(KeyClass(s, r), Found(s, r)) \in FilledCaches
    BY <2>1, <2>2, FillType
  <2>4. codes' \in Seq(Codes) /\ Len(codes') = Len(codes)
    BY <1>19, <2>3, CodeOfType, PatchType DEF JitCallSlow, CodeOf
  <2>5. invoked' \in Calls
    BY <1>19, <2>2 DEF JitCallSlow, Invoke, Calls
  <2> QED BY <1>19, <2>4, <2>5 DEF JitCallSlow, TypeOK, classVars
<1>20. CASE UNCHANGED vars
  BY <1>20 DEF vars, TypeOK
<1> QED
  BY <1>1, <1>2, <1>3, <1>4, <1>5, <1>6, <1>7, <1>8, <1>10, <1>11, <1>12, <1>13,
     <1>14, <1>15, <1>16, <1>17, <1>18, <1>19, <1>20 DEF Next

(* Every reachable state is well-typed: in particular a filled cache always *)
(* holds a function and a class, and no activation runs a code that does    *)
(* not exist.                                                               *)
THEOREM TypeCorrect == Spec => []TypeOK
<1>1. Init => TypeOK BY InitType
<1>2. TypeOK /\ [Next]_vars => TypeOK' BY TypeStep
<1> QED BY <1>1, <1>2, PTL DEF Spec
-----------------------------------------------------------------------------
(* Coherence of the caches.                                                 *)

(* Coherent, for given method tables and a given version.                   *)
CoherentIn(tables, v, s, c) ==
    c # EmptyCache =>
        /\ c.func \in Accepts[s]
        /\ c.version <= v
        /\ c.version = v => c.func = Resolve(tables, c.class, s)

(* CachesCoherent, but for the uncached JIT sites in X. *)
CoherentBut(X) ==
    /\ \A s \in Sites : CoherentIn(methods, version, s, bc[s])
    /\ \A k \in 1..Len(codes), s \in Sites :
          \/ s \in X /\ codes[k].site[s].form = "uncached"
          \/ CoherentIn(methods, version, s, codes[k].site[s].cache)

LEMMA CoherentEquiv == ASSUME TypeOK PROVE CachesCoherent <=> CoherentBut(SelfSites)
<1>1. DOMAIN codes = 1..Len(codes)
  BY LenProperties DEF TypeOK
<1> QED BY <1>1 DEF CachesCoherent, CoherentBut, Coherent, CoherentIn

(* A definition makes every filled cache old, hence harmless.                *)
LEMMA InstallOutdates ==
    ASSUME NEW s \in Sites, NEW c \in Caches, NEW v \in Nat, NEW tables, NEW tables2,
           CoherentIn(tables, v, s, c)
    PROVE  CoherentIn(tables2, v + 1, s, c)
<1>1. c # EmptyCache => c.version \in Nat /\ c.version < v + 1
  BY DispatchAssumption DEF CoherentIn, Caches, FilledCaches
<1> QED BY <1>1, SMT DEF CoherentIn

LEMMA FillCoherent ==
    ASSUME NEW s \in Sites, NEW v \in Nat, NEW tables, NEW cls, NEW c,
           c = [class |-> cls, version |-> v, func |-> Resolve(tables, cls, s)],
           Resolve(tables, cls, s) \in Accepts[s]
    PROVE  CoherentIn(tables, v, s, c)
BY DEF CoherentIn

(* What the JIT emits: the old codes stay, and the cache of each site of the *)
(* new one is a copy of the bytecode's or empty.                             *)
LEMMA EmitAppends ==
    ASSUME TypeOK, NEW o \in Objs, NEW loop \in BOOLEAN, Emit(o, loop)
    PROVE  LET n == Len(codes) IN
           /\ codes' \in Seq(Codes) /\ Len(codes') = n + 1 /\ n \in Nat
           /\ \A i \in 1..n : codes'[i] = codes[i]
           /\ codes'[n + 1].self = classOf[o]
           /\ \A s \in Sites :
                 codes'[n + 1].site[s] = CompileSite(s, classOf[o])
<1> DEFINE new == [loop |-> loop, self |-> classOf[o],
                   site |-> [s \in Sites |-> CompileSite(s, classOf[o])]]
<1>1. codes' = Append(codes, new) /\ codes \in Seq(Codes) /\ codes' \in Seq(Codes)
  BY EmitType DEF Emit, TypeOK
<1>2. new.self = classOf[o] /\ \A s \in Sites : new.site[s] = CompileSite(s, classOf[o])
  OBVIOUS
<1> HIDE DEF new
<1> QED BY <1>1, <1>2

LEMMA CompiledCache == ASSUME NEW s, NEW cls
                       PROVE  CompileSite(s, cls).cache \in {bc[s], EmptyCache}
BY DEF CompileSite

LEMMA CoherentKept ==
    ASSUME NEW X, CoherentBut(X), UNCHANGED <<methods, version, bc, codes>>
    PROVE  CoherentBut(X)'
BY DEF CoherentBut

LEMMA CoherentEmit ==
    ASSUME NEW X, CoherentBut(X), TypeOK, NEW o \in Objs, NEW loop \in BOOLEAN,
           Emit(o, loop), UNCHANGED <<methods, version, bc>>
    PROVE  CoherentBut(X)'
<1>1. ASSUME NEW k \in 1..Len(codes'), NEW s \in Sites
      PROVE  \/ s \in X /\ codes'[k].site[s].form = "uncached"
             \/ CoherentIn(methods, version, s, codes'[k].site[s].cache)
  <2>1. CASE k \in 1..Len(codes)
    BY <2>1, EmitAppends DEF CoherentBut
  <2>2. CASE k = Len(codes) + 1
    <3>1. codes'[k].site[s].cache \in {bc[s], EmptyCache}
      BY <2>2, EmitAppends, CompiledCache
    <3>2. CoherentIn(methods, version, s, bc[s]) /\ CoherentIn(methods, version, s, EmptyCache)
      BY DEF CoherentBut, CoherentIn
    <3> QED BY <3>1, <3>2
  <2> QED BY <2>1, <2>2, EmitAppends
<1> QED BY <1>1 DEF CoherentBut

(* Found is a method of Accepts[s] only when resolution finds it. *)
LEMMA FoundResolves == ASSUME NEW s \in Sites, NEW r \in Objs, Found(s, r) \in Accepts[s]
                       PROVE  Found(s, r) = Resolve(methods, classOf[r], s)
BY DEF Found

(* The inductive step: coherence of every cache but those of X needs, for    *)
(* the self sites outside X, that compiled code only runs for a self of the  *)
(* class it was compiled for.                                                *)
LEMMA CoherentStep ==
    ASSUME NEW X, X = SelfSites \/ SelfClassGuaranteed,
           TypeOK, CoherentBut(X), [Next]_vars
    PROVE  CoherentBut(X)'
<1> USE DEF InVm, InJit
<1>1. ASSUME NEW c \in Reopened, NEW n \in Names, NEW f \in Funcs,
             DefineMethod(c, n, f) \/ DefineAttr(c, n, f)
      PROVE  CoherentBut(X)'
  <2>1. /\ version \in Nat /\ version' = version + 1
        /\ UNCHANGED <<bc, codes>>
    BY <1>1, NoWrap, DispatchAssumption
       DEF DefineMethod, DefineAttr, Install, TypeOK, jitVars
  <2>2. ASSUME NEW s \in Sites PROVE CoherentIn(methods', version', s, bc[s])
    <3>1. bc[s] \in Caches BY DEF TypeOK
    <3> QED BY <2>1, <3>1, InstallOutdates DEF CoherentBut
  <2>3. ASSUME NEW k \in 1..Len(codes), NEW s \in Sites
        PROVE  \/ s \in X /\ codes[k].site[s].form = "uncached"
               \/ CoherentIn(methods', version', s, codes[k].site[s].cache)
    <3>1. codes[k] \in Codes BY ElementOfSeq DEF TypeOK
    <3>2. codes[k].site[s].cache \in Caches
      BY <3>1 DEF Codes, SiteCodes, Guarded, Uncached, Caches
    <3> QED BY <2>1, <3>2, InstallOutdates DEF CoherentBut
  <2> QED BY <2>1, <2>2, <2>3 DEF CoherentBut
<1>2. ASSUME NEW o \in Openable, OpenSingleton(o) PROVE CoherentBut(X)'
  BY <1>2, CoherentKept DEF OpenSingleton, jitVars
<1>3. ASSUME NEW o \in Objs, EnterVm(o) \/ EnterJit(o) \/ EnterSideExit(o)
      PROVE  CoherentBut(X)'
  BY <1>3, CoherentKept DEF EnterVm, EnterJit, EnterSideExit, jitVars, classVars
<1>4. ASSUME NEW o \in Objs, EnterCompile(o) PROVE CoherentBut(X)'
  BY <1>4, CoherentEmit DEF EnterCompile, classVars
<1>5. CASE Return \/ LoopStart \/ Deopt
  BY <1>5, CoherentKept DEF Return, LoopStart, Deopt, jitVars, classVars
<1>6. CASE LoopCompile
  BY <1>6, CoherentEmit, TopType DEF LoopCompile, Frames, classVars
<1>7. ASSUME NEW s \in Sites, Recompile(s) PROVE CoherentBut(X)'
  <2>1. Top.self \in Objs /\ codes[Top.code].loop \in BOOLEAN
    BY <1>7, TopType, CodeOfType DEF Recompile, Frames, Codes
  <2> QED BY <1>7, <2>1, CoherentEmit DEF Recompile, classVars
<1>8. ASSUME NEW s \in Sites, NEW r \in Objs,
             VmCallHit(s, r) \/ VmCallError(s, r) \/ JitCallGuarded(s, r)
             \/ JitCallDeopt(s, r) \/ JitCallHit(s, r) \/ JitCallError(s, r)
      PROVE  CoherentBut(X)'
  BY <1>8, CoherentKept
     DEF VmCallHit, VmCallError, JitCallGuarded, JitCallDeopt, JitCallHit, JitCallError,
         jitVars, classVars
<1>9. ASSUME NEW s \in Sites, NEW r \in Objs, VmCallSlow(s, r) PROVE CoherentBut(X)'
  <2> DEFINE new == Fill(classOf[r], Found(s, r))
  <2>1. bc' = [bc EXCEPT ![s] = new] /\ UNCHANGED <<methods, version, codes>>
    BY <1>9 DEF VmCallSlow, jitVars, classVars
  <2>2. CoherentIn(methods, version, s, new)
    BY <1>9, FillCoherent, FoundResolves DEF VmCallSlow, Fill, TypeOK
  <2>3. \A t \in Sites : bc'[t] = IF t = s THEN new ELSE bc[t]
    BY <2>1 DEF TypeOK
  <2> HIDE DEF new
  <2> QED BY <2>1, <2>2, <2>3 DEF CoherentBut
<1>10. ASSUME NEW s \in Sites, NEW r \in Objs, JitCallSlow(s, r) PROVE CoherentBut(X)'
  <2> DEFINE key == KeyClass(s, r)
             new == Fill(key, Found(s, r))
             k   == Top.code
  <2>1. /\ k \in 1..Len(codes) /\ key \in Classes /\ Found(s, r) \in Funcs
        /\ codes[k].site[s].form = "uncached"
        /\ codes' = Patched(k, s, new)
        /\ UNCHANGED <<methods, version, bc>>
    BY <1>10, CodeOfType, AcceptedIsFunc
       DEF JitCallSlow, CodeOf, KeyClass, Codes, TypeOK, classVars
  <2>2. new \in FilledCaches
    BY <2>1, FillType
  <2>3. \/ s \in X
        \/ CoherentIn(methods, version, s, new)
    <3>1. CASE s \notin SelfSites
      BY <1>10, <3>1, FillCoherent, FoundResolves DEF JitCallSlow, Fill, KeyClass, TypeOK
    <3>2. CASE s \in SelfSites /\ SelfClassGuaranteed
      <4>1. classOf[Top.self] = codes[k].self
        BY <1>10, <3>2, FrameFacts, TopType DEF SelfClassGuaranteed, JitCallSlow, Top
      <4>2. key = classOf[r]
        BY <1>10, <3>2, <4>1 DEF KeyClass, JitCallSlow, IsReceiver
      <4> QED
        BY <1>10, <4>2, FillCoherent, FoundResolves DEF JitCallSlow, Fill, TypeOK
    <3> QED BY <3>1, <3>2
  <2> HIDE DEF new, k, key
  <2>4. /\ Len(codes') = Len(codes)
        /\ \A i \in 1..Len(codes), t \in Sites :
             /\ codes'[i].site[t].form = codes[i].site[t].form
             /\ codes'[i].site[t].cache =
                  IF i = k /\ t = s THEN new ELSE codes[i].site[t].cache
    BY <2>1, <2>2, PatchType
  <2>5. ASSUME NEW i \in 1..Len(codes'), NEW t \in Sites
        PROVE  \/ t \in X /\ codes'[i].site[t].form = "uncached"
               \/ CoherentIn(methods, version, t, codes'[i].site[t].cache)
    <3>1. CASE i = k /\ t = s BY <2>1, <2>3, <2>4, <3>1
    <3>2. CASE ~(i = k /\ t = s) BY <2>4, <3>2 DEF CoherentBut
    <3> QED BY <3>1, <3>2
  <2> QED BY <2>1, <2>5 DEF CoherentBut
<1>11. CASE UNCHANGED vars
  BY <1>11, CoherentKept DEF vars, jitVars
<1> QED
  BY <1>1, <1>2, <1>3, <1>4, <1>5, <1>6, <1>7, <1>8, <1>9, <1>10, <1>11 DEF Next

(* No definition leaves behind a stale cache that would hit: not in the      *)
(* bytecode, not in a guarded JIT site, not in a self-modifying JIT site     *)
(* with an explicit receiver.                                                *)
THEOREM CachesStayCoherent == Spec => []CachesCoherent
<1>1. Init => TypeOK /\ CoherentBut(SelfSites)
  BY InitType DEF Init, CoherentBut, CoherentIn
<1>2. TypeOK /\ CoherentBut(SelfSites) /\ [Next]_vars => (TypeOK /\ CoherentBut(SelfSites))'
  BY TypeStep, CoherentStep
<1>3. TypeOK /\ CoherentBut(SelfSites) => CachesCoherent
  BY CoherentEquiv
<1> QED BY <1>1, <1>2, <1>3, PTL DEF Spec
-----------------------------------------------------------------------------
(* What a call invokes.                                                     *)

(* A coherent cache that hits holds the method resolution finds. *)
LEMMA HitResolves ==
    ASSUME NEW c \in Caches, NEW s \in Sites, NEW cls \in Classes,
           CoherentIn(methods, version, s, c), Hits(c, cls)
    PROVE  c.func = Resolve(methods, cls, s)
BY HitType DEF CoherentIn, Hits

(* The receiver, the site and the callee of a call step. *)
CallsMethod(s, r) ==
    invoked' = [site |-> s, recv |-> r, func |-> Resolve(methods, classOf[r], s)]

LEMMA SlowCalls ==
    ASSUME NEW s \in Sites, NEW r \in Objs,
           VmCallSlow(s, r) \/ VmCallError(s, r) \/ JitCallSlow(s, r) \/ JitCallError(s, r)
    PROVE  CallsMethod(s, r)
BY DEF VmCallSlow, VmCallError, JitCallSlow, JitCallError, Found, Invoke, CallsMethod

LEMMA VmHitCalls ==
    ASSUME NEW X, TypeOK, CoherentBut(X), NEW s \in Sites, NEW r \in Objs, VmCallHit(s, r)
    PROVE  CallsMethod(s, r)
<1>1. bc[s] \in Caches /\ classOf[r] \in Classes BY DEF TypeOK
<1>2. bc[s].func = Resolve(methods, classOf[r], s)
  BY <1>1, HitResolves DEF VmCallHit, CoherentBut
<1> QED BY <1>2 DEF VmCallHit, Invoke, CallsMethod

(* A guarded site invokes the method that resolution finds for the class it  *)
(* was compiled for.                                                         *)
LEMMA GuardedCalls ==
    ASSUME NEW X, TypeOK, CoherentBut(X), NEW s \in Sites, NEW r \in Objs,
           JitCallGuarded(s, r)
    PROVE  invoked' = [site |-> s, recv |-> r,
                       func |-> Resolve(methods, CodeOf(s).cache.class, s)]
<1>1. Top.code \in 1..Len(codes) /\ CodeOf(s) \in Guarded
  BY CodeOfType DEF JitCallGuarded, InJit, SiteCodes, Uncached
<1>2. CodeOf(s).cache \in FilledCaches /\ CodeOf(s).cache # EmptyCache
  BY <1>1, LookupAssumption DEF Guarded, FilledCaches, EmptyCache
<1>3. CoherentIn(methods, version, s, CodeOf(s).cache)
  BY <1>1 DEF CoherentBut, CodeOf, JitCallGuarded
<1> QED BY <1>2, <1>3 DEF CoherentIn, JitCallGuarded, GuardsPass, Invoke

LEMMA JitHitCalls ==
    ASSUME NEW X, TypeOK, CoherentBut(X), NEW s \in Sites, s \notin X, NEW r \in Objs,
           JitCallHit(s, r)
    PROVE  invoked' = [site |-> s, recv |-> r,
                       func |-> Resolve(methods, KeyClass(s, r), s)]
<1>1. Top.code \in 1..Len(codes) /\ CodeOf(s).cache \in Caches
      /\ KeyClass(s, r) \in Classes
  BY CodeOfType
     DEF JitCallHit, InJit, SiteCodes, Guarded, Uncached, Caches, KeyClass, Codes, TypeOK
<1>2. CoherentIn(methods, version, s, CodeOf(s).cache)
  BY <1>1 DEF CoherentBut, CodeOf
<1> QED BY <1>1, <1>2, HitResolves DEF JitCallHit, Invoke

(* Steps that are not calls, and what Next is made of. *)
LEMMA OtherSteps ==
    ASSUME Next
    PROVE  \/ invoked' = NoCall
           \/ \E s \in Sites, r \in Objs :
                \/ VmCallSlow(s, r) \/ VmCallError(s, r)
                \/ JitCallSlow(s, r) \/ JitCallError(s, r)
                \/ VmCallHit(s, r) \/ JitCallGuarded(s, r) \/ JitCallHit(s, r)
BY DEF Next, DefineMethod, DefineAttr, Install, OpenSingleton, EnterVm, EnterCompile,
       EnterJit, EnterSideExit, Return, LoopStart, LoopCompile, Deopt, JitCallDeopt,
       Recompile

(* A call with an explicit receiver, and every call the interpreter makes,   *)
(* invokes the method that resolution finds at that moment, in every         *)
(* instance: with loops, singleton classes and inlinable builtins.           *)
THEOREM ReceiverCallsResolve == Spec => ReceiverDispatch
<1>1. Init => TypeOK /\ CoherentBut(SelfSites)
  BY InitType DEF Init, CoherentBut, CoherentIn
<1>2. TypeOK /\ CoherentBut(SelfSites) /\ [Next]_vars => (TypeOK /\ CoherentBut(SelfSites))'
  BY TypeStep, CoherentStep
<1>3. TypeOK /\ CoherentBut(SelfSites) /\ [Next]_vars => [DispatchStep]_vars
  <2> SUFFICES ASSUME TypeOK, CoherentBut(SelfSites), Next, invoked' # NoCall
               PROVE  DispatchStep
    BY DEF vars, DispatchStep
  <2> PICK s \in Sites, r \in Objs :
        \/ VmCallSlow(s, r) \/ VmCallError(s, r)
        \/ JitCallSlow(s, r) \/ JitCallError(s, r)
        \/ VmCallHit(s, r) \/ JitCallGuarded(s, r) \/ JitCallHit(s, r)
    BY OtherSteps
  <2>1. CallsMethod(s, r) => DispatchStep
    BY DEF CallsMethod, DispatchStep
  <2>2. CASE JitCallGuarded(s, r)
    <3>1. s \in SelfSites \/ CodeOf(s).cache.class = classOf[r]
      BY <2>2 DEF JitCallGuarded, GuardsPass
    <3>2. s \in SelfSites => DispatchStep
      BY <2>2, GuardedCalls DEF DispatchStep, JitCallGuarded, InJit
    <3>3. s \notin SelfSites => CallsMethod(s, r)
      BY <2>2, <3>1, GuardedCalls DEF CallsMethod
    <3> QED BY <2>1, <3>2, <3>3
  <2>3. CASE JitCallHit(s, r)
    <3>1. s \in SelfSites => DispatchStep
      BY <2>3 DEF DispatchStep, JitCallHit, InJit, Invoke
    <3>2. s \notin SelfSites => CallsMethod(s, r)
      BY <2>3, JitHitCalls DEF CallsMethod, KeyClass
    <3> QED BY <2>1, <3>1, <3>2
  <2> QED BY <2>1, <2>2, <2>3, SlowCalls, VmHitCalls
<1> QED BY <1>1, <1>2, <1>3, PTL DEF Spec, ReceiverDispatch
-----------------------------------------------------------------------------
(* Self calls, under the assumptions the JIT makes about self.              *)

StableSelf ==
    /\ ~HasLoop
    /\ Openable = {}
    /\ \A s \in SelfSites \ BlockSites : Accepts[s] \cap Inlinable = {}

(* A self site that was compiled with a callee was compiled for the class of *)
(* self it was cached with, and is not an inlined builtin.                   *)
SelfSitesMatch ==
    \A k \in 1..Len(codes), s \in SelfSites :
        /\ codes[k].site[s].form # "inline"
        /\ codes[k].site[s].form = "cached" => codes[k].site[s].cache.class = codes[k].self

StableInv ==
    /\ TypeOK
    /\ CoherentBut({})
    /\ SelfClassGuaranteed
    /\ SelfSitesMatch

LEMMA CompiledSelfSite ==
    ASSUME StableSelf, TypeOK, CoherentBut({}), NEW s \in SelfSites, NEW cls \in Classes
    PROVE  /\ CompileSite(s, cls).form # "inline"
           /\ CompileSite(s, cls).form = "cached" => CompileSite(s, cls).cache.class = cls
<1>1. s \in Sites /\ bc[s] \in Caches /\ CoherentIn(methods, version, s, bc[s])
  BY DispatchAssumption DEF TypeOK, CoherentBut
<1>2. bc[s].func \in Inlinable => bc[s] # EmptyCache
  BY DispatchAssumption, LookupAssumption DEF EmptyCache, Funcs
<1>3. ~(bc[s].func \in Inlinable /\ s \notin BlockSites)
  BY <1>1, <1>2 DEF CoherentIn, StableSelf
<1> QED BY <1>3 DEF CompileSite

LEMMA MatchEmit ==
    ASSUME StableSelf, TypeOK, CoherentBut({}), SelfSitesMatch,
           NEW o \in Objs, NEW loop \in BOOLEAN, Emit(o, loop)
    PROVE  SelfSitesMatch'
<1>1. ASSUME NEW k \in 1..Len(codes'), NEW s \in SelfSites
      PROVE  /\ codes'[k].site[s].form # "inline"
             /\ codes'[k].site[s].form = "cached"
                   => codes'[k].site[s].cache.class = codes'[k].self
  <2>1. classOf[o] \in Classes /\ s \in Sites BY DispatchAssumption DEF TypeOK
  <2>2. CASE k \in 1..Len(codes) BY <2>2, EmitAppends DEF SelfSitesMatch
  <2>3. CASE k = Len(codes) + 1
    <3>1. /\ codes'[k].self = classOf[o]
          /\ codes'[k].site[s] = CompileSite(s, classOf[o])
      BY <2>1, <2>3, EmitAppends
    <3> QED BY <2>1, <3>1, CompiledSelfSite
  <2> QED BY <2>2, <2>3, EmitAppends
<1> QED BY <1>1 DEF SelfSitesMatch

(* The slow path of an uncached site patches no self class, and no class of  *)
(* a guarded site.                                                           *)
LEMMA SlowPatches ==
    ASSUME TypeOK, NEW s \in Sites, NEW r \in Objs, JitCallSlow(s, r)
    PROVE  /\ Len(codes') = Len(codes)
           /\ \A i \in 1..Len(codes) :
                /\ codes'[i].self = codes[i].self
                /\ \A t \in Sites :
                     /\ codes'[i].site[t].form = codes[i].site[t].form
                     /\ codes[i].site[t].form # "uncached" =>
                          codes'[i].site[t].cache = codes[i].site[t].cache
<1> DEFINE new == Fill(KeyClass(s, r), Found(s, r))
           k   == Top.code
<1>1. /\ k \in 1..Len(codes) /\ KeyClass(s, r) \in Classes /\ Found(s, r) \in Funcs
      /\ codes[k].site[s].form = "uncached"
      /\ codes' = Patched(k, s, new)
  BY CodeOfType, AcceptedIsFunc
     DEF JitCallSlow, InJit, CodeOf, KeyClass, Codes, TypeOK
<1>2. new \in FilledCaches
  BY <1>1, FillType
<1> HIDE DEF new, k
<1> QED BY <1>1, <1>2, PatchType

LEMMA MatchStep == ASSUME StableSelf, StableInv, [Next]_vars PROVE SelfSitesMatch'
<1> USE DEF StableInv
<1>1. CASE UNCHANGED codes
  BY <1>1 DEF SelfSitesMatch
<1>2. ASSUME NEW s \in Sites, NEW r \in Objs, JitCallSlow(s, r) PROVE SelfSitesMatch'
  <2>1. SelfSites \subseteq Sites BY DispatchAssumption
  <2> QED BY <1>2, <2>1, SlowPatches DEF SelfSitesMatch
<1>3. ASSUME NEW o \in Objs, EnterCompile(o) PROVE SelfSitesMatch'
  BY <1>3, MatchEmit DEF EnterCompile
<1>4. CASE LoopCompile
  BY <1>4 DEF LoopCompile, StableSelf
<1>5. ASSUME NEW s \in Sites, Recompile(s) PROVE SelfSitesMatch'
  <2>1. Top.self \in Objs /\ codes[Top.code].loop \in BOOLEAN
    BY <1>5, TopType, CodeOfType DEF Recompile, Frames, Codes
  <2> QED BY <1>5, <2>1, MatchEmit DEF Recompile
<1>6. \/ UNCHANGED codes
      \/ \E s \in Sites, r \in Objs : JitCallSlow(s, r)
      \/ \E o \in Objs : EnterCompile(o)
      \/ LoopCompile
      \/ \E s \in Sites : Recompile(s)
  BY DEF Next, vars, DefineMethod, DefineAttr, Install, OpenSingleton, EnterVm, EnterJit,
         EnterSideExit, Return, LoopStart, Deopt, VmCallHit, VmCallSlow, VmCallError,
         JitCallGuarded, JitCallDeopt, JitCallHit, JitCallError, jitVars
<1> QED BY <1>1, <1>2, <1>3, <1>4, <1>5, <1>6

(* SelfClassGuaranteed of one activation.                                    *)
SelfMatches(i) == frames[i].code # 0 => classOf[frames[i].self] = codes[frames[i].code].self

LEMMA SelfClassEquiv == ASSUME TypeOK
                        PROVE  SelfClassGuaranteed <=> \A i \in 1..Len(frames) : SelfMatches(i)
BY FrameFacts DEF SelfClassGuaranteed, SelfMatches

(* The codes there are keep their self class, and no object changes class.   *)
LEMMA SelfClassesKept ==
    ASSUME StableSelf, TypeOK, [Next]_vars
    PROVE  /\ classOf' = classOf
           /\ \A k \in 1..Len(codes) : codes'[k].self = codes[k].self
<1>1. classOf' = classOf
  BY DEF Next, vars, DefineMethod, DefineAttr, Install, OpenSingleton, EnterVm, EnterJit,
         EnterSideExit, EnterCompile, LoopCompile, Recompile,
         Return, LoopStart, Deopt, VmCallHit, VmCallSlow, VmCallError,
         JitCallGuarded, JitCallDeopt, JitCallHit, JitCallSlow, JitCallError, jitVars,
         classVars, StableSelf
<1>2. UNCHANGED codes => \A k \in 1..Len(codes) : codes'[k].self = codes[k].self
  OBVIOUS
<1>3. ASSUME NEW s \in Sites, NEW r \in Objs, JitCallSlow(s, r)
      PROVE  \A k \in 1..Len(codes) : codes'[k].self = codes[k].self
  BY <1>3, SlowPatches
<1>4. ASSUME NEW o \in Objs, NEW loop \in BOOLEAN, Emit(o, loop)
      PROVE  \A k \in 1..Len(codes) : codes'[k].self = codes[k].self
  BY <1>4, EmitAppends
<1>5. \/ UNCHANGED codes
      \/ \E s \in Sites, r \in Objs : JitCallSlow(s, r)
      \/ \E o \in Objs, loop \in BOOLEAN : Emit(o, loop)
  <2>1. LoopCompile => Emit(Top.self, TRUE) /\ Top.self \in Objs
    BY TopType DEF LoopCompile, Frames
  <2>2. \A s \in Sites : Recompile(s) => \E loop \in BOOLEAN : Emit(Top.self, loop) /\ Top.self \in Objs
    BY TopType, CodeOfType DEF Recompile, Frames, Codes
  <2> QED
    BY <2>1, <2>2
       DEF Next, vars, DefineMethod, DefineAttr, Install, OpenSingleton, EnterVm, EnterJit,
           EnterCompile, EnterSideExit, Return, LoopStart, Deopt, VmCallHit, VmCallSlow,
           VmCallError, JitCallGuarded, JitCallDeopt, JitCallHit, JitCallError, jitVars
<1>6. \A k \in 1..Len(codes) : codes'[k].self = codes[k].self
  <2> HIDE DEF Next, Emit, JitCallSlow
  <2>1. CASE \E s \in Sites, r \in Objs : JitCallSlow(s, r)
    BY <1>3, <2>1
  <2>2. CASE \E o \in Objs, loop \in BOOLEAN : Emit(o, loop)
    BY <1>4, <2>2, Zenon
  <2> QED BY <1>2, <1>5, <2>1, <2>2
<1> QED BY <1>1, <1>6

(* Next, by what it does to the stack of activations. *)
LEMMA FramesStep ==
    ASSUME StableSelf, TypeOK, [Next]_vars
    PROVE  \/ frames' \in {frames, <<>>}
           \/ Return
           \/ Running /\ SwitchTo(0)
           \/ \E o \in Objs : Push(o, 0) \/ EnterCompile(o) \/ EnterJit(o)
<1>1. ASSUME NEW c \in Reopened, NEW n \in Names, NEW f \in Funcs,
             DefineMethod(c, n, f) \/ DefineAttr(c, n, f)
      PROVE  frames' = frames
  BY <1>1 DEF DefineMethod, DefineAttr, Install
<1>2. ASSUME NEW s \in Sites, NEW r \in Objs,
             \/ VmCallHit(s, r) \/ VmCallSlow(s, r) \/ VmCallError(s, r)
             \/ JitCallGuarded(s, r) \/ JitCallHit(s, r)
             \/ JitCallSlow(s, r) \/ JitCallError(s, r)
      PROVE  frames' \in {frames, <<>>}
  BY <1>2 DEF VmCallHit, VmCallSlow, VmCallError, JitCallGuarded, JitCallHit,
              JitCallSlow, JitCallError
<1>3. ASSUME NEW s \in Sites, NEW r \in Objs, JitCallDeopt(s, r)
      PROVE  Running /\ SwitchTo(0)
  BY <1>3 DEF JitCallDeopt, InJit
<1>4. Deopt \/ (\E s \in Sites : Recompile(s)) => Running /\ SwitchTo(0)
  BY DEF Deopt, Recompile
<1>5. ASSUME NEW o \in Objs, EnterVm(o) \/ EnterSideExit(o) PROVE Push(o, 0)
  BY <1>5 DEF EnterVm, EnterSideExit
<1>6. ~LoopStart /\ ~LoopCompile BY DEF StableSelf, LoopStart, LoopCompile
<1>7. \A o \in Openable : ~OpenSingleton(o) BY DEF StableSelf
<1>8. vars' = vars => frames' = frames BY DEF vars
<1>9. \/ \E c \in Reopened, n \in Names, f \in Funcs :
            DefineMethod(c, n, f) \/ DefineAttr(c, n, f)
      \/ \E o \in Objs : EnterVm(o) \/ EnterSideExit(o) \/ EnterCompile(o) \/ EnterJit(o)
      \/ Return \/ Deopt \/ vars' = vars
      \/ \E s \in Sites, r \in Objs :
            \/ VmCallHit(s, r) \/ VmCallSlow(s, r) \/ VmCallError(s, r)
            \/ JitCallGuarded(s, r) \/ JitCallHit(s, r)
            \/ JitCallSlow(s, r) \/ JitCallError(s, r)
            \/ JitCallDeopt(s, r)
      \/ \E s \in Sites : Recompile(s)
  BY <1>6, <1>7, Zenon DEF Next
<1> QED BY <1>1, <1>2, <1>3, <1>4, <1>5, <1>8, <1>9

LEMMA SelfClassStep == ASSUME StableSelf, StableInv, [Next]_vars PROVE SelfClassGuaranteed'
<1> USE DEF StableInv
<1> DEFINE Kept(i) == SelfMatches(i)'
<1>1. TypeOK' BY TypeStep
<1>2. SUFFICES \A i \in 1..Len(frames') : SelfMatches(i)'
  <2>1. SelfClassGuaranteed' <=> \A i \in DOMAIN frames' : SelfMatches(i)'
    BY DEF SelfClassGuaranteed, SelfMatches
  <2>2. DOMAIN frames' = 1..Len(frames')
    BY <1>1, LenProperties DEF TypeOK
  <2> QED BY <2>1, <2>2
<1>3. /\ classOf' = classOf
      /\ \A k \in 1..Len(codes) : codes'[k].self = codes[k].self
  BY SelfClassesKept
\* An activation that stays, in the same code, keeps the property.
<1>4. ASSUME NEW i \in 1..Len(frames), frames'[i] = frames[i]
      PROVE  SelfMatches(i)'
  <2>1. SelfMatches(i) BY SelfClassEquiv
  <2>2. frames[i].code \in 0..Len(codes) BY FrameFacts
  <2> QED BY <1>3, <1>4, <2>1, <2>2, FrameFacts DEF SelfMatches
<1>5. CASE frames' = frames
  BY <1>4, <1>5
<1>6. CASE frames' = <<>>
  BY <1>6
<1>7. CASE Return
  <2>1. /\ Len(frames') = Len(frames) - 1
        /\ \A i \in 1..Len(frames) - 1 : frames'[i] = frames[i]
    BY <1>7, PopType
  <2>2. 1..Len(frames') \subseteq 1..Len(frames) BY <2>1, FrameFacts
  <2> QED BY <1>4, <2>1, <2>2
<1>8. CASE Running /\ SwitchTo(0)
  <2>1. 0 \in 0..MaxCodes BY DispatchAssumption
  <2>2. /\ Len(frames') = Len(frames)
        /\ frames'[Len(frames)].code = 0
        /\ \A i \in 1..Len(frames) - 1 : frames'[i] = frames[i]
    BY <1>8, <2>1, SwitchType
  <2>3. ASSUME NEW i \in 1..Len(frames) PROVE SelfMatches(i)'
    <3>1. CASE i = Len(frames) BY <2>2, <3>1 DEF SelfMatches
    <3>2. CASE i # Len(frames)
      <4>0. Len(frames) \in Nat BY FrameFacts
      <4>1. i \in 1..Len(frames) - 1 BY <3>2, <4>0
      <4> QED BY <1>4, <2>2, <4>1
    <3> QED BY <3>1, <3>2
  <2> QED BY <2>2, <2>3
<1>9. ASSUME NEW o \in Objs, NEW k \in 0..MaxCodes, Push(o, k),
             k # 0 => classOf[o] = codes'[k].self
      PROVE  \A i \in 1..Len(frames') : SelfMatches(i)'
  <2>1. /\ Len(frames') = Len(frames) + 1
        /\ frames'[Len(frames) + 1] = [self |-> o, code |-> k]
        /\ \A i \in 1..Len(frames) : frames'[i] = frames[i]
    <3> HIDE DEF Push
    <3> QED BY <1>9, PushType
  <2>2. ASSUME NEW i \in 1..Len(frames') PROVE SelfMatches(i)'
    <3>1. i \in 1..Len(frames) \/ i = Len(frames) + 1
      BY <2>1, FrameFacts
    <3>2. CASE i \in 1..Len(frames) BY <1>4, <2>1, <3>2
    <3>3. CASE i = Len(frames) + 1
      <4>1. frames'[i] = [self |-> o, code |-> k] BY <2>1, <3>3
      <4> QED BY <1>3, <1>9, <4>1 DEF SelfMatches
    <3> QED BY <3>1, <3>2, <3>3
  <2> QED BY <2>2
<1>10. ASSUME NEW o \in Objs, Push(o, 0) PROVE \A i \in 1..Len(frames') : SelfMatches(i)'
  <2>1. 0 \in 0..MaxCodes BY DispatchAssumption
  <2> QED BY <1>9, <1>10, <2>1
<1>11. ASSUME NEW o \in Objs, EnterCompile(o) PROVE \A i \in 1..Len(frames') : SelfMatches(i)'
  <2>1. Emit(o, FALSE) /\ Push(o, Len(codes) + 1) BY <1>11 DEF EnterCompile
  <2>2. Len(codes) + 1 \in 0..MaxCodes
    BY <2>1, DispatchAssumption, FrameFacts DEF Emit
  <2>3. codes'[Len(codes) + 1].self = classOf[o]
    BY <2>1, EmitAppends
  <2> HIDE DEF Push, Emit
  <2> QED BY <1>9, <2>1, <2>2, <2>3
<1>12. ASSUME NEW o \in Objs, EnterJit(o) PROVE \A i \in 1..Len(frames') : SelfMatches(i)'
  <2>1. entry \in 1..Len(codes) /\ entry \in 0..MaxCodes
    BY <1>12, DispatchAssumption, FrameFacts DEF EnterJit, TypeOK
  <2>2. codes'[entry].self = classOf[o] /\ Push(o, entry)
    BY <1>12, <1>3, <2>1 DEF EnterJit
  <2> HIDE DEF Push
  <2> QED BY <1>9, <2>1, <2>2
<1> QED BY <1>5, <1>6, <1>7, <1>8, <1>10, <1>11, <1>12, FramesStep

LEMMA StableInit == Init => StableInv
<1> SUFFICES ASSUME Init PROVE StableInv
  OBVIOUS
<1>1. codes = <<>> /\ frames = <<>> /\ TypeOK
  BY InitType DEF Init
<1>2. CoherentBut({}) /\ SelfSitesMatch
  BY <1>1 DEF Init, CoherentBut, CoherentIn, SelfSitesMatch
<1>3. SelfClassGuaranteed
  BY <1>1, SelfClassEquiv
<1> QED BY <1>1, <1>2, <1>3 DEF StableInv

LEMMA StableStep == StableSelf /\ StableInv /\ [Next]_vars => StableInv'
<1> SUFFICES ASSUME StableSelf, StableInv, [Next]_vars PROVE StableInv'
  OBVIOUS
<1>1. TypeOK' BY TypeStep DEF StableInv
<1>2. CoherentBut({})' BY CoherentStep DEF StableInv
<1> QED BY <1>1, <1>2, MatchStep, SelfClassStep DEF StableInv

(* "If recv is *self*, a recv's class is guaranteed to be ctx.self_class" is *)
(* true of a body without a loop of its own, as long as the class of self    *)
(* cannot change: the class guard of the prologue is enough.                 *)
THEOREM SelfClassIsStable == ASSUME StableSelf PROVE Spec => []SelfClassGuaranteed
<1>1. Init => StableInv BY StableInit
<1>2. StableInv /\ [Next]_vars => StableInv' BY StableStep
<1>3. StableInv => SelfClassGuaranteed BY DEF StableInv
<1> QED BY <1>1, <1>2, <1>3, PTL DEF Spec

(* Under StableSelf every call, from either tier, invokes what resolution    *)
(* finds at that moment.                                                     *)
LEMMA StableCalls ==
    ASSUME StableSelf, StableInv, NEW s \in Sites, NEW r \in Objs,
           \/ VmCallSlow(s, r) \/ VmCallError(s, r)
           \/ JitCallSlow(s, r) \/ JitCallError(s, r)
           \/ VmCallHit(s, r) \/ JitCallGuarded(s, r) \/ JitCallHit(s, r)
    PROVE  CallsMethod(s, r)
<1> USE DEF StableInv
<1>1. ASSUME Running, Top.code # 0, IsReceiver(s, r), s \in SelfSites
      PROVE  /\ Top.code \in 1..Len(codes)
             /\ codes[Top.code].self = classOf[r]
  <2>1. Top.code \in 1..Len(codes) /\ Len(frames) \in 1..Len(frames)
    BY <1>1, CodeOfType, TopType
  <2>2. SelfMatches(Len(frames)) BY <2>1, SelfClassEquiv
  <2> QED BY <1>1, <2>1, <2>2 DEF SelfMatches, Top, IsReceiver
<1>2. CASE JitCallGuarded(s, r)
  <2>1. CodeOf(s).cache.class = classOf[r]
    <3>1. CASE s \notin SelfSites BY <1>2, <3>1 DEF JitCallGuarded, GuardsPass
    <3>2. CASE s \in SelfSites
      <4>1. /\ Top.code \in 1..Len(codes) /\ codes[Top.code].self = classOf[r]
            /\ CodeOf(s) \in SiteCodes /\ CodeOf(s).form # "uncached"
        BY <1>1, <1>2, <3>2, CodeOfType DEF JitCallGuarded, InJit
      <4>2. CodeOf(s).form \in {"cached", "inline"}
        BY <4>1 DEF SiteCodes, Guarded, Uncached
      <4> QED BY <3>2, <4>1, <4>2 DEF SelfSitesMatch, CodeOf
    <3> QED BY <3>1, <3>2
  <2> QED BY <1>2, <2>1, GuardedCalls DEF CallsMethod
<1>3. CASE JitCallHit(s, r)
  <2>1. KeyClass(s, r) = classOf[r]
    BY <1>1, <1>3 DEF KeyClass, JitCallHit, InJit
  <2>2. s \notin {} OBVIOUS
  <2> QED BY <1>3, <2>1, <2>2, JitHitCalls DEF CallsMethod
<1> QED BY <1>2, <1>3, SlowCalls, VmHitCalls

(* Interpreter, inline caches, compiled code, deoptimization and             *)
(* recompilation together implement RubyDispatch: what was cached or         *)
(* compiled before never shows.                                              *)
THEOREM DispatchRefinesRuby == ASSUME StableSelf PROVE Spec => ImplementsRuby
<1>1. Init => StableInv BY StableInit
<1>2. StableInv /\ [Next]_vars => StableInv' BY StableStep
<1>3. Init => Ruby!Init BY DEF Init, Ruby!Init
<1>4. StableInv /\ [Next]_vars => [Ruby!Next]_Ruby!vars
  <2> SUFFICES ASSUME StableInv, [Next]_vars PROVE [Ruby!Next]_Ruby!vars
    OBVIOUS
  <2>1. ASSUME NEW c \in Reopened, NEW n \in Names, NEW f \in Funcs,
               DefineMethod(c, n, f) \/ DefineAttr(c, n, f)
        PROVE  Ruby!Define
    BY <2>1, DispatchAssumption 
       DEF DefineMethod, DefineAttr, Install, AddMethod, Funcs,
           Ruby!Define, Ruby!AddMethod, Ruby!Funcs
  <2>2. ASSUME NEW s \in Sites, NEW r \in Objs,
               \/ VmCallSlow(s, r) \/ VmCallError(s, r)
               \/ JitCallSlow(s, r) \/ JitCallError(s, r)
               \/ VmCallHit(s, r) \/ JitCallGuarded(s, r) \/ JitCallHit(s, r)
        PROVE  Ruby!Call(s, r)
    <3>1. CallsMethod(s, r) BY <2>2, StableCalls
    <3>2. UNCHANGED <<methods, classOf>>
      BY <2>2 DEF VmCallSlow, VmCallError, JitCallSlow, JitCallError, VmCallHit,
                  JitCallGuarded, JitCallHit, classVars
    <3>3. Resolve(methods, classOf[r], s) = Ruby!Resolve(methods, classOf[r], s)
      BY Zenon DEF Resolve, Ruby!Resolve, FindMethod, Ruby!FindMethod
    <3> QED BY <3>1, <3>2, <3>3 DEF CallsMethod, Ruby!Call
  <2>3. \/ UNCHANGED <<methods, classOf, invoked>>
        \/ Ruby!Other
        \/ \E c \in Reopened, n \in Names, f \in Funcs :
              DefineMethod(c, n, f) \/ DefineAttr(c, n, f)
        \/ \E s \in Sites, r \in Objs :
              \/ VmCallSlow(s, r) \/ VmCallError(s, r)
              \/ JitCallSlow(s, r) \/ JitCallError(s, r)
              \/ VmCallHit(s, r) \/ JitCallGuarded(s, r) \/ JitCallHit(s, r)
    BY DEF Next, vars, OpenSingleton, EnterVm, EnterCompile, EnterJit, EnterSideExit,
           Return, LoopStart, LoopCompile, Deopt, JitCallDeopt, Recompile, classVars,
           StableSelf, Ruby!Other
  <2> QED BY <2>1, <2>2, <2>3 DEF Ruby!Next, Ruby!vars
<1> QED BY <1>1, <1>2, <1>3, <1>4, PTL DEF Spec, ImplementsRuby, Ruby!Spec
=============================================================================
