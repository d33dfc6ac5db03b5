SPECIFICATION Spec
CONSTANTS
    Foo = Foo  Pi = Pi
    plain = plain  scoped = scoped  qualified = qualified
    Object = Object
    Classes = {Object, A}
    Plain = {flt, int}
    Floats = {flt}
    Absent = Absent
    Names = {Foo, Pi}
    Sites = {plain, qualified}
    Path <- MCPath
    NoPrefix = NoPrefix
    NoCode = NoCode
    NoLoad = NoLoad
    InitClasses = {Object}
    InitConsts <- MCInitConsts
    MaxStores = 2
    MaxContext = 2
INVARIANTS TypeOK CachesBound ContextCoversBodies
PROPERTIES QualifiedFresh UnshadowedFresh
