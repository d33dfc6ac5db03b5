SPECIFICATION Spec
CONSTANTS
    A = A  K = K  S = S  I = I  F = F
    o1 = o1  o2 = o2  m = m  k = k  b = b  h = h  p = p  x = x  y = y
    Objs = {o1, o2, m, k, b, h}
    Ordinary = {o1, o2}
    Packed = {p}
    Classes = {A, K, S, I, F}
    NoClass = NoClass
    AlwaysFrozen = {I, F}
    OnlyPacked = {I}
    InitClass <- MCInitClass
    Openable = {m}
    SingletonClass <- MCSingleton
    Names = {x, y}
    Vals = {1}
    Nil = Nil
    None = None
    Raised = Raised
    Silent = Silent
    Spurious = Spurious
    Presumed = Presumed
    NoReply = NoReply
    InlineIvars = 1
    Programs <- MCPrograms
    MaxCodes = 1
INVARIANTS TypeOK CachesNameSlots EverySlotNamed
PROPERTY ImplementsStore
CHECK_DEADLOCK FALSE
