SPECIFICATION Spec
CONSTANTS
    Object = Object  Integer = Integer  Float = Float  Meta = Meta
    int = int  flt = flt  klass = klass
    to_f = to_f  int_to_f = int_to_f  attr = attr  ruby_f = ruby_f
    by_self = by_self  by_recv = by_recv
    Classes = {Object, Integer, Float}
    NoClass = NoClass
    Super <- MCSuper
    Names = {to_f}
    Objs = {int, flt}
    ISeqs = {ruby_f}
    Attrs = {}
    Builtins = {int_to_f}
    NoFunc = NoFunc
    Sites = {by_self, by_recv}
    SiteName <- MCSiteName
    Accepts <- ArgToSelf
    InitMethods <- InlineInit
    InitClass <- MCInitClass
    NoCall = NoCall
    SelfSites = {by_self}
    BlockSites = {}
    Inlinable = {int_to_f}
    HasLoop = FALSE
    Openable = {}
    MetaChain <- MCMetaChain
    SingletonClass <- MCSingleton
    Reopened = {Integer}
    VersionMod = 8
    MaxDefs = 2
    MaxDepth = 2
    MaxCodes = 2
INVARIANTS SelfClassGuaranteed
PROPERTY ImplementsRuby
