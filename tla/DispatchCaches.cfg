SPECIFICATION Spec
CONSTANTS
    Object = Object  Integer = Integer  Float = Float  Meta = Meta
    int = int  flt = flt  klass = klass
    to_f = to_f  int_to_f = int_to_f  attr = attr  ruby_f = ruby_f
    by_self = by_self  by_recv = by_recv
    Classes = {Object, Meta}
    NoClass = NoClass
    Super <- MCSuper
    Names = {to_f}
    Objs = {klass}
    ISeqs = {ruby_f}
    Attrs = {attr}
    Builtins = {}
    NoFunc = NoFunc
    Sites = {by_self, by_recv}
    SiteName <- MCSiteName
    Accepts <- ArgToRecv
    InitMethods <- ISeqInit
    InitClass <- MCInitClass
    NoCall = NoCall
    SelfSites = {by_self}
    BlockSites = {}
    Inlinable = {}
    HasLoop = TRUE
    Openable = {klass}
    MetaChain <- MCMetaChain
    SingletonClass <- MCSingleton
    Reopened = {Meta}
    VersionMod = 8
    MaxDefs = 1
    MaxDepth = 1
    MaxCodes = 2
INVARIANTS TypeOK CachesCoherent
PROPERTY ReceiverDispatch
