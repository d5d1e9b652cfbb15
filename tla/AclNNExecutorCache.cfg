SPECIFICATION Spec
CONSTANTS
  o1 = o1
  o2 = o2
  o3 = o3
  Ops = {o1, o2, o3}
  OpName <- TwoNames
  OpKind <- TwoNames
  Packs = {p1, p2}
  Caches = {1, 2, 3, 4, 5, 6, 7}
  Executors = {e1, e2}
  GlobalCacheCountMax = 2
  DoubleDestroyOps = {}
  Null = Null
SYMMETRY TwoNamesAlike
VIEW UpToCacheIdentity
INVARIANTS
  CountIsHolders
  NoSharedExecutorLeak
  HitIsLiveAndUnique
  ReadyExecutorFits
PROPERTIES
  ImplementsPromise
CHECK_DEADLOCK FALSE
