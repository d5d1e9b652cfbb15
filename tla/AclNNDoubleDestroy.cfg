SPECIFICATION Spec
CONSTANTS
  o1 = o1
  o2 = o2
  o3 = o3
  Ops = {o1, o2, o3}
  OpName <- OneName
  OpKind <- OneName
  Packs = {p1, p2}
  Caches = {1, 2, 3, 4, 5}
  Executors = {e1, e2, e3}
  GlobalCacheCountMax = 1
  DoubleDestroyOps = {o1, o2, o3}
  Null = Null
SYMMETRY OneNameAlike
VIEW UpToCacheIdentity
PROPERTIES
  DestroyedByLastHolder
CHECK_DEADLOCK FALSE
