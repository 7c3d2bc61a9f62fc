SPECIFICATION Spec
CONSTANTS
  f1 = f1
  f2 = f2
  f3 = f3
  t1 = t1
  t2 = t2
  s1 = s1
  NULL = NULL
  Thread = {t1, t2}
  Father = {f1, f2, f3}
  SysNode = {s1}
  PoolSize <- MCPoolSize
  PoolNum <- MCPoolNum
  ReqSize <- MCReqSize
  SysSize = 3
  Failure = {"father", "chunk", "node", "hash", "system"}
  MaxMalloc = 4
SYMMETRY Symmetry
INVARIANTS
  UsedSizeExact
  CountersExact
  NoDoubleIssue
  FreedUseNeedsFailedGrow
