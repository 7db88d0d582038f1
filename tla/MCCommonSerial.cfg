SPECIFICATION SerialSpec
CONSTANTS
  Threads = {t1}
  Files = {f1}
  Blocks = {b1, b2, b3, b4, b5}
  NULL = NULL
  MAX_NUM_MODULES = 2
  NumCpus = 3
  CpuCounts <- MCAllCpus
  RestoreOutcomes = {TRUE}
  AllocatesZero = FALSE
SYMMETRY MCSymmetry
INVARIANTS
  TypeOK
  PointersLive
  VmmComplete
  CpuAccounting
  VmcallHasVmm
  TlsInBounds
PROPERTIES
  FreedOnlyWhenDown
  CorruptIsFinal
  VmmFrozen
  ImplementsLifecycle
  ResultsTrue
