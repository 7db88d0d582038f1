SPECIFICATION WindowsSpec
CONSTANTS
  Threads = {t1, t2}
  Files = {b1, b2, b3, b4}
  Blocks = {b1, b2, b3, b4}
  NULL = NULL
  MAX_NUM_MODULES = 1
  NumCpus = 1
  CpuCounts <- MCAllCpus
  RestoreOutcomes = {TRUE}
  AllocatesZero = FALSE
SYMMETRY MCSymmetry
INVARIANTS
  StartNeedsLoadedVmm
CHECK_DEADLOCK FALSE
