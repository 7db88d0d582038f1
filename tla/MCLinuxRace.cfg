SPECIFICATION LinuxSpec
CONSTANTS
  Threads = {t1, t2}
  Files = {b1, b2, b3, b4}
  Blocks = {b1, b2, b3, b4}
  NULL = NULL
  MAX_NUM_MODULES = 2
  NumCpus = 1
  CpuCounts <- MCAllCpus
  RestoreOutcomes = {FALSE}
  AllocatesZero = FALSE
  Lengths = {0, 1}
SYMMETRY MCSymmetry
INVARIANTS
  LoadReadsLiveFiles
CHECK_DEADLOCK FALSE
