SPECIFICATION LinuxSerialSpec
CONSTANTS
  Threads = {t1}
  Files = {b1, b2, b3, b4, b5}
  Blocks = {b1, b2, b3, b4, b5}
  NULL = NULL
  MAX_NUM_MODULES = 1
  NumCpus = 1
  CpuCounts <- MCAllCpus
  RestoreOutcomes = {FALSE}
  AllocatesZero = FALSE
  Lengths = {0, 1}
SYMMETRY MCSymmetry
INVARIANTS
  FilesKeptWhileRunning
CHECK_DEADLOCK FALSE
