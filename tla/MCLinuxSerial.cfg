SPECIFICATION LinuxSerialSpec
CONSTANTS
  Threads = {t1}
  Files = {b1, b2, b3, b4, b5, b6}
  Blocks = {b1, b2, b3, b4, b5, b6}
  NULL = NULL
  MAX_NUM_MODULES = 2
  NumCpus = 2
  CpuCounts <- MCAllCpus
  RestoreOutcomes = {FALSE}
  AllocatesZero = FALSE
  Lengths = {0, 1}
SYMMETRY MCSymmetry
INVARIANTS
  LinuxTypeOK
  HeapAccounted
  LoadReadsLiveFiles
PROPERTIES
  FailedStartRolledBack
  IoctlsGetShorter
CHECK_DEADLOCK FALSE
