SPECIFICATION FairWindowsSerialSpec
CONSTANTS
  Threads = {t1}
  Files = {b1, b2, b3, b4}
  Blocks = {b1, b2, b3, b4}
  NULL = NULL
  MAX_NUM_MODULES = 1
  NumCpus = 2
  CpuCounts <- MCAllCpus
  RestoreOutcomes = {TRUE}
  AllocatesZero = FALSE
INVARIANTS
  WindowsTypeOK
  CompletedOnce
  FilesAccounted
  SleepsUnloaded
PROPERTIES
  CallbacksGetShorter
  RequestsComplete
CHECK_DEADLOCK FALSE
