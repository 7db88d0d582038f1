SPECIFICATION FairSerialSpec
CONSTANTS
  Threads = {t1}
  Files = {f1}
  Blocks = {b1, b2, b3}
  NULL = NULL
  MAX_NUM_MODULES = 1
  NumCpus = 3
  CpuCounts <- MCHotplug
  RestoreOutcomes = {FALSE}
  AllocatesZero = FALSE
PROPERTIES
  CallsGetShorter
  EveryCallReturns
