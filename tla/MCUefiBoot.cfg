SPECIFICATION FairUefiSpec
CONSTANTS
  Threads = {app}
  App = app
  Files = {f1}
  Blocks = {b1, b2, b3}
  NULL = NULL
  MAX_NUM_MODULES = 1
  NumCpus = 3
  CpuCounts <- MCCpuCounts
  RestoreOutcomes = {TRUE, FALSE}
  AllocatesZero = TRUE
  BuiltIns = {1, 2}
  Tables = {g1, g2, g3, g4, g5, g6, g7, g8}
  FW = FW
  FirmwareLimits = {2, 7}
  TSS_END = 5
  TSS_SIZE = 3
INVARIANTS
  UefiTypeOK
  OsOnlyAboveVmm
  FirstCpuHasTask
  TablesSound
  TlsHasSlot
PROPERTIES
  ImplementsLifecycle
  BootGetsShorter
  BootProceeds
CHECK_DEADLOCK FALSE
