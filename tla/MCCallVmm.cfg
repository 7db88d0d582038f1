SPECIFICATION FairSpec
CONSTANTS
  NumCpus = 2
  CpuCounts = {0, 1, 2}
  STACK_SIZE = 4
  THREAD_LOCAL_STORAGE_SIZE = 2
  MAX_PAGE_SIZE = 2
  CONTEXT_SIZE = 1
  Bases = {4, 12, 20, 30}
  Instrs <- MCInstrs
  ImageSize = 6
  SparePages = {TRUE, FALSE}
INVARIANTS
  StackInBlock
  ContextOfCpu
  RequestDelivered
  PreemptionRestored
  NoPageMissed
  DescribedPagesAllocated
PROPERTIES
  LoadGetsShorter
  LoadEnds
