SPECIFICATION FairSpec
CONSTANTS
  Intent = {i1}
  Other = {o1}
  Household = {h1}
  MaxFailures = 2
  MaxRestarts = 1
INVARIANTS
  FileTypeOK
  DurableIntentsOnDisk
  CloseFlushes
PROPERTIES
  EverySaveSettles
  KeepsThePromise
CHECK_DEADLOCK FALSE
