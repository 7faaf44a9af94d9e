\* Every agent type in a clean network; the NIC agent with late timestamps and duplicates.
\* A behaviour may end: the requests are used up, or the thread has returned.
CONSTANTS
  N = 2
  Settings <- AllSettings
  MaxLosses = 1
SPECIFICATION FairSpec
INVARIANTS
  TypeOK
  FreeSocketsAreReset
PROPERTIES
  TimesRequests
  SocketsAreFreed
CHECK_DEADLOCK FALSE
