\* memcache_ascii: a value that has come in part is completed by what an earlier reply left in the buffer.
\* A behaviour may end: the requests are used up, or the thread has ended.
CONSTANTS
  Modes = {"latency"}
  Forms <- AsciiForms
  StoredBytes = 2
  MaxPending = 1
  RequestBytes = 1
  BufferBytes = 6
  SendRoom = 1
  ReceiveRoom = 3
  MayClose = FALSE
  MaxRequests = 3
SPECIFICATION Spec
INVARIANTS
  ConsumesWhatItReceived
CHECK_DEADLOCK FALSE
