\* Every agent type and kind of parser; a second request does not fit on the way to the server.
\* A behaviour may end: the requests are used up, the connection is closed, or the thread has ended.
CONSTANTS
  Modes = {"throughput", "symmetric", "latency", "tls"}
  Forms <- EveryForm
  StoredBytes = 2
  MaxPending = 2
  RequestBytes = 3
  BufferBytes = 3
  SendRoom = 4
  ReceiveRoom = 2
  MayClose = TRUE
  MaxRequests = 3
SPECIFICATION FairSpec
INVARIANTS
  TypeOK
  FramingInSync
  SamplesTimely
PROPERTIES
  SendEnds
  RepliesAreCounted
CHECK_DEADLOCK FALSE
