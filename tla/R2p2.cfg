\* Every agent type; blocks are reused, replies of two packets, two request ids.
\* A behaviour may end: the requests are used up, or no block is left.
CONSTANTS
  Modes = {"nic", "sym", "thr", "lat"}
  Blocks = {1, 2, 3}
  Sockets = {1, 2}
  Rids = {1, 2}
  Packets = 2
  MaxRequests = 3
  MaxLosses = 1
  MaxStrays = 1
  MaxRefusals = 1
SPECIFICATION Spec
INVARIANTS
  TypeOK
  OwnTimestamps
  OwnReplyInStep
CHECK_DEADLOCK FALSE
