\* No loss, no duplicate: a timestamp that comes after the reply is kept for the next request.
\* A behaviour may end: the requests are used up, or the thread has returned.
CONSTANTS
  N = 1
  Settings <- LateSettings
  MaxLosses = 0
SPECIFICATION Spec
INVARIANTS
  NoOldTimestamp
CHECK_DEADLOCK FALSE
