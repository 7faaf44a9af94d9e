\* Three outstanding requests, six bytes in all, a retransmission, no wrap.
\* A behaviour may end: the bounds are used up, or the connection is lost.
CONSTANTS
  Max = 3
  Modulus = 16
  Lengths = {1, 2}
  MaxBytes = 6
  MaxRetransmits = 1
SPECIFICATION FairSpec
INVARIANTS
  TypeOK
  CursorsInOrder
  SampleOfOwnPacket
  IInv
PROPERTIES
  TimesRequests
  MatchingEnds
CHECK_DEADLOCK FALSE
