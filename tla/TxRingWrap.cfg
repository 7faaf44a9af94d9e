\* The byte counter wraps after four bytes.
\* A behaviour may end: the bounds are used up, or the connection is lost.
CONSTANTS
  Max = 2
  Modulus = 4
  Lengths = {1, 2}
  MaxBytes = 5
  MaxRetransmits = 1
SPECIFICATION Spec
INVARIANTS
  TailNotPastHead
CHECK_DEADLOCK FALSE
