\* Five command lines with and without self-correction; three tries, two lags.
CONSTANTS
  Experiments <- CommandLines
  MaxTries = 3
  MaxDuration = 60
  Lags = {2, 25}
SPECIFICATION Spec
INVARIANTS
  TypeOK
  DeliveredIsAccepted
  ReportsAreEarned
  EnoughSamples
