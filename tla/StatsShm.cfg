\* Two measurements with whatever adds underway; two slots fill and turn.
\* A behaviour may end: the bounds of measurements and adds are used up.
CONSTANTS
  Slots = 2
  PerThread = 2
  Wrap = 16
  MaxMeasurements = 2
  MaxAdds = 5
SPECIFICATION Spec
INVARIANTS
  TypeOK
  RequestsCounted
  LatenciesFresh
  InterarrivalsFresh
  ReportSettled
CHECK_DEADLOCK FALSE
