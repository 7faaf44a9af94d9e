\* The three patterns of failure: agents of each role that fail to launch or die,
\* retries of the self-correcting pattern, and a latency rate of zero.
CONSTANTS
  t1 = t1
  l1 = l1
  s1 = s1
  s2 = s2
  Agents <- MCAgents
  Experiments <- AllExperiments
  MaxTimeouts = 1
SPECIFICATION Spec
INVARIANTS
  TypeOK
  CleanResult
  MeasuringImpliesLoading
PROPERTIES
  AnswersTheRequest
  FreshReports
  CoordinatorEnds
  ManagersEnd
  CleanRunStopsAgents
