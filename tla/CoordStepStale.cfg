\* A step pattern goes on after an expired deadline and reads the late answer as the next one.
CONSTANTS
  t1 = t1
  l1 = l1
  s1 = s1
  s2 = s2
  Agents <- MCAgents
  Experiments <- StepExperiments
  MaxTimeouts = 1
SPECIFICATION Spec
PROPERTIES
  PolledValuesAreValues
