\* Three types of agent, one or two threads, anything left behind by an earlier experiment.
\* A launch may end: the agent or the manager has ended, or a barrier is never passed.
CONSTANTS
  Types = {0, 1, 3}
  Counts = {1, 2}
  MaxTries = 2
SPECIFICATION Spec
INVARIANTS
  TypeOK
  ViewOfThisAgent
  LoadInForce
  OpenMeansConnected
PROPERTIES
  ConnectionsAreTold
CHECK_DEADLOCK FALSE
