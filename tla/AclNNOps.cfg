SPECIFICATION Spec
CONSTANTS
  Operations <- MCOperations
  Shapes = {s1, s2}
  HostData = {h1, h2}
  MaxUses = 3
INVARIANTS
  ArgumentsAreCurrent
  HostDataIsCurrent
  ReleasedOnce
  OperationIsSound
\* An operation may be used no more.
CHECK_DEADLOCK FALSE
