SPECIFICATION FairSpec
CONSTANTS
  b1 = b1  b2 = b2  s1 = s1
  None = None
  Boards = {b1, b2}
  SerialOf <- MCSerialOf
  Sick = {b1}
  ResetInterfaces <- MCResetInterfaces
  Ports = {n1, n2}
  Paths = {v1, v2}
  MaxDeploys = 2
  MaxTries = 2
  MaxStirs = 1
INVARIANTS TypeOK OneWriterPerEnumeration QuietDeployIsTrue
PROPERTY EveryDeployEnds
CHECK_DEADLOCK FALSE
