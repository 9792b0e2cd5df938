SPECIFICATION FairSpec
CONSTANTS
  p1 = p1
  None = None
  Requests = {r1, r2, r3}
  Streaming = {r1}
  Uncapped = {r3}
  Projects = {p1}
  ProjectOf <- OneProject
  Locks = {l1, l2}
  Cleaners = {c1}
CHECK_DEADLOCK FALSE
INVARIANTS
  TypeOK
  LocksAccounted
  BuildsExclude
  FlagIsNotStuck
PROPERTY EveryRequestEnds
