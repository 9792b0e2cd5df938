SPECIFICATION Spec
CONSTANTS
  p1 = p1
  None = None
  Requests = {r1, r2}
  Streaming = {r1}
  Uncapped = {}
  Projects = {p1}
  ProjectOf <- OneProject
  Locks = {l1, l2}
  Cleaners = {c1}
CHECK_DEADLOCK FALSE
INVARIANT OneBuildPerProject
