SPECIFICATION Spec
CONSTANTS
  d = d
  Resolvers = {r1, r2}
  Procs = {d}
  ProcOf <- MCProcOf
  Blobs = {b1, b2}
  None = None
  MaxId = 3
  MaxPasses = 2
  MaxStarts = 1
  MaxFaults = 1
INVARIANTS
  TypeOK
  PinsAreCounted
  RefcountsMatchGuards
  LeasesAreRespected
CHECK_DEADLOCK FALSE
SYMMETRY BuildSymmetry
