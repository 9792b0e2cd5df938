SPECIFICATION Spec
CONSTANTS
  c1 = c1  c2 = c2  p1 = p1  p2 = p2
  Ports = {p1, p2}
  Conns = {c1, c2}
  PortOf <- OneEach
  Rebinders = {r1}
  Closers = {x1}
  None = None
  MaxHops = 1
  MaxOpens = 3
INVARIANTS TypeOK NoOrphanReader 
CHECK_DEADLOCK FALSE
