CONSTANTS
  Sources = {s1}
  Headers = {h}
  Contents = {c1, c2}
  slow = slow
  debug = debug
  lean = lean
  Configs = {slow, debug, lean}
  MetaOf <- MCMetaOf
  CmdOf <- MCCmdOf
  LinkOf <- MCLinkOf
  None = None
  MaxEdits = 1
  MaxBuilds = 2
  MaxFaults = 0
SPECIFICATION Spec
SYMMETRY Alike
INVARIANT HitHonoursConfig
CHECK_DEADLOCK FALSE
