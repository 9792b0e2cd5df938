CONSTANTS
  Sources = {s1, s2}
  Headers = {h}
  Contents = {c1, c2}
  slow = slow
  debug = debug
  lean = lean
  Configs = {slow, debug, lean}
  MetaOf <- MCMetaOf
  CmdOf <- MCCmdOf
  LinkOf <- MCLinkOf
  None = None
  MaxEdits = 2
  MaxBuilds = 2
  MaxFaults = 1
SPECIFICATION Spec
SYMMETRY Alike
INVARIANTS TypeOK QuietBuildIsCurrent StampsAreSound
CHECK_DEADLOCK FALSE
