SPECIFICATION InstallFairSpec
CONSTANTS
  Nothing = Nothing
  Installers = {p1, p2, p3}
  MaxMishaps = 1
  MaxSweeps = 1
CHECK_DEADLOCK FALSE
INVARIANTS
  InstallTypeOK
  OneInstaller
  TreeIsWhole
PROPERTY EveryInstallEnds
