SPECIFICATION DeploySpec
CONSTANTS
    Ports = {p1, p2}
    Boards = {b1}
    SerialOf <- OneBoard
    LeaseIds = {l1}
    Hashes = {h1, h2}
    Deploys = {d1}
    Refreshers = {d1}
    None = None
    MaxInstant = 2
    MaxMoves = 1
    b1 = b1
    s1 = s1
SYMMETRY Symmetry
CONSTRAINT NoLapse
INVARIANT DeployTypeOK
PROPERTY SkipIsSound
CHECK_DEADLOCK FALSE
