SPECIFICATION Spec
CONSTANTS
    Ports = {p1, p2}
    Boards = {b1, b2}
    SerialOf <- TwoBoards
    LeaseIds = {l1, l2}
    Hashes = {}
    Refreshers = {r1}
    None = None
    MaxInstant = 1
    MaxMoves = 1
    b1 = b1
    b2 = b2
    s1 = s1
    s2 = s2
SYMMETRY Symmetry
INVARIANTS
    TypeOK
    LeaseIdsUnique
PROPERTY
    LeasesEndOnlyByRelease
CHECK_DEADLOCK FALSE
