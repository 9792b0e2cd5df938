SPECIFICATION FairSpec
CONSTANTS
    Conns = {c1, c2}
    Clients = {x1, x2}
    ClientOf <- TwoClients
    KindOf <- WsMonitor
    Deploys = {d1}
    None = None
    c1 = c1
    c2 = c2
    x1 = x1
    x2 = x2
INVARIANTS
    TypeOK
    HandleAccounted
    NoDanglingClients

    
CHECK_DEADLOCK FALSE
