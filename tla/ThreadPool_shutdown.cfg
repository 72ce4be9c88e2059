CONSTANTS
    Clients = {o, c1}
    Owner = o
    Tasks = {t1, t2}
    Workers = {w1}
    MaxThreads = 1
    Pools = {p1, p2, p3}
    None = None
SPECIFICATION FairSpec
PROPERTIES ShutdownReturns
