CONSTANTS
    Clients = {o, c1}
    Owner = o
    Tasks = {t1, t2}
    Workers = {w1, w2}
    MaxThreads = 2
    Pools = {p1, p2}
    None = None
SPECIFICATION FairSpec
INVARIANTS WorkersAccounted TaskHasOneOwner NoLostWakeup
PROPERTIES HighReachesWorker
