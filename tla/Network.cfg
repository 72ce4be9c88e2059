CONSTANTS
    ClientRetries = 0
    MaxRetry = 1
    MaxArmed = 2
    MaxPending = 2
    Configs <- SomeConfigs
    Threads = {t1, t2}
    Parts = 2
    Rates = {1, 4}
    Bursts = {0, 2}
    Permits = {1, 2}
    WindowLen = 1
    MaxClock = 1
    Callers = {c1, c2}
    None = None
    MaxTime = 2
    BreakerConfigs <- ManyConfigs
    SetterValues <- ManyChoices
    Clients = {c1, c2}
    Urls = {u1, u2}
    Conns = {n1, n2}
    Limits = {1, 2}
    NoConn = NoConn
    Requests = {r1, r2}
    RetryLimits = {0, 1, 2}
    ApiKeys = {"Content-Type"}
    MaxCalls = 2
    Size = 3
    MaxUploads = 3
    Interceptors = {"auth", "log"}
    Messages = {1, 2}
    Timeouts = {1}
    MaxChain = 2
    MaxSequence = 2
    Lasting = {"a", "b"}
    Passing = {"s"}
    Recorders = {"r1", "r2"}
    MaxObjects = 2
    MaxCounted = 1
    MaxTimes = 3
    Durations = {0, 1, 2}
SPECIFICATION Spec
INVARIANTS ManagerSound LimitersSound ExchangesSound
PROPERTIES Recovers BreakerSound PoolSound
CHECK_DEADLOCK FALSE
