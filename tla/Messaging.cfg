CONSTANTS
    k1 = k1
    k2 = k2
    Exchanges = {ex}
    Queues = {q1, q2}
    Keys = {k1}
    Matching <- PatternMatches
    Prefetches = {0, 1}
    MaxCopies = 2
    MaxBindings = 2
    MaxRequeueTag = 2
    MaxConsumes = 1
    Callers = {c1, c2}
    Dispatchers = {d1, d2, d3}
    MaxWork = 1
    None = None
    Words = {"a", "b"}
    MaxWords = 3
    Intervals = {3, 5}
    MaxDelay = 4
    ChTopics = {"t1"}
    ChQueues = {"q1"}
    Payloads <- SomePayloads
    MaxTags = 2
    MaxPendingOps = 2
    MaxMessages = 1
SPECIFICATION Spec
INVARIANTS BrokerSound DispatcherSound RoutingSound
PROPERTIES  RetriesGoOn
CHECK_DEADLOCK FALSE
