CONSTANTS
    Callers = {c1}
    Users = {u1}
    Permissions = {p1}
    Roles = {admin}
    Secrets = {v1}
    MaxSalts = 2
    Sockets = {s1}
    Inquiries <- SomeInquiries
    MaxConnections = 1
    SizeLimit = 2
    Chains <- SomeChains
    Sessions = {w1}
    Indicators = {"db"}
    Critical = {"db"}
    Aspects = {"a"}
    Others = {"o"}
    Instances = {i1}
    MaxSelects = 1
    MaxDepth = 1
    MaxCopies = 1
    MaxClock = 4
    Lifetimes = {0, 1, 2}
    Ahead = {0, 1}
    MaxInner = 2
    MaxTokens = 3
    Borrowers = {b1}
    MinSize = 1
    MaxSize = 1
    MaxTimes = 1
    MaxOpens = 3
    MaxUpdates = 2
SPECIFICATION Spec
INVARIANT RetrievesPlaintext
CHECK_DEADLOCK FALSE
