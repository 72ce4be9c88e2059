CONSTANTS
    Callers = {c1, c2}
    Users = {u1, u2}
    Permissions = {p1, p2}
    Roles = {admin, guest}
    Secrets = {v1}
    MaxSalts = 2
    Sockets = {s1, s2}
    Inquiries <- SomeInquiries
    MaxConnections = 1
    SizeLimit = 2
    Chains <- SomeChains
    Sessions = {w1, w2}
    Indicators = {"db", "mq"}
    Critical = {"db"}
    Aspects = {"a", "b"}
    Others = {"o"}
    Instances = {i1, i2}
    MaxSelects = 5
    MaxDepth = 2
    MaxCopies = 3
    MaxClock = 4
    Lifetimes = {0, 1, 2}
    Ahead = {0, 1}
    MaxInner = 2
    MaxTokens = 3
    Borrowers = {b1, b2, b3}
    MinSize = 1
    MaxSize = 2
    MaxTimes = 2
    MaxOpens = 3
    MaxUpdates = 2
SPECIFICATION Spec
INVARIANTS CredentialsSound ServersSound CallsSound ConnectionsSound
PROPERTIES EverythingEnds
CHECK_DEADLOCK FALSE
