SPECIFICATION CoroSpec
CONSTANTS
    Awaiting = "outer"
    Awaited = "inner"
    Caller = "inner"
    Resumed = {}
    Throwing = {"inner"}
    Yields = 5
PROPERTY GetReturns
CHECK_DEADLOCK FALSE
