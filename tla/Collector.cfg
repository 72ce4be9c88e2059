\* start() and stop() of the collector from two threads.
SPECIFICATION CollectorSpec
CONSTANTS
    Operators = {o1, o2}
    Monitors = {m1}
    MaxSpawned = 2
INVARIANT StoppedMeansStopped
CHECK_DEADLOCK FALSE
