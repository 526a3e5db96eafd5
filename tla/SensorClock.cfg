CONSTANTS
    s1 = s1
    Sensor = {s1}
    MaxTime = 5
    MaxRuns = 2
    QueueSize = 2
    Rounding = 1
    Memory = {0, 2}
    Poll = Poll
    Periodic = Periodic
    NULL = NULL
SPECIFICATION Spec
CHECK_DEADLOCK FALSE
INVARIANTS StampFollowsSync
PROPERTIES StampsNeverGoBack
