CONSTANTS
    c1 = c1
    c2 = c2
    t1 = t1
    t2 = t2
    o1 = o1
    o2 = o2
    e1 = e1
    Free = Free
    Callers = {c1, c2}
    CaptureThreads = {t1, t2}
    Outputs = {o1, o2}
    Offloaded = {o1}
    Effects = {e1}
    MoveActive = FALSE
    CreateFails = TRUE
SPECIFICATION LiveSpec
INVARIANTS ListsAgree ThreadFollowsOutputs SleepsOnlyIdle
PROPERTIES CallsReturn EnabledIsFed
