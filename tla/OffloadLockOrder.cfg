SPECIFICATION Spec
CONSTANTS
    c1 = c1
    c2 = c2
    OT = OT
    Clients = {c1, c2}
    Handles = {h1, h2}
    NULL = NULL
    Free = Free
    Zero = Zero
    Mdata = {Zero, m1}
    Allowed <- TwoDrivers
    FxLib = TRUE
    MaxCmds = 2
    MaxPaths = 2
INVARIANT
    LockOrder
