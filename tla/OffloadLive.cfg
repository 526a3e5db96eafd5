SPECIFICATION LiveSpec
CONSTANTS
    c1 = c1
    c2 = c2
    OT = OT
    Clients = {c1, c2}
    Handles = {h1}
    NULL = NULL
    Free = Free
    Zero = Zero
    Mdata = {Zero}
    Allowed <- Playing
    FxLib = TRUE
    MaxCmds = 1
    MaxPaths = 2
PROPERTIES
    StopsEnd
    AnswerDelivered
    CloseEnds
