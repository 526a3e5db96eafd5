SPECIFICATION LiveSpec
CONSTANTS
    c1 = c1
    t1 = t1
    t2 = t2
    Clients = {c1}
    CallbackThreads = {t1, t2}
    IoFails = TRUE
    MaxUevents = 3
    MaxUnits = 6
    Chunk = 2
INVARIANTS RecognitionIsServed QuietAfterStop StreamInOrder
PROPERTIES StopReturns HotwordIsReported
