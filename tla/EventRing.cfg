CONSTANTS
    N = 3
    e1 = e1
    e2 = e2
    Event <- MCEvent
    NoEvent = NoEvent
SPECIFICATION Spec
PROPERTIES IsBoundedQueue
