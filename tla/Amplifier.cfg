CONSTANTS
    m1 = m1
    m2 = m2
    Modes = {m1, m2}
    Normal = m1
    Timeout = 1
    Headphone = Headphone
    Speaker = Speaker
    Opener = Opener
    Setter = Setter
    Config = Config
    Writer = Writer
    NULL = NULL
    Free = Free
    Destroyed = Destroyed
SPECIFICATION LiveSpec
INVARIANTS ModeIsNotLost ConfiguredWhilePlaying
PROPERTIES DummyEnds
