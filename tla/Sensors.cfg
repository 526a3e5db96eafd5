CONSTANTS
    acc = acc
    motion = motion
    Sensor <- MCSensor
    OneShot <- MCOneShot
    Meta = Meta
    TimeBase = TimeBase
    NoEvent = NoEvent
    NoSensor = NoSensor
    RingSize = 2
    KernelSize = 2
    ArraySize = 2
    MaxWakes = 1
    MaxArmed = 1
    MaxErrors = 1
SPECIFICATION FairSpec
INVARIANTS OneShotOnce EnabledIsServed
PROPERTIES PipeIsQueue EventsFlow
