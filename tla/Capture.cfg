CONSTANTS
    Size = 3
    CaptureSizes = {2, 3}
    MaxCaptureSize = 3
    Window = 2
    MaxStall = 1
    Discard = 2
    FullScale = 4
    Buffers <- MCBuffers
    MaxFrames = 2
    Numbers = 7
    Silence = Silence
SPECIFICATION CaptureSpec
INVARIANTS CaptureIsLatest PeakIsOfWindow
