SPECIFICATION LiveSpec
CONSTANTS
    Base = 4
    MaxPayload = 3
    BufSize = 5
    MaxFrames = 2
    Frame <- MCFrame
INVARIANTS TypeOK FramesAsSent NothingWithheld
PROPERTIES ImplementsQueue FrameHandled
CHECK_DEADLOCK FALSE
