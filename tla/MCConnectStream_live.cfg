SPECIFICATION LiveSpec
CONSTANTS
    b1 = b1
    b2 = b2
    far = far
    small = small
    big = big
    NoBackend = NoBackend
    NoContent = NoContent
    Absent = Absent
    Stream = {s1, s2}
    Bidi = {s1}
    NPlugins = 1
    Wasm = {}
    Backend <- MCBackend
    Content <- MCContent
    LongHost <- MCLongHost
    TooLarge <- MCTooLarge
    Route <- MCRoute
    ErrKind <- MCErrKind
    ReasonSize <- MCReasonSize
    Script <- OneConnect
    Response <- SomeResponses
PROPERTIES ConnectAnswered HandlersStop
CHECK_DEADLOCK FALSE
