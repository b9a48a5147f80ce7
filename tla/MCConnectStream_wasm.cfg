SPECIFICATION LiveSpec
CONSTANTS
    b1 = b1
    b2 = b2
    far = far
    small = small
    big = big
    NoBackend = NoBackend
    NoContent = NoContent
    Absent = Absent
    Stream = {s1}
    Bidi = {s1}
    NPlugins = 1
    Wasm = {1}
    Backend <- MCBackend
    Content <- MCContent
    LongHost <- MCLongHost
    TooLarge <- MCTooLarge
    Route <- GoodRoute
    ErrKind <- MCErrKind
    ReasonSize <- AllFit
    Script <- OneConnect
    Response <- FewResponses
PROPERTY PluginCallEnds
CHECK_DEADLOCK FALSE
