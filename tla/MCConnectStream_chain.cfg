SPECIFICATION Spec
CONSTANTS
    b1 = b1
    b2 = b2
    far = far
    small = small
    big = big
    NoBackend = NoBackend
    NoContent = NoContent
    Absent = Absent
    Stream = {s1}
    Bidi = {s1}
    NPlugins = 2
    Wasm = {2}
    Backend <- MCBackend
    Content <- MCContent
    LongHost <- MCLongHost
    TooLarge <- MCTooLarge
    Route <- MCRoute
    ErrKind <- MCErrKind
    ReasonSize <- MCReasonSize
    Script <- TwoConnects
    Response <- ManyResponses
INVARIANTS TypeOK AnswerShape RejectedForCause
PROPERTY ImplementsVerdict
CHECK_DEADLOCK FALSE
