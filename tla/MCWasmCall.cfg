SPECIFICATION Spec
CONSTANTS
    Call = {c1, c2, c3}
    Reuses = TRUE
    MaxBuffers = 3
    Nothing = Nothing
INVARIANT AnswerIsOwn
CHECK_DEADLOCK FALSE
