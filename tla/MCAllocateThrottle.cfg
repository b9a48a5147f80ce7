SPECIFICATION LiveSpec
CONSTANTS
    Caller = {c1, c2, c3}
    Interval = 2
    MaxTickets = 3
    LastCall = 2
    MaxNow = 8
INVARIANTS TypeOK SlotsApart RateBound
PROPERTY EveryCallEnds
CHECK_DEADLOCK FALSE
