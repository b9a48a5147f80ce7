SPECIFICATION LiveSpec
CONSTANTS
    None = none
    AllNamespaces = all
    Source = {"pods", "slices", "servers"}
    Main = "main"
    NoWorker = nobody
    Object <- MCObject
    Scenario <- MCScenario
INVARIANTS TypeOK HandledIsVisible ServesWhatWasSynced OutOfServiceIsLeft InServiceIsServed
PROPERTIES SnapshotMonotone CatchesUp
CHECK_DEADLOCK FALSE
