\* Two runs written through a queue of one, with the record trimmed at every
\* other event and the process lost and started again.
SPECIFICATION Spec
CONSTANTS
    Runs <- TwoRuns
    Capacity = 1
    TrimEvery = 2
    EventsKept = 1
    FinishedKept = 1
    MostWrites = 2
    MostEvents = 4
    MostStarts = 2
    None = None
    Allowed = {"failed write"}
    r1 = r1
    r2 = r2
INVARIANTS
    AcknowledgedIsOnDisk
    StepsHaveTheirRun
    WindowHolds
    AcceptedIsCommitted
PROPERTIES
    WaitsEnd
CHECK_DEADLOCK FALSE
