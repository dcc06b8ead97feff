\* Two runs of the workflow of the other steps, looping until its limits stop it,
\* whose calls run out of their thirty seconds, and a restart.
SPECIFICATION Spec
CONSTANTS
    Runs <- Runs2
    Nodes <- NightlyNodes
    Start = "say"
    Graph <- Nightly
    MaxSteps = 5
    KeptFinished = 1
    Sessions = {s1}
    Terminals = {p1}
    Editions <- NightlyEditions
    None = None
    Tasks <- Tasks3
    MaxCalls = 1
    MaxTurns = 1
    MaxCrashes = 1
    Allowed = {"slow call", "timeout"}
    s1 = s1
    p1 = p1
    r1 = r1
    r2 = r2
    t1 = t1
    t2 = t2
    t3 = t3
SYMMETRY BothSymmetries3
INVARIANTS
    StepsWithinLimit
    StepWrittenFirst
    RowSaysWhatMemorySays
    FinishedAreFew
PROPERTIES
    RowsMoveForward
CHECK_DEADLOCK FALSE
