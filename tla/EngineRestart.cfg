\* A restart with a store that fails, rows written late, and a pad pressed before
\* the unfinished runs have been picked up.
SPECIFICATION Spec
CONSTANTS
    Runs = {r1}
    Nodes <- WorkNodes
    Start = "work"
    Graph <- Work
    MaxSteps = 1
    KeptFinished = 1
    Sessions = {s1}
    Terminals = {p1}
    Editions <- WorkEditions
    None = None
    Tasks <- Tasks2
    MaxCalls = 1
    MaxTurns = 1
    MaxCrashes = 1
    Allowed = {"cancel", "early start", "late write", "store failure"}
    s1 = s1
    p1 = p1
    r1 = r1
    r2 = r2
    t1 = t1
    t2 = t2
    t3 = t3
SYMMETRY Symmetry2
INVARIANTS
    NoRunIsAbandoned
CHECK_DEADLOCK FALSE
