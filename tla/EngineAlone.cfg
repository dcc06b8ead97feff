\* One run of the workflow of every waiting step, one operator call at a time,
\* nothing cancelled, two crashes, each of which may find the workflow edited or gone.
SPECIFICATION FairSpec
CONSTANTS
    Runs = {r1}
    Nodes <- ShipNodes
    Start = "plan"
    Graph <- Ship
    MaxSteps = 5
    KeptFinished = 1
    Sessions = {s1}
    Terminals = {p1}
    Editions <- ShipEditions
    None = None
    Tasks <- Tasks3
    MaxCalls = 1
    MaxTurns = 1
    MaxCrashes = 2
    Allowed = {"timeout", "agent asks"}
    s1 = s1
    p1 = p1
    r1 = r1
    r2 = r2
    t1 = t1
    t2 = t2
    t3 = t3
INVARIANTS
    OneDriver
    HistoryFollowsGraph
    EveryWaitHasAnEnd
PROPERTIES
    
    EveryRunSettles
CHECK_DEADLOCK FALSE
