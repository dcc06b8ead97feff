\* One pad opens and another ends the same terminal, which also ends by itself.
SPECIFICATION Spec
CONSTANTS
    Ids <- TwoIds
    Names <- OneName
    Calls <- TwoCalls
    Most = 1
    Kept = 1
    Backlog = 1
    None = None
    Allowed = {}
    t1 = t1
    t2 = t2
    shell = shell
    c1 = c1
    c2 = c2
INVARIANTS
    
    ListedIsRunning
    
PROPERTIES
    ClosedTerminalEnds
CHECK_DEADLOCK FALSE
