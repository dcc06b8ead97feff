\* Two calls to one session, which may be prompted again after it has finished, and
\* one question; queues of one.  A session that has gone takes no step.
SPECIFICATION Spec
CONSTANTS
    Calls <- TwoCalls
    Questions <- OneQuestion
    Capacity = 1
    Backlog = 1
    None = None
    Allowed = {"prompted again"}
    c1 = c1
    c2 = c2
    q1 = q1
    q2 = q2

    
PROPERTIES
    KeepsPromise
CHECK_DEADLOCK FALSE
