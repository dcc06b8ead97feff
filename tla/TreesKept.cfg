\* Two roles in one project, each with one session at a time.
SPECIFICATION Spec
CONSTANTS
    Projects = {pushos}
    Isolated = {pushos}
    Roles <- TwoRoles
    Sessions <- TwoSessions
    Startup = Startup
    None = None
    Allowed = {"disk full"}
    pushos = pushos
    site = site
    builder = builder
    reviewer = reviewer
    s1 = s1
    s2 = s2
    s3 = s3
SYMMETRY OfTwo
INVARIANTS
    
    
    LeasesBelongToSomebody
    NoTreeLeftBehind
CHECK_DEADLOCK FALSE
