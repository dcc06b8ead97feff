\* Callers that ask, prompt and release as the supervisor lets them.
SPECIFICATION Spec
CONSTANTS
    Projects = {pushos}
    Isolated = {pushos}
    Roles <- TwoRoles
    Sessions <- TwoSessions
    Startup = Startup
    None = None
    Allowed = {"git fails", "start fails", "asked again", "released again", "prompted again", "fleet"}
    pushos = pushos
    site = site
    builder = builder
    reviewer = reviewer
    s1 = s1
    s2 = s2
    s3 = s3
SYMMETRY OfTwo
INVARIANTS
    OneHolderPerTree
    HeldTreesExist
    SetAsideComesBack
CHECK_DEADLOCK FALSE
