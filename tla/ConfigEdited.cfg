\* One client edits two files, the operator writes one of them, and PushOS may
\* die and be started again.  Everyone is at rest in the end: there is no deadlock
\* to look for.
SPECIFICATION Spec
CONSTANTS
    k1 = k1
    k2 = k2
    pad = pad
    knob = knob
    home = home
    dev = dev
    None = None
    Watcher = Watcher
    Ids = {"stop", "open", "open too", "on dev", "on dev too", "hard stop",
           "louder", "next"}
    Controls = {pad, knob}
    Pads = {pad}
    Pages = {home, dev}
    Workspaces = {}
    HomePage = home
    Clients <- OneClient
    FirstFiles <- TwoFiles
    Edits <- SomeEdits
    Drafts <- SomeDrafts
    MostEdits = 2
    MostDrafts = 1
    MostCrashes = 1
    Allowed = {}
INVARIANTS
    EveryStrikeIsDecided
    
PROPERTIES
    EndsAsWritten
CHECK_DEADLOCK FALSE
