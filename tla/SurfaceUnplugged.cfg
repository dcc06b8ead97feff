\* The cable is pulled out while the screen stands still.
CHECK_DEADLOCK FALSE
SPECIFICATION Spec
CONSTANTS
    pad = pad
    knob = knob
    None = None
    Controls = {pad, knob}
    Views <- SomeViews
    Capacity = 2
    MostViews = 2
    MostPlugs = 1
    Allowed = {}
PROPERTY UnpluggedIsLetGo
