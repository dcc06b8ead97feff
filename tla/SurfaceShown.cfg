\* Three views of two lights, through a queue of two messages; the surface may
\* be pulled out once, and PushOS may be stopped.  A stopped PushOS takes no step.
SPECIFICATION Spec
CONSTANTS
    pad = pad
    knob = knob
    None = None
    Controls = {pad, knob}
    Views <- SomeViews
    Capacity = 2
    MostViews = 2
    MostPlugs = 1
    Allowed = {}
INVARIANTS
    AtRestItIsRight
    HandedBack
PROPERTIES
    ShownInTheEnd
    StopEnds
CHECK_DEADLOCK FALSE
