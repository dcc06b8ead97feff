\* Two controls, three in four of the configurations with something that
\* waits, and a loop that may be late by a tick and lose what does not fit.  Two
\* touches are a double tap, or a press that wakes the surface and another; two
\* turns are a computer that sleeps and wakes, or a reload in mid-press.
SPECIFICATION Spec
CONSTANTS
    c1 = c1
    c2 = c2
    NoControl = NoControl
    Controls <- TwoControls
    Interests <- SomeInterests
    Hold = 2
    Window = 1
    DimAfter = 2
    SleepAfter = 3
    InputCapacity = 2
    MostTouches = 2
    MostLate = 1
    MostTurns = 2
    Allowed = {"late loop", "dropped input"}
INVARIANTS
    OneMeaning
    HalvesAreExplained
    
PROPERTIES
    NothingWaitsForEver
