SPECIFICATION Spec
CONSTANTS
    Shapes = {"cursor", "window", "limit"}
    Honesty = {TRUE, FALSE}
    Bounds = {0, 3}
    Limits = {0, 1, 2}
    DefaultLimit = 3
    Burst = 1
    MaxItems = 4
INVARIANT
    TypeOK
PROPERTIES
    Implements
    IterationEnds
