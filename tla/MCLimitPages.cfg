SPECIFICATION Spec
CONSTANTS
    Shapes = {"limit"}
    Honesty = {TRUE}
    Bounds = {0, 3}
    Limits = {0, 1, 2}
    DefaultLimit = 3
    Burst = 1
    MaxItems = 4
PROPERTY
    EveryPageThenEnd
