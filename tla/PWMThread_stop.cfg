\* The same durations; gpiod does not throw.
CONSTANTS
    Period = 4
    Width = 64
    Durations = {0, 2, 4, 5}
    MaxSets = 3
    MayFail = FALSE
SPECIFICATION FairSpec
PROPERTIES
    StopEndsThread
