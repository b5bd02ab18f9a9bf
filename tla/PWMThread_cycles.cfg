\* A period of four; durations of none, half, all and more than the period;
\* gpiod may throw.
CONSTANTS
    Period = 4
    Width = 64
    Durations = {0, 2, 4, 5}
    MaxSets = 3
    MayFail = TRUE
SPECIFICATION FairSpec
INVARIANTS
    TypeOK
    CycleLastsOnePeriod
    HighOnlyInCycle
PROPERTIES
    SettingTakesEffect
