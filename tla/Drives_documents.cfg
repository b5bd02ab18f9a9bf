\* Every reverse mode, periods that are and are not multiples of ten, and duties
\* that include zero and those of the shipped configuration and of the tests; one
\* write to the Maestro may be lost at a time.
CONSTANTS
    Width = 65536
    RevModes = {"NO_REVERSE", "SAME_LINE", "DEDICATED_LINE"}
    Periods = {10, 13, 50}
    Duties = {0, 5, 6, 10, 20, 65, 100}
    MaestroLevels <- MCLevels
    Channels = {0, 1, 2, 3, 4, 5}
    MaxUnsent = 1
    Documents <- MCDocuments
SPECIFICATION DrivesSpec
INVARIANTS
    DrivesTypeOK
    MaestroFollowsOrders
    DirectionFollowsAtOnce
    
    InputObeyed
PROPERTIES
    EngineWithinDuty
    FasterIsNotWeaker
    RudderNearExact
\* The program ends.
CHECK_DEADLOCK FALSE
