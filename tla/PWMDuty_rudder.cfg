\* The default duties and a period that is not a multiple of ten.
CONSTANTS
    Width = 65536
    RevModes = {"NO_REVERSE"}
    Periods = {13}
    Duties = {10, 20}
SPECIFICATION Spec
PROPERTIES
    RudderWithinDuty
