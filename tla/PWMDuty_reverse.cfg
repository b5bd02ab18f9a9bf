\* The default duties, one line for both directions.
CONSTANTS
    Width = 65536
    RevModes = {"SAME_LINE"}
    Periods = {50}
    Duties = {10, 20}
SPECIFICATION Spec
PROPERTIES
    ReverseIsBelowStop
