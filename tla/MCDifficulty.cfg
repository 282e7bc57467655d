SPECIFICATION Spec
CONSTANTS
    Base = 4
    Digits = 5
    powLimit = 900
    Timespan = 8
    Spacing = 4
    MedianSpan = 3
    Steps <- MCSteps
    MaxHeight = 5
INVARIANTS
    ScaleTargetExact
    PresyncAccepts
    NextTargetDerivable
CHECK_DEADLOCK FALSE
