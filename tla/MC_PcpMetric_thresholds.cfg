CONSTANTS
    Values <- MCValues
    ThresholdArgs <- MCThresholdArgs
    Outputs <- MCOutputs
    PipeCap = 3
SPECIFICATION Spec
INVARIANT ThresholdsAsDocumented
CHECK_DEADLOCK FALSE
