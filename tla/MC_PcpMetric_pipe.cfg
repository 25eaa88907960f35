CONSTANTS
    Values <- MCValues
    ThresholdArgs <- MCThresholdArgs
    Outputs <- MCLongOutputs
    PipeCap = 3
SPECIFICATION Spec
PROPERTY PcpTermination
CHECK_DEADLOCK FALSE
