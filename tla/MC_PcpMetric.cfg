CONSTANTS
    Values <- MCValues
    ThresholdArgs <- MCThresholdArgs
    Outputs <- MCOutputs
    PipeCap = 3
SPECIFICATION Spec
INVARIANT ReadsLastLine StreamInv
PROPERTY PcpTermination
CHECK_DEADLOCK FALSE
