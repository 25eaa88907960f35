CONSTANTS
    NaN = NaN
    NonInt <- NaN
    TTLs <- MCIntTTLs
    Reports <- MCReports
    Ports <- MCPorts
    OptPorts <- MCOptPorts
    MaxInterrupts = 1
    ClockCap = 2
    MaxKills = 2
SPECIFICATION Spec
PROPERTY Refines
CHECK_DEADLOCK FALSE
