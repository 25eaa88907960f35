CONSTANTS
    NaN = NaN
    NonInt <- NaN
    TTLs <- MCTTLs
    Reports <- MCReports
    Ports <- MCPorts
    OptPorts <- MCOptPorts
    MaxInterrupts = 1
    ClockCap = 2
    MaxKills = 2
SPECIFICATION Spec
INVARIANT TypeOK ReportFaithful TmpFileRemoved
PROPERTY Termination OutcomeFinal
CHECK_DEADLOCK FALSE
