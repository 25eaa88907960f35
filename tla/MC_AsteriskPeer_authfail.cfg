CONSTANTS
    Types <- MCTypes
    SipStates <- MCSipStates
    PjsipStates <- MCPjsipStates
    RttLimits <- MCRttLimits
    Long = FALSE
SPECIFICATION Spec
INVARIANT AuthFailureReported
CHECK_DEADLOCK FALSE
