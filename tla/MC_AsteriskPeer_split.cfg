CONSTANTS
    Types <- MCTypes
    SipStates <- MCSipStates
    PjsipStates <- MCPjsipStates
    RttLimits <- MCRttLimits
    Long = TRUE
SPECIFICATION Spec
PROPERTY PeerTermination
CHECK_DEADLOCK FALSE
