CONSTANTS
    Types <- MCTypes
    SipStates <- MCSipStates
    PjsipStates <- MCPjsipStates
    RttLimits <- MCRttLimits
    Long = FALSE
SPECIFICATION Spec
INVARIANT ReportFaithful PeerInv RstInv SocketErrorOnlyOnRefusal
PROPERTY PeerTermination
CHECK_DEADLOCK FALSE
