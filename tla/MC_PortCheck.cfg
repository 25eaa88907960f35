CONSTANTS
    LineSet <- MCPlainLines
    MaxLines = 3
    PortLists <- MCPortLists
    OptLists <- MCOptLists
SPECIFICATION Spec
INVARIANT AgreesWhenOptionalOpen
CHECK_DEADLOCK FALSE
