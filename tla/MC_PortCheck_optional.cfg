CONSTANTS
    LineSet <- MCPlainLines
    MaxLines = 3
    PortLists <- MCPortLists
    OptLists <- MCOptLists
SPECIFICATION Spec
INVARIANT AlwaysAgreesWithSpec
CHECK_DEADLOCK FALSE
