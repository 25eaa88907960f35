CONSTANTS
    LineSet <- MCServiceLines
    MaxLines = 2
    PortLists <- MCPortLists
    OptLists <- MCNoOptLists
SPECIFICATION Spec
INVARIANT AlwaysAgreesWithSpec
CHECK_DEADLOCK FALSE
