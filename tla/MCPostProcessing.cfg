SPECIFICATION Spec
CONSTANTS
    NaN = 9999
    Requests <- MCRequests
INVARIANTS NothingInvented SuppressionIsRight
CHECK_DEADLOCK FALSE
