SPECIFICATION PreSpec
CONSTANT Requests <- MCRequests
INVARIANTS RatioKept RestoreUndoesSampling
CHECK_DEADLOCK FALSE
