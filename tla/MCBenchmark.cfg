SPECIFICATION BenchmarkSpec
CONSTANTS
    Configurations <- MCConfigurations
    Latencies = {0, 3, 10, 9999}
    Invalid = 9999
INVARIANT FinishedIsMeasured
CHECK_DEADLOCK FALSE
