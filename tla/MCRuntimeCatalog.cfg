SPECIFICATION CatalogSpec
CONSTANTS
    FloatLimit = 1000000
    Disk <- MCDisk
    Directories <- MCDirectories
    Added <- MCAdded
    Respecified <- MCRespecified
    Decoded <- MCDecoded
    Requests <- MCRequests
    MaxCalls = 2
    MaxLoads = 2
    Ids = {"yolo", "nano", "pico", "absent"}
INVARIANTS LoadedAsDocumented StaleResultRejected
PROPERTY AllOrNothing
CHECK_DEADLOCK FALSE
