SPECIFICATION InferenceSpec
CONSTANTS
    MaxLoads = 2
    MaxSources = 4
    MaxFrames = 3
INVARIANTS InferenceTypeOK LoadAccountedFor ReadyIsLoaded ShownIsCurrent WorkerIsWoken
PROPERTIES ShownGoesForward WorkIsDone
