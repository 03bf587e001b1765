SPECIFICATION AppSpec
CONSTANTS
    MaxGuiEvents = 2
    MaxSessions = 2
    MaxLoads = 2
    MaxSources = 4
    MaxFrames = 2
INVARIANTS LoadingIsTrue CameraIsShown AppShowsCurrent
PROPERTIES ImplementsProtocol LoadingEnds
