SPECIFICATION HangingDriverSpec
CONSTANTS
    MaxGuiEvents = 4
    MaxSessions = 4
INVARIANTS ProtocolTypeOK NoOverlap ReleasedWhenStartable AnnouncedMeansReleased SessionAccountedFor WatchedWhileWaiting
PROPERTIES SessionsOpenInOrder WaitingEnds RecoveryEnds
