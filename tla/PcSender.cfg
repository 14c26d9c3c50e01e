CONSTANTS
    QueueCap = 2
    IdleAfter = 2
    InitialBackoff = 1
    MaxBackoff = 5
SPECIFICATION FairSpec
INVARIANTS TypeOK NoStaleAudio OneWriter
PROPERTIES LinkSpec StopExits SilenceReleases AudioResumes
CONSTANT MaxSkew = 1
