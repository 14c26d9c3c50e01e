CONSTANTS
    Volumes = {1, 2, 3}
    Unity = 2
    MaxEvents = 2
    Faults = FALSE
SPECIFICATION FairSpec
PROPERTY InSync
