CONSTANTS
    Volumes = {1, 2, 3}
    Unity = 2
    MaxEvents = 2
    Faults = TRUE
SPECIFICATION FairSpec
INVARIANTS TypeOK InStepWhenIdle
PROPERTIES ChangeArrives Resubscribes
