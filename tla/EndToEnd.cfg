SPECIFICATION FairSystem
CONSTANTS
    Conns = {c1, c2}
    Senders = {s1, s2}
    MaxFaults = 1
    MaxKills = 1
INVARIANTS SystemTypeOK
PROPERTIES FreesPi GetsThePi
CHECK_DEADLOCK FALSE
