SPECIFICATION FairSystem
CONSTANTS
    Conns = {c1, c2}
    Senders = {s1}
    MaxFaults = 1
    MaxKills = 0
PROPERTIES DisconnectRestoresIdle
CHECK_DEADLOCK FALSE
