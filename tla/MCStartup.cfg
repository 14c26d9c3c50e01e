SPECIFICATION FairSpec
CONSTANTS
    p1 = p1
    p2 = p2
    None = None
    Pis = {p1, p2}
    DeviceOf <- MCDeviceOf
    Devices <- MCDevices
    Requests <- MCRequests
    IdleCaps <- MCIdleCaps
    BridgeCap <- MCBridgeCap
    BrowseTime = 2
    OpenTime = 3
    ReopenTime = 2
    MaxFaults = 2
INVARIANTS TypeOK PlaysAsCaptured OpensBest
PROPERTIES Settles
CHECK_DEADLOCK FALSE
