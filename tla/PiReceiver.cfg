CONSTANTS
    Conns = {c1, c2}
    MaxCrashes = 1
SPECIFICATION FairSpec
INVARIANTS TypeOK IdleWhenWaiting SessionOnBridge AtMostOneAfterStop
PROPERTIES BridgeNeedsHeader DaemonSpec StopExits CallersServed
