CONSTANTS
    Conns = {c1}
    MaxCrashes = 0
SPECIFICATION FairSpec
PROPERTY FrozenCamillaCannotHangStop
