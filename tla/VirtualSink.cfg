CONSTANTS
    Senders = {s1, s2}
    Sources = {mic, headset}
    Monitor = monitor
    Nothing = nothing
    MaxLoads = 3
    MaxKills = 2
SPECIFICATION Spec
INVARIANTS TypeOK OneSink
PROPERTY LeavesNoTrace
