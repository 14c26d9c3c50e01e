CONSTANTS
    Senders = {s1, s2}
    Sources = {mic}
    Monitor = monitor
    Nothing = nothing
    MaxLoads = 2
    MaxKills = 0
SPECIFICATION Spec
PROPERTY OrphansOnly
