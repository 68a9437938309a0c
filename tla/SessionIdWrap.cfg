SPECIFICATION BoundedSpec
CONSTANTS
    Sessions = {s1}
    Tasks = {t1}
    Messages = {m1}
    EnqueueQoS = {1}
    IdModulus = 4
    MaxEnqueues = 5
    MaxQueue = 0
    NoTask = NoTask
    NoSession = NoSession
    NoMessage = NoMessage
INVARIANTS
    NeighboursDiffer
