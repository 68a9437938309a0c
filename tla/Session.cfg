SPECIFICATION BoundedFairSpec
CONSTANTS
    Sessions = {s1}
    Tasks = {t1, t2, t3}
    Messages = {m1}
    EnqueueQoS = {1, 2}
    IdModulus = 3
    MaxEnqueues = 3
    MaxQueue = 1
    NoTask = NoTask
    NoSession = NoSession
    NoMessage = NoMessage
INVARIANTS
    SessionTypeOK
    UniqueIds
    UnackedIsPending
PROPERTIES
    AckRetiresItsOwn
    EveryEnqueueReturns
