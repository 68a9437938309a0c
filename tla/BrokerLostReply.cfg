SPECIFICATION Spec
CONSTANTS
    t1 = t1
    t2 = t2
    c1 = c1
    c2 = c2
    Tasks = {t1, t2}
    ClientIds = {c1, c2}
    UsesIds <- OneIdEach
    Tcp = {}
    SecondConnect = FALSE
    Requests <- OneFilter
    Topics <- TopicA
    Sends <- Everything
    PublishQoS = {1}
    MaxPackets <- FourAndTwo
    Sessions = {1, 2}
    Messages = {1}
    EnqueueQoS = {1}
    IdModulus = 8
    NoTask = NoTask
    NoSession = NoSession
    NoMessage = NoMessage
PROPERTIES
    RepliesReachTheChannel
