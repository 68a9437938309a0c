SPECIFICATION Spec
CONSTANTS
    t1 = t1
    t2 = t2
    c1 = c1
    c2 = c2
    Tasks = {t1, t2}
    ClientIds = {c1, c2}
    UsesIds <- OneIdEach
    Tcp = {}
    SecondConnect = FALSE
    Requests <- OneFilter
    Topics <- TopicA
    Sends <- SubscribeOncePublishTwice
    PublishQoS = {2}
    MaxPackets <- TwoAndFour
    Sessions = {1, 2, 3}
    Messages = {1}
    EnqueueQoS = {1}
    IdModulus = 8
    NoTask = NoTask
    NoSession = NoSession
    NoMessage = NoMessage
INVARIANTS
    ExactlyOnce
