SPECIFICATION Spec
CONSTANTS
    t1 = t1
    t2 = t2
    c1 = c1
    c2 = c2
    Tasks = {t1, t2}
    ClientIds = {c1, c2}
    UsesIds <- OneIdEach
    Tcp = {t1}
    SecondConnect = FALSE
    Requests <- MixedFilters
    Topics <- TopicA
    Sends <- SubscriberAndPublisher
    PublishQoS = {0, 1}
    MaxPackets <- ThreeAndTwo
    Sessions = {1, 2, 3}
    Messages = {1}
    EnqueueQoS = {1}
    IdModulus = 8
    NoTask = NoTask
    NoSession = NoSession
    NoMessage = NoMessage
INVARIANTS
    BrokerTypeOK
    ConnectedIsRegistered
    GrantedIsInstalled
    AckedIsDelivered
