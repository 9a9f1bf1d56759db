CONSTANTS
    Jobs <- MCJobs
    Workers = {w1, w2}
    NoJob = NoJob
    Conns = {c1, c2}
    NoConn = NoConn
    BodyMethods = {"POST"}
    k1 = k1
    k2 = k2
    a1 = a1
    NoClient = NoClient
    NoAccount = NoAccount

SPECIFICATION ServicesSpec
CHECK_DEADLOCK FALSE

INVARIANTS
    TypeOK
    NoLostWakeUp
    NoUseAfterFree
    NothingLeaks
    WorkersAreUndisturbed
    AnswersGoToTheAsker
    StoppedClean

PROPERTIES
    RequestsSpec
    EveryRequestEnds
    StopEnds
    LostConnectionsEnd
    KickedConnectionsEnd
