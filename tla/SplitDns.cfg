CONSTANTS
    SplitList <- MCSplitList
    Exact4 <- MCExact4
    Exact6 <- MCExact6
    Wildcard <- MCWildcard
    Suffix <- MCSuffix
    V4Values <- MCV4
    V6Values <- MCV6
    Tasks = {t1, t2}
    Questions <- MCQuestions
    Names <- MCNames
    VpnSpecs <- MCVpnSpecs
    HostAddrs <- MCHostAddrs
    SystemServers <- MCTwoSystem
    FullNets <- MCFullNets
    SplitNets <- MCSplitNets
    Unbindable <- MCLinkLocal
    Interfaces = {TRUE, FALSE}
    Malformed = Malformed
    NoParent = NoParent
SPECIFICATION FairSpec
INVARIANTS
    OnlyUnkeptComeBack
    ServfailMeansAllFailed
    SplitDecision
PROPERTIES
    EveryQueryAnswered
    StopReleasesDevice
CHECK_DEADLOCK FALSE
