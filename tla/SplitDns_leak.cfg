CONSTANTS
    SplitList <- MCSplitList
    Exact4 <- MCExact4
    Exact6 <- MCExact6
    Wildcard <- MCWildcard
    Suffix <- MCSuffix
    V4Values <- MCV4
    V6Values <- MCV6
    Tasks = {t1, t2}
    Questions <- MCQuestions
    Names = {}
    VpnSpecs <- MCVpnSpecs
    HostAddrs <- MCHostAddrs
    SystemServers <- MCTwoSystem
    FullNets <- MCFullNets
    SplitNets <- MCSplitNets
    Unbindable <- MCLinkLocal
    Interfaces = {TRUE}
    Malformed = Malformed
    NoParent = NoParent
SPECIFICATION Spec
INVARIANT RoutedGoesThroughTun
CHECK_DEADLOCK FALSE
