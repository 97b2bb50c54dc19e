CONSTANTS
    MaxU32 = 4
    MaxAttempts = 1
    BaseDelay = 2
    MaxDelay = 60
    SwitchNodeAfter = 3
    Callers = {c1}
    Watchers = {w1}
    Main = main
    ProtoRequests <- MCCallBoth
    Ifaces = {auto, eth}
    AutoIface = auto
    ClientsMayAbort = FALSE
    MaxLoops = 2
    MaxUserConnects = 1
SPECIFICATION FairSpec
INVARIANTS
    AtMostOneLiveLoop
    DisconnectedMeansDown
    NoLeakAtExit
    SessionFollowsConfig
    ShownRequestIsCurrent
    TransientStateHasDriver
PROPERTIES
    WatcherCatchesUp
    ShutdownCompletes
    CancelledLoopEnds
    DisconnectingEnds
