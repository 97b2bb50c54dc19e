CONSTANTS
    MaxU32 = 4
    MaxAttempts = 1
    BaseDelay = 2
    MaxDelay = 60
    SwitchNodeAfter = 3
    Callers = {c1}
    Watchers = {}
    Main = main
    ProtoRequests <- MCCallSplit
    Ifaces = {auto, eth}
    AutoIface = auto
    ClientsMayAbort = FALSE
    MaxLoops = 2
    MaxUserConnects = 2
SPECIFICATION Spec
INVARIANT AtMostOneLiveLoop
