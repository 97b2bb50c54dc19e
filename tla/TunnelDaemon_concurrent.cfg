CONSTANTS
    MaxU32 = 4
    MaxAttempts = 1
    BaseDelay = 2
    MaxDelay = 60
    SwitchNodeAfter = 3
    Callers = {c1, c2}
    Watchers = {}
    Main = main
    ProtoRequests <- MCCallUnspecified
    Ifaces = {auto, eth}
    AutoIface = auto
    ClientsMayAbort = TRUE
    MaxLoops = 2
    MaxUserConnects = 2
SYMMETRY MCSymmetry
SPECIFICATION Spec
INVARIANTS
    AwaitedTaskCancelled
    TransientStateHasDriver
    ConnectedInfoLive
