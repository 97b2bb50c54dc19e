CONSTANTS
    LivenessPoll = 3
    NetworkPoll = 5
    ReportInterval = 15
    ConnectTimeout = 15
    LivenessTimeout = 30
    ProbeInterval = 3
    DnsTimeout = 3
    Servers = 2
    DeadServers = 1
    MaxReport = 2
    Networks = {none, wifi}
    Default = none
    TunnelCanDie = TRUE
    LookupMayFail = TRUE
    CaptureMayFail = TRUE
SPECIFICATION Spec
INVARIANTS
    AliveIsNotTimedOut
    DeadlinesKept
    LossNoticed
    ChangeHasCause
