CONSTANTS
    ServerRoutes <- MCServerRoutes
    SystemDns <- MCSystemDns
    ForeignRoutes <- MCForeign
    BypassEntries <- MCEntries
    MayFail <- FailPoints
    MayCrash = TRUE
SPECIFICATION Spec
INVARIANTS
    BypassOutlivesRoutes
    StopLeavesOnlyStuck
    RunningIsTracked
