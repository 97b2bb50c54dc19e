CONSTANTS
    ServerRoutes <- MCServerRoutes
    SystemDns <- MCSystemDns
    ForeignRoutes <- MCForeign
    BypassEntries <- MCEntries
    MayFail = {"dns_server"}
    MayCrash = FALSE
SPECIFICATION Spec
INVARIANT NothingLeftBehind
