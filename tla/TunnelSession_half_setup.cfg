CONSTANTS
    ServerRoutes <- MCServerRoutes
    SystemDns <- MCSystemDns
    ForeignRoutes <- MCForeign
    BypassEntries <- MCEntries
    MayFail = {"bypass_add"}
    MayCrash = FALSE
SPECIFICATION Spec
INVARIANT NothingLeftBehind
