SPECIFICATION FairSpec
CONSTANTS
    Machines <- MCMachines
    Configs <- MCConfigs
    Tun = "tun0"
    Hosts = {"name", "not a name", "vpn.example", "10.0.0.1", "127.0.0.1"}
    Literals = {"10.0.0.1", "127.0.0.1"}
    Invalid = {"not a name"}
    Override = "vpn.example"
    Pinned = "10.0.0.2"
    Addresses = {"10.0.0.1", "10.0.0.2"}
    NonRoutable = {"127.0.0.1", "linklocal"}
    TUN_LOOKUP_RETRIES = 2
    BIND_MAX_RETRIES = 1
    MaxChanges = 2
    MaxJobs = 1
INVARIANTS NoSelfLoop ChosenWasUsable ErrorIsThorough
PROPERTIES JobEnds
CHECK_DEADLOCK FALSE
