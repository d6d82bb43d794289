\* Violation: an erase loop destroys a request that is still waiting.
CONSTANTS
    q1 = q1
    q2 = q2
    q3 = q3
    kUp = kUp
    kBlack = kBlack
    kHosts = kHosts
    NoEntry = NoEntry
    Queries <- MCQueries
    Keys <- MCKeys
    Blacklisted <- MCBlacklisted
    HostsKeys <- MCHostsKeys
    Ttls <- MCTtls
    HostsTtl = 0
    MinTtl = 1
    MaxTtl = 2
    MaxTime = 3
SPECIFICATION Spec
SYMMETRY Symmetry
INVARIANT NoLiveRequestDropped
CHECK_DEADLOCK FALSE
