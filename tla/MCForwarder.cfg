\* Forwarding path: replies at most once, cache hits fresh and latest.
CONSTANTS
    q1 = q1
    q2 = q2
    q3 = q3
    kUp = kUp
    kBlack = kBlack
    kHosts = kHosts
    NoEntry = NoEntry
    Queries <- MCQueries
    Keys <- MCKeys
    Blacklisted <- MCBlacklisted
    HostsKeys <- MCHostsKeys
    Ttls <- MCTtls
    HostsTtl = 0
    MinTtl = 1
    MaxTtl = 2
    MaxTime = 3
SPECIFICATION Spec
SYMMETRY Symmetry
INVARIANT TypeOK
INVARIANT RepliesAtMostOnce
INVARIANT CachedReplyIsFreshLatest
\* The daemon idles once every datagram is handled and time has run out.
CHECK_DEADLOCK FALSE
