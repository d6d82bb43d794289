\* Filter matching, the name codec and the provider registry against their
\* reference definitions; the saved cache across kills and restarts; the
\* stored and hosts answers; padding of both directions of a DNSCrypt exchange.
CONSTANTS
    Files <- MCFiles
    Hosts <- MCHosts
    MaxFiles = 3
    Names <- MCNames
    Tails <- MCTails
    Addrs = {"a4", "b4", "c6"}
    V6Addrs = {"c6"}
    Idents = {"i1", "i2"}
    Lists <- MCLists
    Unreadable = Unreadable
    MaxLoads = 3
    CacheKeys = {"k1", "k2"}
    Responses = {"r1", "r2"}
    CacheTtls = {0, 2}
    CacheMinTtl = 1
    CacheMaxTtl = 2
    SaveEvery = 2
    CacheMaxTime = 2
    Answers <- MCAnswers
    Queries <- MCQueries
    HostsIps <- MCHostsIps
    AnsMaxTime = 2
    MaxSize = 55535
    MagicSize = 8
    PublicKeySize = 32
    HalfNonceSize = 12
    MacSize = 16
    BlockSize = 64
    MinPadLen = 8
    DnsHeaderSize = 12
    Lengths <- MCEnvLengths
    MsgTails <- MCEnvTails
    Sep <- MCSep
    Quote <- MCQuote
    Cr <- MCCr
    Nl <- MCNl
    ProviderNameHdr <- MCProviderNameHdr
    NameHdr <- MCNameHdr
    PublicKeyHdr <- MCPublicKeyHdr
    AddressHdr <- MCAddressHdr
    CsvFiles <- MCCsvFiles
    Decimal <- MCDecimal
    ToDecimal <- MCToDecimal
    PubKeys <- MCPubKeys
    KeyHex <- MCKeyHex
    UnreadableCsv = UnreadableCsv
    ConfFiles <- MCConfFiles
    HostsFiles <- MCHostsFiles
    UnreadableFile = UnreadableFile
    ReloadConfs <- MCReloadConfs
    ReloadHosts <- MCReloadHosts
    FilterFiles <- MCFilterFiles
    TooLongEntry = TooLongEntry
    OnionTexts <- MCOnionTexts
    MaxReloads = 2
    OptLower <- MCOptLower
    OptInputs <- MCOptInputs
    LongLine = LongLine
    DefaultListener = DefaultListener
    DefaultResolvers = DefaultResolvers
    DefaultCryptResolvers = DefaultCryptResolvers
    DefaultTimeout = DefaultTimeout
    Reserved = 5
    SizeMax = 65535
    PeerWrites <- MCPeerWrites
    DaemonMessages <- MCDaemonMessages
    MaxPeerWrites = 2
    ProviderSignKey = "pk"
    WeakKeys = {"weak"}
    TxtAnswers <- MCTxtAnswers
    MaxNow = 2
SPECIFICATION ParsersSpec
INVARIANT TypeOK
INVARIANT MatchAgreesWithEntries
INVARIANT NameDecodeInBounds
INVARIANT NameRoundTrip
INVARIANT LoadFailsOnlyOnDuplicates
INVARIANT ServedRecordsRefreshed
INVARIANT HitCrashesOnlyOnUnwalkedAnswer
INVARIANT EnvTypeOK
INVARIANT PaddingShape
INVARIANT PaddedRoundTrip
INVARIANT CsvTypeOK
INVARIANT LoadAgreesWithTable
INVARIANT SavedListReloads
INVARIANT ResolvConfAgreesWithTable
INVARIANT HostsAgreeWithTable
INVARIANT ServingFollowsFiles
INVARIANT OptTypeOK
INVARIANT SetupAssertsHold
INVARIANT FileAgreesWithCommandLine
INVARIANT TcpDeliversFirstFrame
INVARIANT CertInstallMatchesSpec
INVARIANT ReleaseCrashNeedsMalformedOrSigned
PROPERTY RestartRestoresSavedCache
\* A daemon whose start-up or reload threw takes no further step, and the
\* loads are bounded.
CHECK_DEADLOCK FALSE
