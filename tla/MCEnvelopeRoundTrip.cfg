\* Violation: queries curve accepts but cannot pad do not survive the round trip.
SPECIFICATION EnvSpec
CONSTANTS
    MaxSize = 55535
    MagicSize = 8
    PublicKeySize = 32
    HalfNonceSize = 12
    MacSize = 16
    BlockSize = 64
    MinPadLen = 8
    DnsHeaderSize = 12
    Lengths <- MCEnvLengths
    MsgTails <- MCEnvTails
INVARIANT RoundTrip
