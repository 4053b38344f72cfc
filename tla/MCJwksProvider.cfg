SPECIFICATION FairSpec
CONSTANTS
    Requests = {r1, r2}
    Secret = Secret
    NoKid = NoKid
    old = old
    new = new
    stable = stable
    odd = odd
    TTL = 2
    Configs <- MCConfigs
    Published <- MCPublished
    Convertible <- MCConvertible
    Symmetric <- MCSymmetric
    Tokens <- MCTokens
    Policy <- MCPolicy
INVARIANTS
    TypeOK
    StableKeyNeverRejected
    RefetchIsMonotonic
PROPERTIES
    UsesBreaker
    CacheConverges
