\* One key that gets two tokens in turn, no configured token; two gateways.
SPECIFICATION MCSpec
CONSTANTS
    k1 = k1
    o1 = o1
    g1 = g1
    g2 = g2
    Gateways = {g1, g2}
    Keys = {k1}
    Tokens = {t1, t2}
    Orgs = {o1}
    ScopeOf <- ScopeOfKeys
    DefaultToken = NoToken
    DefaultOrg = o1
    NoToken = NoToken
    NoOrg = NoOrg
    Redis = Redis
    TTL = 2
    Latency = 1
    MaxSize = 1
INVARIANTS
    TypeOK
    EntriesAreNews
PROPERTIES
    AnswersAreRecent
    RevocationReachesAll

CHECK_DEADLOCK FALSE
