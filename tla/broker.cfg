CONSTANTS
    secrets = secrets
    connections = connections
    NoBearer = NoBearer
    Workers = {secrets, connections}
    ns1 = ns1
    ns2 = ns2
    api = api
    Namespaces = {ns1, ns2}
    Names = {api}
    Leeway = 2
    ExchangeTime = 1
    CallTime = 1
    Lifetime = 4
    MaxConf = 2
    MaxTime = 7
SPECIFICATION Spec
INVARIANTS
    TypeOK
    BearerOutlivesCall
    OwnBearer
    StaleBearerExpires
SYMMETRY AnyWorker
CHECK_DEADLOCK FALSE
