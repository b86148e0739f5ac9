CONSTANTS
    secrets = secrets
    connections = connections
    NoBearer = NoBearer
    Workers = {secrets, connections}
    ns1 = ns1
    api = api
    Namespaces = {ns1}
    Names = {api}
    Leeway = 3
    ExchangeTime = 2
    CallTime = 2
    Lifetime = 6
    MaxConf = 2
    MaxTime = 4
SPECIFICATION Spec
INVARIANTS
    BearerMatchesConfig
CHECK_DEADLOCK FALSE
