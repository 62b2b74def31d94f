SPECIFICATION UpgradeSpec
CONSTANTS
    Terminal = {s1, s2}
    Admin = {a1, a2}
    a1 = a1
    a2 = a2
    v1 = v1
    v2 = v2
    plain = plain
    secret = secret
    other = other
    Var = {plain, secret}
    Other = {other}
    Secret = {secret}
    Deployment = {d1, d2}
    Value = {v1, v2}
    MaxCommands = 3
    None = None
    dflt = dflt
    r1 = r1
    Own = Own
    User = User
    Pkg = Pkg
    MaxDevCommands = 2
    MaxKills = 1
    MaxEvents = 1
    local = local
    d1 = d1
    d2 = d2
    dp = dp
    p1 = p1
    va = va
    c1 = c1
    MaxObjectCommands = 2
    shop = shop
    etl = etl
    MaxTests = 2
    Majors = {12, 15}
    Pinned = TRUE
    FreePorts = {r1}
    Remotes = {d1, d2}
    ExtraPools = {p1}
    Variables = {va}
    Connections = {c1}
    EnvConnections = {c1}
    Contents = {1, 2}
    KindAsks = {{1, 2, 3}, {2, 3}}
    ByHand <- EditedByHand
    Projects = {shop, etl}
    Against = {d1}
    Versions = {1, 2}
    RunsNow <- Versioned
    TestAsks <- TestsAsked
INVARIANT AgainstTheDeployment
CHECK_DEADLOCK FALSE
