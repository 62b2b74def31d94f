SPECIFICATION MCSpec
CONSTANTS
    Admin = {a1, a2}
    Team = {t1}
    User = {u1}
    OrgToken = {o1}
    WorkspaceToken = {wt1}
    DeploymentToken = {dt1}
    Workspace = {w1}
    Deployment = {d1}
    Role = {r1, r2}
    Name = {n1, n2}
    None = None
    Same = Same
    Bad = Bad
    Org = Org
    t1 = t1
    u1 = u1
    o1 = o1
    wt1 = wt1
    dt1 = dt1
    w1 = w1
    d1 = d1
    r1 = r1
    r2 = r2
    n1 = n1
    n2 = n2
    Item = {i1, i2, i3, i4}
    Limit = 2
    MaxPages = 4
    MaxChanges = 2
    Names = {1, 2, 3}
    Pools = {p1, p2}
    TheDefault = 2
    MaxCommands = 2
SYMMETRY Admins
INVARIANTS QueuesSentRight
PROPERTIES OnlyAskedOrRaced TokensEndAtHome ListsAll
CHECK_DEADLOCK FALSE
