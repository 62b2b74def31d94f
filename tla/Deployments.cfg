SPECIFICATION MCSpec
CONSTANTS
    a1 = a1  a2 = a2
    d1 = d1  d2 = d2
    k1 = k1  v1 = v1  v2 = v2
    wA = wA  wB = wB
    q0 = q0  q1 = q1  s1 = s1  s2 = s2
    m1 = m1
    Old = Old  New = New
    Admin = {a1, a2}
    Deployment = {d1, d2}
    OnCluster = {d2}
    DevMode = {d1}
    Names = {Old, New}
    WorkQueue = {q0, q1}
    FirstQueue = q0
    Sizes = {s1, s2}
    FirstSize = s1
    Mails = {m1}
    AdminFile <- FilesOfAdmins
    Key = {k1}
    Val = {v1, v2}
    Standard = Standard
    Dedicated = Dedicated
    Hybrid = Hybrid
    Celery = Celery
    Kubernetes = Kubernetes
    Astro = Astro
    Platform = Platform
    Queue = {1, 2}
    DefaultQueue = 1
    Pool = {1, 2, 3}
    TypeOf <- MCTypeOf
    Start <- MCStart
    On = On
    Off = Off
    Hidden = Hidden
    None = None
    Same = Same
    Omit = Omit
    MaxOptions = 1
    MaxEdits = 1
    MaxCommands = 3
SYMMETRY Admins
INVARIANT QueuesFitExecutor
PROPERTY OnlyAskedOrRaced
PROPERTY DoneAsAsked
PROPERTY FileTakesEffect
PROPERTY RoundTripKeeps
PROPERTY OnlyTheOption
CHECK_DEADLOCK FALSE
