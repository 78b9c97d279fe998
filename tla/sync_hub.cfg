SPECIFICATION Spec
CONSTANTS
    a = a
    b = b
    c3 = c3
    s1 = s1
    s2 = s2
    m1 = m1
    m2 = m2
    f1 = f1
    p = p
    q = q
    r = r
    h1 = h1
    h2 = h2
    NoNode = NoNode
    NoSession = NoSession
    NoClient = NoClient
    Nodes = {a, b, c3}
    Sessions = {s1}
    Messages = {m1}
    Artifacts = {}
    Clients = {p, r}
    Directions = {"both"}
    SyncScopes = {NoSession}
    V2After = {0, 1}
    Handlers = {h1, h2}
    MaxFailures = 1
    SessionOf <- ConstSessionOf
    AuthorOf <- ConstAuthorOf
    Home <- ConstHome
    Remote <- ConstRemote
SYMMETRY Threads
CHECK_DEADLOCK TRUE
INVARIANTS
    TypeOK
    IInv
    PushedReached
    PulledReached
    OriginHolds
PROPERTIES
    CursorsAdvance
    ReplicatesRows
