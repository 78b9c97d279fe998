SPECIFICATION FairSpec
CONSTANTS
    a = a
    b = b
    c3 = c3
    s1 = s1
    s2 = s2
    m1 = m1
    m2 = m2
    f1 = f1
    p = p
    q = q
    r = r
    h1 = h1
    h2 = h2
    NoNode = NoNode
    NoSession = NoSession
    NoClient = NoClient
    Nodes = {a, b}
    Sessions = {s1}
    Messages = {m1}
    Artifacts = {f1}
    Clients = {p}
    Directions = {"both", "pull"}
    SyncScopes = {NoSession}
    V2After = {0, 1}
    Handlers = {h1, h2}
    MaxFailures = 1
    SessionOf <- ConstSessionOf
    AuthorOf <- ConstAuthorOf
    Home <- ConstHome
    Remote <- ConstRemote
CHECK_DEADLOCK TRUE
PROPERTY Converges
