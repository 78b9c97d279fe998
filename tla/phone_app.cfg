SPECIFICATION Spec
CONSTANTS
    phone = phone
    desk = desk
    s1 = s1
    s2 = s2
    m1 = m1
    m2 = m2
    m3 = m3
    w1 = w1
    w2 = w2
    NoNode = NoNode
    NoSession = NoSession
    Nodes = {phone, desk}
    Sessions = {s1, s2}
    Messages = {m1, m2, m3}
    Artifacts = {}
    Workers = {w1, w2}
    Runners = {w1, w2}
    Scanners = {w1, cli}
    Fragile = {cli}
    cli = cli
    SyncScopes = {s1, s2}
    MaxEvents = 4
    AuthorOf <- ConstAuthorOf
    SessionOf <- ConstSessionOf
CHECK_DEADLOCK FALSE
INVARIANTS
    TypeOK
    CursorBacked
    HandlesOwned
    LeaksOnlyWhenCaught
PROPERTIES
    StopIsQuiet
    ModelKept
    ScansEnd
    ProbesAnswered
