SPECIFICATION Spec
CONSTANTS
    i1 = i1
    i2 = i2
    whole = whole
    torn = torn
    s1 = s1
    s2 = s2
    w1 = w1
    w2 = w2
    m1 = m1
    m2 = m2
    u1 = u1
    k1 = k1
    NoFile = NoFile
    NoRow = NoRow
    NoMessage = NoMessage
    NoSummary = NoSummary
    Artifacts = {i1, i2}
    Contents = {whole, torn}
    Writers = {w1, w2}
    MaxFailures = 1
    Sessions = {s1, s2}
    Messages = {}
    Summaries = {u1}
    Keepers = {}
    MaxEdits = 0
    Readable = {whole, torn}
    MaxArtifacts = 2
    MaxArtifactBytes = 2
    MaxTotalBytes = 3
    MaxSummaries = 1
    MaxOperations = 4
    ContentOf <- ConstContentOf
    Pieces <- ConstPieces
    ArtifactSession <- ConstArtifactSession
CHECK_DEADLOCK FALSE
INVARIANT RecordedIsWhole

