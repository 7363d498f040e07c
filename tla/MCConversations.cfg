CONSTANTS
    Ids = {h1, h2}
    Turns = {t1, t2, t3}
    None = None
    MaxEntries = 1
    MaxTurns = 2
    a = a
    b = b
    ContextRuns = {r1}
    Subjects = {"u"}
    Contents = {1, 2}
    ContextTime = 2
    ContextRevision = 2
    ContextEntries = 2
    ContextBytes = 3
    Budget = 3
    Hosts = {h1, h2}
    Requests = {q1, q2}
    Sources = {x1}
    Passages = {y1}
    Models = {m1, m2}
    MaxRevision = 2
    MaxRetired = 1
    MaxPassages = 1
    Ingestions = {q1, q2, q3}
    MaxBytes = 4
    MaxChunks = 4
    MaxPending = 2
    Readers = {q1, q2}
    Cursors = {c1}
    Adapters = {1, 2}
    Ttl = 2
    Minimum = 1
    MaxPages = 2
    MaxModels = 1
    MaxTime = 2
    Formats = {"openai", "anthropic", "gemini", "chat"}
    MaxAttempts = 2
    Values = {q1, q2}
    Vendors = {"codex", "claude"}
    MaxCalls = 2
    MaxLines = 1
SPECIFICATION ConversationsSpec
SYMMETRY Interchangeable
CHECK_DEADLOCK FALSE
INVARIANTS
    TurnsAreSafe
    LeasesReturned
    IndexIsSound
    NothingPartial
    CatalogsAreHonest
    StreamsAreWhole
    CallsAreProposed
PROPERTIES
    NothingIsStale
