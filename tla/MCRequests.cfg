CONSTANTS
    s1 = s1
    s2 = s2
    s3 = s3
    a1 = a1
    a2 = a2
    t1 = t1
    t2 = t2
    t3 = t3
    t4 = t4
    t5 = t5
    t6 = t6
    NoAccount = NoAccount
    Subjects = {s1, s2, s3}
    HasQueue = TRUE
    Tickets = {t1, t2, t3, t4, t5, t6}
    Accounts = {a1, a2}
    SubjectOf <- MixedSubjects
    AccountOf <- MixedAccounts
    Total = 2
    SubjectLimit <- TwoPerSubject
    AccountLimit <- OnePerAccount
    QueueTotal = 4
    QueuePerSubject = 2
    MaxSteps = 2
    MaxTokens = 2
    MaxEvents = 2
    MaxPieces = 2
    Tokens = {1, 2}
    Traced = {d1, d2}
    MaxActive = 1
    MaxSpans = 1
    QueueSize = 2
    BatchSize = 2
    MaxRecords = 4
    MaxStages = 2
    r1 = r1
    r2 = r2
    Slots = 1
    MaxChanges = 1
    Targets = {"x", "y"}
    Limits = {1, 2}
    MaxLog = 4
    MaxWire = 2
    MaxFaults = 2
    Values = {"x"}
    Vendors = {"codex", "claude"}
    MaxCalls = 1
    MaxLines = 1
    Hosts = {"h1"}
    MaxNames = 2
    Ids = {i1}
    Turns = {n1, n2}
    None = None
    MaxEntries = 1
    MaxTurns = 1
SPECIFICATION RequestsSpec
CHECK_DEADLOCK FALSE
INVARIANTS
    SchedulerIsSound
    BoundedOvertaking
    RunsAreWhole
    RecordsAccounted
    ClientsSeeTheRun
    RunsAreGranted
    SettingsAreUsable
PROPERTIES
    ArrivalOrder
    BudgetBinds
    NoStarvation
    EverythingEnds
