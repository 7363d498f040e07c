CONSTANTS
    Subjects = {s1}
    Keys = {k1}
    Prints = {p1}
    Progress = {"tool.called", "tool.completed"}
    Services = {w1, w2}
    Handles = {w1, w2}
    Owners = {w1, w2}
    NoOwner = NoOwner
    LeaseMs = 1
    RetentionMs = 1
    MaxJobs = 1
    MaxJobsPerSubject = 1
    MaxBytes = 8
    MaxJobBytes = 6
    BaseSize = 1
    ReserveSize = 2
    MaxTime = 2
    MaxGeneration = 0
    MaxWorkers = 1
    Contended = {1}
SPECIFICATION ServiceSpec
SYMMETRY AnyService
CHECK_DEADLOCK FALSE
INVARIANTS
    EffectsAreLogged
    UnconfirmedIsUncertain
    ServiceIsSound
PROPERTIES
    WorkersAreFenced
