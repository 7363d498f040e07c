CONSTANTS
    Subjects = {s1}
    Keys = {k1, k2}
    Prints = {p1}
    Progress = {"tool.called"}
    Handles = {h1, h2}
    Owners = {o1, o2}
    NoOwner = NoOwner
    LeaseMs = 2
    RetentionMs = 1
    MaxJobs = 2
    MaxJobsPerSubject = 2
    MaxBytes = 7
    MaxJobBytes = 4
    BaseSize = 1
    ReserveSize = 2
    MaxTime = 2
    MaxGeneration = 2
SPECIFICATION Spec
SYMMETRY Interchangeable
INVARIANTS
    RunningIsOwned
    HandoffIsSafe
PROPERTIES
    StoreIsSound
    ImplementsJobQueue
