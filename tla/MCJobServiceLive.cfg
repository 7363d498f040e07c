CONSTANTS
    Subjects = {s1, s2}
    Keys = {k1}
    Prints = {p1}
    Progress = {"tool.called", "tool.completed"}
    Services = {w1}
    Handles = {w1}
    Owners = {w1}
    NoOwner = NoOwner
    LeaseMs = 1
    RetentionMs = 1
    MaxJobs = 2
    MaxJobsPerSubject = 1
    MaxBytes = 8
    MaxJobBytes = 4
    BaseSize = 1
    ReserveSize = 2
    MaxTime = 1
    MaxGeneration = 0
    MaxWorkers = 1
    Contended = {1}
SPECIFICATION ServiceFairSpec
CHECK_DEADLOCK FALSE
PROPERTIES
    Dispatched
