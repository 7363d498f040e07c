CONSTANTS
    Processes = {p1, p2}
    Ids = {i1}
    Capacity = 1
    MaxQueue = 1
    Attempts = {a1, a2}
    Providers = {v1}
    MaxActive = 1
    MaxStarts = 2
    Callers = {c1, c2}
    Accounts = {n1, n2}
    Subjects = {s1}
    Instances = {u1}
    Calls = {a1, a2}
    Records = {r1}
    Minimum = 1
    MaxAge = 1
    MaxBindings = 2
    Interval = 2
    Slower = 1
    Lifetime = 4
    Timeout = 1
    ConnectionTime = 2
    UsageTime = 3
    PairingTime = 9
SPECIFICATION AdministrationSpec
SYMMETRY Interchangeable
CHECK_DEADLOCK FALSE
INVARIANTS
    GrantsAreExact
    AccountsAreKept
    QuotasAreTrue
    DevicesAreHonest
PROPERTIES
    InstallsAreSound
