CONSTANTS
    Drivers = {d1, d2}
    Calls = {c1, c2}
    Prints = {p1, p2}
    None = None
    MaxLog = 5
SPECIFICATION Spec
CHECK_DEADLOCK FALSE
INVARIANTS
    RefusalIsRecorded
