CONSTANTS
    Drivers = {d1, d2}
    Calls = {c1, c2, c3}
    Prints = {p1, p2}
    None = None
    MaxLog = 5
SPECIFICATION Spec
SYMMETRY Interchangeable
CHECK_DEADLOCK FALSE
INVARIANTS
    OneExecution
    NoSilentEffect
    AnswersAgree
