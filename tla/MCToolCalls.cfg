CONSTANTS
    Runs = {r1, r2}
    MaxReviews = 1
    MaxTickets = 1
SPECIFICATION FairSpec
CHECK_DEADLOCK FALSE
INVARIANTS
    ReviewedBeforeEffect
    EffectIsNotDenied
    WaitsAreBounded
PROPERTIES
    ReviewSettles
