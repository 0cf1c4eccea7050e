\* Four calls at once or inside one another, two handlers.
SPECIFICATION FairSpec
CONSTANTS
    MaxCalls = 4
    MaxHandlers = 2
    None = None
INVARIANTS
    ListIsSubscriptions
PROPERTIES
    CallsReturn
    ImplementsBus
CHECK_DEADLOCK FALSE
