\* Two stores, two releases, four policies; a run may die once.
SPECIFICATION FairSpec
CONSTANTS
    orders = orders
    sessions = sessions
    store = store
    memory = memory
    sqlite = sqlite
    postgres = postgres
    durable = durable
    Needs = {orders, sessions}
    Caps = {store}
    CapOf <- MCCapOf
    Tiles = {memory, sqlite, postgres}
    NameOf <- MCNameOf
    Reqs = {durable}
    Releases <- MCReleases
    Policies <- MCPolicies
    None = None
    Automatic = Automatic
    Malformed = Malformed
    Old = Old
    MaxEdits = 2
    MaxCrashes = 1
INVARIANTS
    LockRecordsBuilt
    PreferenceExplainsCost
PROPERTIES
    PinHolds
    SecondRunQuiet
    Settles
