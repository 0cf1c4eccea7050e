\* Two methods in one package and one in a package that imports it.
SPECIFICATION FairSpec
CONSTANTS
    orders = orders
    billing = billing
    stock = stock
    get = get
    put = put
    bill = bill
    ship = ship
    k1 = k1
    k2 = k2
    k3 = k3
    Tasks = {get, put, bill}
    Packages = {orders, billing}
    Keys = {k1, k2, k3}
    Place <- MCPlace
    PkgOf <- MCPkgOf
    DependsOn <- MCDependsOn
    KeyOf <- MCKeyOf
    NoTask = NoTask
    Retries = 1
    MaxReports = 1
    MaxRuns = 1
    MaxEdits = 1
    MaxFaults = 1
INVARIANTS
    OnlyFilledChange
    CleanBetweenTasks
PROPERTIES
    GoodAnswerAccepted
    RunEnds
CHECK_DEADLOCK FALSE
