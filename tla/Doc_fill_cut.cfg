\* A good answer is turned down: it uncovers more drift than the build's output
\* may hold.
SPECIFICATION Spec
CONSTANTS
    orders = orders
    billing = billing
    stock = stock
    get = get
    put = put
    bill = bill
    ship = ship
    k1 = k1
    k2 = k2
    k3 = k3
    Tasks = {get, bill, ship}
    Packages = {orders, billing, stock}
    Keys = {k1, k2, k3}
    Place <- WidePlace
    PkgOf <- WidePkgOf
    DependsOn <- WideDependsOn
    KeyOf <- WideKeyOf
    NoTask = NoTask
    Retries = 1
    MaxReports = 1
    MaxRuns = 1
    MaxEdits = 0
    MaxFaults = 0
PROPERTY
    EveryGoodAnswerAccepted
CHECK_DEADLOCK FALSE
