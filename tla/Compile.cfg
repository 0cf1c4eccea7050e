CONSTANTS
    Local = ""
    Wild = "*"
    Std = {"context", "http", "io", "rand", "sync"}
    Ambiguous = {"rand"}
    Catalog <- MCCatalog
    Specs <- MCSpecs
    PlanGraphs <- MCPlanGraphs
SPECIFICATION MCSpec
INVARIANTS
    SplitIsImmaterial
    CyclesReported
    NoCycleInTheCode
    NothingDropped
    StubsCoverInterface
    HolesSeeTypes
    LevelsInOrder
    StuckMeansCycle
CHECK_DEADLOCK FALSE
