CONSTANTS
    Local = ""
    Wild = "*"
    Std = {"context", "http", "io", "rand", "sync"}
    Ambiguous = {"rand"}
    Catalog <- MCCatalog
    Specs <- PairSpecs
    PlanGraphs <- NoPlanGraphs
SPECIFICATION MCSpec
INVARIANT TasksSeeTheirTypes
CHECK_DEADLOCK FALSE
