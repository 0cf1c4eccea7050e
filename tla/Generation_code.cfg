\* Two scaffolded files that a spec edit can swap (a storage switch), one method.
SPECIFICATION Spec
CONSTANTS
    Files = {store, api}
    StructFiles = {store}
    Methods = {get}
    Sigs = {s1, s2}
    NoSig = NoSig
    NoFile = NoFile
    NoMethod = NoMethod
    Gone = Gone
    Torn = Torn
    Tampered = Tampered
    MaxEdits = 3
    MaxCrashes = 0
SYMMETRY SigSymmetry
INVARIANTS
    TypeOK
    PlanIsFresh
    CheckMeansDone
PROPERTIES
    UserCodeSurvives
    RunSettles
