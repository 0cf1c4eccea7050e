\* One scaffolded file with two methods; runs that die half way.
SPECIFICATION FairSpec
CONSTANTS
    Files = {store}
    StructFiles = {store}
    Methods = {get, put}
    Sigs = {s1, s2}
    NoSig = NoSig
    NoFile = NoFile
    NoMethod = NoMethod
    Gone = Gone
    Torn = Torn
    Tampered = Tampered
    MaxEdits = 2
    MaxCrashes = 1
INVARIANTS
    CheckMeansDone
PROPERTIES
    RunSettles
    Recovers
