\* A file whose constructor the user edited is deleted.
SPECIFICATION Spec
CONSTANTS
    Files = {store}
    StructFiles = {store}
    Methods = {get}
    Sigs = {s1, s2}
    NoSig = NoSig
    NoFile = NoFile
    NoMethod = NoMethod
    Gone = Gone
    Torn = Torn
    Tampered = Tampered
    MaxEdits = 2
    MaxCrashes = 0
PROPERTY
    EditedConstructorSurvives
