\* A spec without needs is explained.
SPECIFICATION Spec
CONSTANTS
    Requests = {r1, r2}
    Idle = Idle
    Texts <- MCTexts
    Forms <- MCForms
    Typed <- MCTyped
    Samples <- MCSamples
    MaxInputs = 3
INVARIANT
    NoStoresIsSaid
CHECK_DEADLOCK FALSE
