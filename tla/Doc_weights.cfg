\* Two explains of the page at once, under two policies.
SPECIFICATION Spec
CONSTANTS
    Requests = {r1, r2}
    Idle = Idle
    Texts <- MCTexts
    Forms <- MCForms
    Typed <- MCTyped
    Samples <- MCSamples
    MaxInputs = 4
INVARIANT
    WeightsAreOwn
CHECK_DEADLOCK FALSE
