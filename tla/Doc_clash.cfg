\* In memory and durable are picked together.
SPECIFICATION Spec
CONSTANTS
    Requests = {r1, r2}
    Idle = Idle
    Texts <- MCTexts
    Forms <- MCForms
    Typed <- MCTyped
    Samples <- MCSamples
    MaxInputs = 3
INVARIANT
    ClashIsRefused
CHECK_DEADLOCK FALSE
