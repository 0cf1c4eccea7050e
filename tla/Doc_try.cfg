\* A sample of the guide is opened in the editor.
SPECIFICATION Spec
CONSTANTS
    Requests = {r1, r2}
    Idle = Idle
    Texts <- MCTexts
    Forms <- MCForms
    Typed <- MCTyped
    Samples <- MCSamples
    MaxInputs = 3
PROPERTY
    SampleOpens
CHECK_DEADLOCK FALSE
