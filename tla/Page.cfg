\* One page, two requests at a time, four things done to the page.
SPECIFICATION FairSpec
CONSTANTS
    Requests = {r1, r2}
    Idle = Idle
    Texts <- MCTexts
    Forms <- MCForms
    Typed <- MCTyped
    Samples <- MCSamples
    MaxInputs = 4
INVARIANTS
    SeenIsSent
    PickWins
PROPERTIES
    HandEditsSurvive
    PanelSettles
CHECK_DEADLOCK FALSE
