\* The form changes beside an answer.
SPECIFICATION Spec
CONSTANTS
    Requests = {r1, r2}
    Idle = Idle
    Texts <- MCTexts
    Forms <- MCForms
    Typed <- MCTyped
    Samples <- MCSamples
    MaxInputs = 3
INVARIANT
    AnswerFollows
CHECK_DEADLOCK FALSE
