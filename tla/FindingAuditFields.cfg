SPECIFICATION Spec
CONSTANTS
    Events <- MCEvents
    MaxEvents = 1
INVARIANT RequiredFieldsSurvive
CHECK_DEADLOCK FALSE
