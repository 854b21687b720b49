\* Steps that name a window to focus.
CONSTANTS
    StepIds <- MCStepIds
    Step <- MCStep
    Requests <- Focused
    Calls = {c1}
    Nested = {n1}
    NoExec = none
SPECIFICATION Spec
PROPERTY FocusedStepRuns
