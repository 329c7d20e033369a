SPECIFICATION Spec
CONSTANTS
    Docs = {1, 2, 3}
    States = {"PA", "OR"}
    StateOf <- StateOfThree
    Requests <- BothOrOne
    MaxAttempts = 2
    Restores = FALSE
    MaxVersion = 2
    MaxRun = 1
    MaxFaults = 2
INVARIANTS
    ExitTellsTheRows
    DeniedIsNotAsked
