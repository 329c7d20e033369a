SPECIFICATION Spec
CONSTANTS
    Docs = {1, 2}
    States = {"PA", "OR"}
    StateOf <- StateOfTwo
    Requests <- JustPA
    MaxAttempts = 3
    Restores = FALSE
    MaxVersion = 3
    MaxRun = 1
    MaxFaults = 2
INVARIANT OneFailureCostsOne
