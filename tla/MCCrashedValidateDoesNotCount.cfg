SPECIFICATION Spec
CONSTANTS
    Docs = {1, 2}
    Filings = {1, 2}
    FilingOf <- OneDocEach
    MaxVersion = 1
    MaxFaults = 1
    CleanFilings = {}
    Options <- CompleteOnly
INVARIANT
    CrashedValidateDoesNotCount
