SPECIFICATION Spec
CONSTANTS
    Docs = {1, 2}
    Filings = {1, 2}
    FilingOf <- OneDocEach
    MaxVersion = 2
    MaxFaults = 0
    CleanFilings = {2}
    Options <- CompleteOnly
INVARIANT
    ValidatedFactsPassTheBuild
