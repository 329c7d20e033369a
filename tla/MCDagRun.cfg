SPECIFICATION Spec
CONSTANTS
    Docs = {1, 2}
    Filings = {1, 2}
    FilingOf <- OneDocEach
    MaxVersion = 2
    MaxFaults = 2
    CleanFilings = {}
    Options <- SomeOptions
INVARIANTS
    TypeOK
    GateInv
    ConvergedIsPublished
    VerdictsCoverFacts
    IsolatedFanout
    ExitTellsTheRun
PROPERTIES
    GateBeforeLoad
    OnlyTheDeadStayRunning
