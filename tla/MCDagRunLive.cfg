SPECIFICATION OperatedSpec
CONSTANTS
    Docs = {1, 2}
    Filings = {1, 2}
    FilingOf <- OneDocEach
    MaxVersion = 2
    MaxFaults = 1
    CleanFilings = {}
    Options <- FullOptions
PROPERTIES
    RunEnds
    EventuallyCurrent
    EventuallyPublished
