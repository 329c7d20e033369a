SPECIFICATION Spec
CONSTANTS
    F1 = F1
    F2 = F2
    A = A
    B = B
    Procs <- TwoProcs
    Filings <- TwoFilings
    Rules <- TwoRules
    AdoptRule = "unusable"
    ErrorRules <- OneRule
    Contents <- CleanOrBoth
    MaxCommands = 4
    MaxFaults = 1
SYMMETRY Alike
CONSTRAINT NothingAfterARefusal
CHECK_DEADLOCK FALSE
INVARIANTS
    TypeOK
    ViewsAgree
    GateHolds
    OpenIsFound
PROPERTIES
    NothingVanishes
    FilingRunShowsNothing
