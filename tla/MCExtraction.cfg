SPECIFICATION Spec
CONSTANTS
    Procs = {1}
    Order <- ThreeDocs
    FilingOf <- ThreeFilings
    RoleOf <- ThreeRoles
    Readings <- SomeReadings
    Answers <- SomeAnswers
    Ingested = {"or/urrt", "pa/filing_packet"}
    MaxCommands = 2
    MaxFaults = 1
CHECK_DEADLOCK FALSE
INVARIANTS
    TypeOK
    WholeFiling
    OutputsTold
    CallsLinked
    EveryCallLogged
    ReadersAgree
PROPERTY GateAccounts
