SPECIFICATION FairSpec
CONSTANTS
    Nil = Nil
    Quantities = {"", "10Gi", "100Gi"}
    None = None
    Names = {a, b, foreign}
    OperatorNames = {a, b}
    UIDs = {u1, u2}
    Requests <- EveryProgramme
    Policies = {}
    Objects <- ProgrammeObjects
    FilebeatConfigMap <- Sidecar
    Steps <- ProgrammeSteps
    PortOf <- PublishedPorts
    MaxConcurrentReconciles = 3
    MaxCrashes = 0
    MaxFaults = 0
INVARIANT Wired
PROPERTY EventuallyActive
CHECK_DEADLOCK FALSE
