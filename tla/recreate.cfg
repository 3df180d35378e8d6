SPECIFICATION FairSpec
CONSTANTS
    Nil = Nil
    Quantities = {"", "10Gi", "100Gi"}
    None = None
    Fb = Fb
    Es = Es
    EsMaster = EsMaster
    Kb = Kb
    Names = {a}
    OperatorNames = {a}
    UIDs = {u1, u2}
    Requests <- TwoProgrammes
    Policies = {"Background", "Foreground"}
    Objects = {Fb, Es, EsMaster, Kb}
    FilebeatConfigMap = Fb
    Steps <- ShortSteps
    PortOf <- ShortPorts
    MaxConcurrentReconciles = 3
    MaxCrashes = 1
    MaxFaults = 0
PROPERTIES
    OrphansCollected
    ImplementsLock
CHECK_DEADLOCK FALSE
