SPECIFICATION FairSpec
CONSTANTS
    Nil = Nil
    Quantities = {"", "10Gi", "100Gi"}
    None = None
    Fb = Fb
    Es = Es
    EsMaster = EsMaster
    Kb = Kb
    Names = {a}
    OperatorNames = {a}
    UIDs = {u1, u2}
    Requests <- TwoProgrammes
    Policies = {"Background"}
    Objects = {Fb, Es, EsMaster, Kb}
    FilebeatConfigMap = Fb
    Steps <- ShortSteps
    PortOf <- ShortPorts
    MaxConcurrentReconciles = 3
    MaxCrashes = 0
    MaxFaults = 0
PROPERTY EventuallyActive
CHECK_DEADLOCK FALSE
