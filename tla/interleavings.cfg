SPECIFICATION Spec
CONSTANTS
    Nil = Nil
    Quantities = {"", "10Gi", "100Gi"}
    None = None
    Fb = Fb
    Es = Es
    EsMaster = EsMaster
    Kb = Kb
    Names = {a, b}
    OperatorNames = {a, b}
    UIDs = {u1, u2}
    Requests <- TwoProgrammes
    Policies = {"Background"}
    Objects = {Fb, Es, EsMaster, Kb}
    FilebeatConfigMap = Fb
    Steps <- ShortSteps
    PortOf <- ShortPorts
    MaxConcurrentReconciles = 3
    MaxCrashes = 1
    MaxFaults = 1
INVARIANTS
    TypeOK
    Inductive
    SoleDeployer
    ActiveIsDeployed
    PrefixOwned
PROPERTY WedgeIsPermanent
SYMMETRY Interchangeable
CHECK_DEADLOCK FALSE
