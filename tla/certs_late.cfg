SPECIFICATION InjectionSpec
CONSTANTS
    Nil = Nil
    Quantities = {"", "10Gi", "100Gi"}
    None = None
    Fb = Fb
    Es = Es
    Certs = Certs
    Kb = Kb
    Names = {a}
    OperatorNames = {a}
    UIDs = {u1}
    Requests <- OneAndTwo
    Policies = {"Background"}
    Objects = {Fb, Es, Certs, Kb}
    FilebeatConfigMap = Fb
    CertsSecret = Certs
    Steps <- ShortSteps
    PortOf <- ShortPorts
    MaxConcurrentReconciles = 3
    MaxCrashes = 0
    MaxFaults = 0
    PodNames = {p1}
    Pods <- OnePod
    CallsFail = FALSE
INVARIANT SidecarHasCerts
CHECK_DEADLOCK FALSE
