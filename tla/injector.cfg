SPECIFICATION Spec
CONSTANTS
    None = None
    PodNames = {p1}
    Pods <- AllPods
    Deployments = {d1}
    ProgrammeNums = {1, 2, 4}
    CallsFail = TRUE
INVARIANTS
    TypeOK
    LogsShared
    OrdinaryPodsAdmitted
CHECK_DEADLOCK FALSE
