SPECIFICATION Spec
CONSTANTS
    None = None
    PodNames = {p1}
    Pods <- SharingPods
    Deployments = {d1}
    ProgrammeNums = {1, 2, 4}
    CallsFail = FALSE
INVARIANT AnnotatedPodsAdmitted
CHECK_DEADLOCK FALSE
