SPECIFICATION FairSpec
CONSTANTS
    None = None
    Replicas <- ReplicasInView
    Plans <- Users
INVARIANTS
    TypeOK
    ServersKeepTheirIds
    BrokersAreAccepted
PROPERTIES
    ReadyIsKept
    EvictionKeepsQuorum
    ComesUp
    KibanaLogsIn
CHECK_DEADLOCK FALSE
