SPECIFICATION FairSpec
CONSTANTS
    None = None
    Replicas <- ReplicasInView
    Plans <- TwoPasswords
PROPERTY LogstashLogsIn
CHECK_DEADLOCK FALSE
