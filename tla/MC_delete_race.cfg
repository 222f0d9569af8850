\* One replica pod scales out and is deleted at any point of its bootstrap;
\* the SMF stays silent.
CONSTANTS
    r1 = r1
    r2 = r2
    s1 = s1
    Nil = Nil
    CpAddr = CpAddr
    Replicas <- MCOneReplica
    Sessions <- MCSessions
    StartedReplicas = {}
    DeletablePods = {r1}
    MaxSeq = 0
    MaxRetx = 0
    MaxPodEvents = 1
    MaxSmfHb = 0
    MaxUpfHb = 0
    UpfReqTypes = {"HbReq"}
    SB_CHANNEL_SIZE = 2
SPECIFICATION Spec
PROPERTY ReplicaRemovalCompletes
CHECK_DEADLOCK FALSE
