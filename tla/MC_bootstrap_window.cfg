\* A replica scales out while the SMF establishes and modifies a session.
CONSTANTS
    r1 = r1
    r2 = r2
    s1 = s1
    Nil = Nil
    CpAddr = CpAddr
    Replicas <- MCReplicas
    Sessions <- MCSessions
    StartedReplicas = {r1}
    DeletablePods = {}
    MaxSeq = 3
    MaxRetx = 0
    MaxPodEvents = 1
    MaxSmfHb = 0
    MaxUpfHb = 0
    UpfReqTypes = {"HbReq"}
    SB_CHANNEL_SIZE = 2
SPECIFICATION Spec
INVARIANT ReplicaHasSessionContext
CHECK_DEADLOCK FALSE
