\* Two informer events for a pod that is not yet serving.
CONSTANTS
    r1 = r1
    r2 = r2
    s1 = s1
    Nil = Nil
    CpAddr = CpAddr
    Replicas <- MCReplicas
    Sessions <- MCSessions
    StartedReplicas = {r1}
    DeletablePods = {}
    MaxSeq = 1
    MaxRetx = 0
    MaxPodEvents = 2
    MaxSmfHb = 0
    MaxUpfHb = 0
    UpfReqTypes = {"HbReq"}
    SB_CHANNEL_SIZE = 2
SPECIFICATION Spec
INVARIANT OneLinkPerReplica
CHECK_DEADLOCK FALSE
