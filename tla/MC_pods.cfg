\* Pod lifecycle and heartbeats: r1 serves, r2 scales out and may be deleted
\* at any point; the SMF and both replicas send heartbeats.
CONSTANTS
    r1 = r1
    r2 = r2
    s1 = s1
    Nil = Nil
    CpAddr = CpAddr
    Replicas <- MCReplicas
    Sessions <- MCSessions
    StartedReplicas = {r1}
    DeletablePods = {r2}
    MaxSeq = 2
    MaxRetx = 0
    MaxPodEvents = 1
    MaxSmfHb = 1
    MaxUpfHb = 1
    UpfReqTypes = {"HbReq", "ReportReq"}
    SB_CHANNEL_SIZE = 2
SPECIFICATION Spec
INVARIANT AtMostOneReplyPerSend
INVARIANT LinkPacing
PROPERTY RelayImplementsReplyOnce
CHECK_DEADLOCK FALSE
