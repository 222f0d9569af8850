\* Nominal operation: the SMF associates, establishes, modifies and deletes
\* a session while r1 serves and r2 scales out (one informer event); no
\* retransmissions, pod deletions or replica heartbeats.
CONSTANTS
    r1 = r1
    r2 = r2
    s1 = s1
    Nil = Nil
    CpAddr = CpAddr
    Replicas <- MCReplicas
    Sessions <- MCSessions
    StartedReplicas = {r1}
    DeletablePods = {}
    MaxSeq = 4
    MaxRetx = 0
    MaxPodEvents = 1
    MaxSmfHb = 0
    MaxUpfHb = 0
    UpfReqTypes = {"HbReq"}
    SB_CHANNEL_SIZE = 2
SPECIFICATION Spec
INVARIANT TypeOK
INVARIANT AtMostOneReplyPerSend
INVARIANT LinkPacing
INVARIANT ProcessingHasMetadata
INVARIANT HistoryIsSmfRequests
INVARIANT LbSessionsAreLive
CHECK_DEADLOCK FALSE
