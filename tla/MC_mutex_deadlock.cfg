\* One serving replica, a channel of capacity 1 (16 in main.go) and PFCP
\* retransmission: three requests for the replica are in the pipeline at
\* once, so a send goroutine blocks on the full channel holding pg.mu.RLock.
CONSTANTS
    r1 = r1
    r2 = r2
    s1 = s1
    Nil = Nil
    CpAddr = CpAddr
    Replicas <- MCOneReplica
    Sessions <- MCSessions
    StartedReplicas = {r1}
    DeletablePods = {}
    MaxSeq = 2
    MaxRetx = 1
    MaxPodEvents = 1
    MaxSmfHb = 0
    MaxUpfHb = 0
    UpfReqTypes = {"HbReq"}
    SB_CHANNEL_SIZE = 1
SPECIFICATION Spec
PROPERTY FannedOutIsAnswered
CHECK_DEADLOCK FALSE
