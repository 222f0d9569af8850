\* PFCP retransmission: the SMF sends one of its requests (any one, the
\* Deletion Request included) twice with the same sequence number to one
\* replica, which may be deleted and then bootstrapped again by a later
\* informer event.  The southbound channel
\* holds one packet (16 in the code), so that a retransmission can find it
\* full and the sender blocks holding the read lock (SendSyncRLock).
CONSTANTS
    r1 = r1
    r2 = r2
    s1 = s1
    Nil = Nil
    CpAddr = CpAddr
    Replicas <- MCOneReplica
    Sessions <- MCSessions
    StartedReplicas = {r1}
    DeletablePods = {r1}
    MaxSeq = 3
    MaxRetx = 1
    MaxPodEvents = 2
    MaxSmfHb = 0
    MaxUpfHb = 0
    UpfReqTypes = {"HbReq"}
    SB_CHANNEL_SIZE = 1
SPECIFICATION Spec
CONSTRAINT RetransmissionBudget
INVARIANT AtMostOneReplyPerSend LinkPacing
\* The gateway may stop: log.Fatal (crashed), or the RWMutex deadlock that
\* MC_mutex_deadlock.cfg exhibits.
CHECK_DEADLOCK FALSE
