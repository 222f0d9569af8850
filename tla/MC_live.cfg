\* Progress: one replica serving and one scaling out, the SMF associating,
\* and establishing a session.
CONSTANTS
    r1 = r1
    r2 = r2
    s1 = s1
    Nil = Nil
    CpAddr = CpAddr
    Replicas <- MCReplicas
    Sessions <- MCSessions
    StartedReplicas = {r1}
    DeletablePods = {}
    MaxSeq = 2
    MaxRetx = 0
    MaxPodEvents = 1
    MaxSmfHb = 0
    MaxUpfHb = 0
    UpfReqTypes = {"HbReq"}
    SB_CHANNEL_SIZE = 2
SPECIFICATION Spec
PROPERTY LinkDrains
PROPERTY FannedOutIsAnswered
PROPERTY BootstrapCompletes
CHECK_DEADLOCK FALSE
