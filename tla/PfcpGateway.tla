---------------------------- MODULE PfcpGateway ----------------------------
(***************************************************************************)
(* The PFCP gateway of main.go and pfcphandler.go for one UPF virtual IP, *)
(* with its environment: the SMF, the UPF replica pods and the informer    *)
(* events about them.                                                     *)
(*                                                                         *)
(* Goroutines of the code and the model state that carries them:          *)
(*  - outboundHandler, one per datagram read from the SMF: ob[<<q, a>>]   *)
(*    for attempt a of the request with sequence number q;                *)
(*  - the per-replica send goroutines of the fan-out: senders[<<q,a,r>>]; *)
(*  - upfScaleOutHandler, one per pod event: bpc[l], replay[l];           *)
(*  - per south-bound link l the writer (wpc[l], ch[l]) and the reader    *)
(*    (rd[l]) goroutines;                                                 *)
(*  - upfDeleteHandler: dpc[r].                                           *)
(* lbUpfs and lbSess are what the load-balancer agent was told over gRPC  *)
(* (notifyUpfAdd/DeleteEvent, notifyPfcpSessionAdd/DeleteEvent).         *)
(* A link is identified by <<dip, k>>: the k-th scale-out handler started *)
(* for the replica with pod IP dip; each opens its own socket, channel,   *)
(* writer and reader.  Every pg.mu / DataStore critical section is one    *)
(* atomic step.  Message payloads are abstracted to their type, sequence  *)
(* number, SEID and the address of the CP-allocated F-TEID they carry.    *)
(* The metadata and the session history keep a pointer to the parsed      *)
(* request's *message.Header, not a copy: they hold the attempt <<q, a>>  *)
(* whose message it is, and payload[<<q, a>>] is the F-TEID address that   *)
(* Header.Payload carries now.  Every Marshal of the request for a replica *)
(* rewrites that Payload, so a stored request is what was last sent.      *)
(***************************************************************************)
EXTENDS DataStore, Naturals, FiniteSets, SequencesExt, Functions

CONSTANTS
    Replicas,         \* pod IPs of the UPF replicas behind the virtual IP
    Sessions,         \* SEIDs
    CpAddr,           \* F-TEID address as allocated by the SMF
    StartedReplicas,  \* replicas whose scale-out ended before the SMF started
    DeletablePods,    \* the pods that may be deleted during a behaviour
    MaxSeq,           \* number of requests the SMF sends
    MaxRetx,          \* SMF retransmissions per request (PFCP N1)
    MaxPodEvents,     \* informer Add/Update events per pod
    MaxSmfHb,         \* heartbeat requests the SMF sends
    MaxUpfHb,         \* requests each replica originates
    UpfReqTypes,      \* the types of those: heartbeats, session reports
    SB_CHANNEL_SIZE   \* capacity of a link's sbChan (16 in main.go)

ASSUME /\ StartedReplicas \subseteq Replicas /\ DeletablePods \subseteq Replicas
       /\ StartedReplicas # {} => MaxPodEvents > 0
       /\ {MaxSeq, MaxRetx, MaxPodEvents, MaxSmfHb, MaxUpfHb} \subseteq Nat
       /\ SB_CHANNEL_SIZE \in Nat \ {0}
       /\ UpfReqTypes \subseteq {"HbReq", "ReportReq"}

Seqs     == 1..MaxSeq
Attempts == 1..(MaxRetx + 1)
Links    == Replicas \X (1..MaxPodEvents)
SendIds  == Seqs \X Attempts \X Replicas   \* fan-out goroutine of <<q, a>> to r
HbSeq    == 0                      \* sequence number of a UPF's own heartbeat

ReqTypes  == {"AssocReq", "EstReq", "ModReq", "DelReq", "HbReq"}
RespOf    == [AssocReq |-> "AssocResp", EstReq |-> "EstResp",
              ModReq |-> "ModResp", DelReq |-> "DelResp", HbReq |-> "HbResp"]
RespTypes == {RespOf[t] : t \in ReqTypes}
\* A Session Report Request: a replica may send one for any session, and
\* NewPfcpHandler has no case for its message type.
UpfOrigTypes == {"HbReq", "ReportReq"}
Msgs == [type : ReqTypes \cup RespTypes \cup UpfOrigTypes, seq : 0..MaxSeq,
         seid : Sessions \cup {Nil}, teid : Replicas \cup {CpAddr, Nil}]

VARIABLES
    \* the SMF
    smfNext, smfReq, smfOut, smfAssoc, smfSess, sends, replies,
    \* PfcpGateway and its DataStore
    processingSeqNums, seqNumToSessionMetaData, ds, sbInfos,
    \* the F-TEID address in the Header.Payload of each parsed request
    payload,
    \* goroutines
    ob, senders, bpc, replay, wpc, rd,
    \* south-bound links and the network
    lnk, ch, toUpf, fromUpf,
    \* replica pods
    pod, podEvents, dpc, upfRecv, upfSess, upfHb,
    \* the load-balancer agent: the replicas and the sessions it was told of
    lbUpfs, lbSess,
    crashed

smfVars  == <<smfNext, smfReq, smfOut, smfAssoc, smfSess, sends, replies>>
gwVars   == <<processingSeqNums, seqNumToSessionMetaData, ds, sbInfos, payload>>
taskVars == <<ob, senders, bpc, replay, wpc, rd>>
linkVars == <<lnk, ch, toUpf, fromUpf>>
upfVars  == <<pod, podEvents, dpc, upfRecv, upfSess, upfHb>>
lbVars   == <<lbUpfs, lbSess>>
vars == <<smfVars, gwVars, taskVars, linkVars, upfVars, lbVars, crashed>>

meta == seqNumToSessionMetaData
Registered == {r \in Replicas : sbInfos[r] # Nil}
\* the replicas whose upfDeleteHandler has started and not yet returned
delPending == {r \in Replicas : dpc[r] \in {"notify", "lock"}}

(* pg.mu is a sync.RWMutex.  Every critical section of the code is one    *)
(* step of the model except the read section of sendSyncPktToUpf, which   *)
(* blocks on the channel send while it holds RLock (senders[s] = "held"). *)
(* pg.mu.Lock() therefore proceeds only when no sender holds the lock.    *)
Lockable == \A s \in SendIds : senders[s] # "held"

(* log.Fatal or a nil-pointer panic: the gateway process terminates.      *)
Crash(why) ==
    /\ crashed' = why
    /\ UNCHANGED <<smfVars, gwVars, taskVars, linkVars, upfVars, lbVars>>

\* Every goroutine, and the environment, stops with the process.
Alive == crashed = "none"

(* The gRPC calls to the load-balancer agent.  Each is synchronous and    *)
(* ends the process on an RPC error; the agent is assumed reachable, so a  *)
(* call is its effect on what the agent knows.                            *)
notifyUpfAddEvent(r)    == lbUpfs' = lbUpfs \cup {r}
notifyUpfDeleteEvent(r) == lbUpfs' = lbUpfs \ {r}
\* UpdatePfcpSession with the F-SEID (and F-TEIDs, UE IP) of the metadata
notifyPfcpSessionAddEvent(s)    == lbSess' = lbSess \cup {s}
notifyPfcpSessionDeleteEvent(s) == lbSess' = lbSess \ {s}

-----------------------------------------------------------------------------
(***************************************************************************)
(* The SMF (environment).  It associates once, establishes each session   *)
(* once, sends at most one request per session at a time, and may         *)
(* retransmit an unanswered request with the same sequence number.       *)
(***************************************************************************)
Req(t, s) == [type |-> t, seq |-> smfNext, seid |-> s,
              teid |-> IF t \in {"EstReq", "ModReq"} THEN CpAddr ELSE Nil]

Requested == {smfReq[q] : q \in {q \in Seqs : smfReq[q] # Nil}}
Busy(s)   == \E q \in smfOut : smfReq[q].seid = s

SmfSend(m) ==
    /\ Alive /\ smfNext <= MaxSeq
    /\ smfReq' = [smfReq EXCEPT ![smfNext] = m]
    /\ smfNext' = smfNext + 1
    /\ smfOut' = smfOut \cup {smfNext}
    /\ sends' = [sends EXCEPT ![smfNext] = 1]
    /\ ob' = [ob EXCEPT ![<<smfNext, 1>>] = "admit"]
    /\ UNCHANGED <<smfAssoc, smfSess, replies, gwVars, senders, bpc, replay,
                   wpc, rd, linkVars, upfVars, lbVars, crashed>>

SmfAssociate ==
    /\ \A m \in Requested : m.type # "AssocReq"
    /\ SmfSend(Req("AssocReq", Nil))

SmfEstablish(s) ==
    /\ smfAssoc
    /\ \A m \in Requested : m.seid # s
    /\ SmfSend(Req("EstReq", s))

SmfModify(s) == s \in smfSess /\ ~Busy(s) /\ SmfSend(Req("ModReq", s))
SmfDelete(s) == s \in smfSess /\ ~Busy(s) /\ SmfSend(Req("DelReq", s))
SmfHeartbeat ==
    /\ Cardinality({m \in Requested : m.type = "HbReq"}) < MaxSmfHb
    /\ SmfSend(Req("HbReq", Nil))

SmfRetransmit(q) ==
    /\ Alive /\ q \in smfOut
    /\ sends[q] <= MaxRetx
    /\ sends' = [sends EXCEPT ![q] = @ + 1]
    /\ ob' = [ob EXCEPT ![<<q, sends[q] + 1>>] = "admit"]
    /\ UNCHANGED <<smfNext, smfReq, smfOut, smfAssoc, smfSess, replies, gwVars,
                   senders, bpc, replay, wpc, rd, linkVars, upfVars, lbVars,
                   crashed>>

(* The SMF receives a datagram on the virtual IP; it acts on a response   *)
(* to a request it still waits for and ignores any other.                 *)
SmfReceive(m) ==
    /\ replies' = [replies EXCEPT ![m.seq] = @ + 1]
    /\ IF m.seq \in smfOut
       THEN /\ smfOut' = smfOut \ {m.seq}
            /\ smfAssoc' = (smfAssoc \/ m.type = "AssocResp")
            /\ smfSess' = CASE m.type = "EstResp" -> smfSess \cup {m.seid}
                            [] m.type = "DelResp" -> smfSess \ {m.seid}
                            [] OTHER              -> smfSess
       ELSE UNCHANGED <<smfOut, smfAssoc, smfSess>>
    /\ UNCHANGED <<smfNext, smfReq, sends>>

-----------------------------------------------------------------------------
(***************************************************************************)
(* outboundHandler: a datagram from the SMF.                              *)
(***************************************************************************)
ReqOf(o) == smfReq[o[1]]

\* The stored *message.Header of attempt o as Header.Marshal renders it.
HeaderOf(o) ==
    IF ReqOf(o).type \in {"EstReq", "ModReq"}
    THEN [ReqOf(o) EXCEPT !.teid = payload[o]] ELSE ReqOf(o)

\* Mutant: the metadata entry is not created.
OutboundAdmitNoMetadata(o) ==
    /\ Alive /\ ob[o] = "admit" /\ Lockable
    /\ processingSeqNums' = processingSeqNums \cup {o[1]}
    /\ ob' = [ob EXCEPT ![o] = "input"]
    /\ UNCHANGED <<payload, smfVars, meta, ds, sbInfos, senders, bpc, replay, wpc, rd,
                   linkVars, upfVars, lbVars, crashed>>

\* Mark the sequence number as processing and give it fresh, empty session
\* metadata (a retransmission resets the metadata of the same number).
OutboundAdmit(o) ==
    /\ Alive /\ ob[o] = "admit" /\ Lockable
    /\ processingSeqNums' = processingSeqNums \cup {o[1]}
    /\ seqNumToSessionMetaData' = (o[1] :> Nil) @@ meta
    /\ ob' = [ob EXCEPT ![o] = "input"]
    /\ UNCHANGED <<payload, smfVars, ds, sbInfos, senders, bpc, replay, wpc, rd,
                   linkVars, upfVars, lbVars, crashed>>

Accept(o) == ob' = [ob EXCEPT ![o] = "fanout"]

\* AssociationSetupRequestHandler.SouthboundInputHandler
AssocSouthboundInput(o) ==
    /\ Alive /\ ob[o] = "input" /\ ReqOf(o).type = "AssocReq"
    /\ ds' = createAssocSetupReq(ds, ReqOf(o))
    /\ Accept(o)
    /\ UNCHANGED <<payload, smfVars, processingSeqNums, meta, sbInfos, senders, bpc,
                   replay, wpc, rd, linkVars, upfVars, lbVars, crashed>>

\* SessionEstablishmentRequestHandler.SouthboundInputHandler: record the
\* request's Header in the metadata of its sequence number
\* (updateSessionMetadata).
EstSouthboundInput(o) ==
    /\ Alive /\ ob[o] = "input" /\ ReqOf(o).type = "EstReq" /\ Lockable
    /\ o[1] \in DOMAIN meta
    /\ seqNumToSessionMetaData' = [meta EXCEPT ![o[1]] = o]
    /\ Accept(o)
    /\ UNCHANGED <<payload, smfVars, processingSeqNums, ds, sbInfos, senders, bpc,
                   replay, wpc, rd, linkVars, upfVars, lbVars, crashed>>

\* SessionModificationRequestHandler.SouthboundInputHandler: append the
\* request's Header to the session's history, then update the metadata and notify
\* the load balancer (notifyPfcpSessionAddEvent; the F-SEID/F-TEIDs only
\* flow to that notification).
ModSouthboundInput(o) ==
    /\ Alive /\ ob[o] = "input" /\ ReqOf(o).type = "ModReq" /\ Lockable
    /\ o[1] \in DOMAIN meta
    /\ ds' = appendSessEstModReq(ds, ReqOf(o).seid, o)
    /\ notifyPfcpSessionAddEvent(ReqOf(o).seid)
    /\ Accept(o)
    /\ UNCHANGED <<payload, smfVars, processingSeqNums, meta, sbInfos, senders, bpc,
                   replay, wpc, rd, linkVars, upfVars, lbUpfs, crashed>>

\* Mutant: the session history is kept on deletion.
DelSouthboundInputKeeps(o) ==
    /\ Alive /\ ob[o] = "input" /\ ReqOf(o).type = "DelReq"
    /\ ~deleteFatal(ds, ReqOf(o).seid)
    /\ notifyPfcpSessionDeleteEvent(ReqOf(o).seid)
    /\ Accept(o)
    /\ UNCHANGED <<smfVars, gwVars, senders, bpc, replay, wpc, rd, linkVars,
                   upfVars, lbUpfs, crashed>>

\* Mutant: the load balancer is not told of the deletion.
DelSouthboundInputNoNotify(o) ==
    /\ Alive /\ ob[o] = "input" /\ ReqOf(o).type = "DelReq"
    /\ ~deleteFatal(ds, ReqOf(o).seid)
    /\ ds' = deleteSessEstModReqs(ds, ReqOf(o).seid)
    /\ Accept(o)
    /\ UNCHANGED <<payload, smfVars, processingSeqNums, meta, sbInfos, senders, bpc,
                   replay, wpc, rd, linkVars, upfVars, lbVars, crashed>>

\* SessionDeletionRequestHandler.SouthboundInputHandler: delete the history,
\* then notifyPfcpSessionDeleteEvent.
DelSouthboundInput(o) ==
    /\ Alive /\ ob[o] = "input" /\ ReqOf(o).type = "DelReq"
    /\ ~deleteFatal(ds, ReqOf(o).seid)
    /\ ds' = deleteSessEstModReqs(ds, ReqOf(o).seid)
    /\ notifyPfcpSessionDeleteEvent(ReqOf(o).seid)
    /\ Accept(o)
    /\ UNCHANGED <<payload, smfVars, processingSeqNums, meta, sbInfos, senders, bpc,
                   replay, wpc, rd, linkVars, upfVars, lbUpfs, crashed>>

\* Mutant: the early return does not forget the sequence number.
HbSouthboundInputKeeps(o) ==
    /\ Alive /\ ob[o] = "input" /\ ReqOf(o).type = "HbReq" /\ Lockable
    /\ SmfReceive([ReqOf(o) EXCEPT !.type = "HbResp"])
    /\ ob' = [ob EXCEPT ![o] = "done"]
    /\ UNCHANGED <<gwVars, senders, bpc, replay, wpc, rd, linkVars, upfVars,
                   lbVars, crashed>>

\* HeartbeatRequestHandler.SouthboundInputHandler answers the SMF itself
\* and returns false: outboundHandler then forgets the sequence number.
HbSouthboundInput(o) ==
    /\ Alive /\ ob[o] = "input" /\ ReqOf(o).type = "HbReq" /\ Lockable
    /\ SmfReceive([ReqOf(o) EXCEPT !.type = "HbResp"])
    /\ processingSeqNums' = processingSeqNums \ {o[1]}
    /\ seqNumToSessionMetaData' = [q \in DOMAIN meta \ {o[1]} |-> meta[q]]
    /\ ob' = [ob EXCEPT ![o] = "done"]
    /\ UNCHANGED <<payload, ds, sbInfos, senders, bpc, replay, wpc, rd, linkVars,
                   upfVars, lbVars, crashed>>

\* updateSessionMetadata dereferences the metadata of the sequence number:
\* nil when a response to an earlier attempt was relayed (and deleted the
\* metadata) after this attempt was admitted.
MetadataNil(o) ==
    /\ Alive /\ ob[o] = "input" /\ ReqOf(o).type \in {"EstReq", "ModReq"}
    /\ Lockable
    /\ o[1] \notin DOMAIN meta
    /\ Crash("updateSessionMetadata: nil metadata")

\* deleteSessEstModReqs dies on a SEID that has no history.
DeleteUnknownSession(o) ==
    /\ Alive /\ ob[o] = "input" /\ ReqOf(o).type = "DelReq"
    /\ deleteFatal(ds, ReqOf(o).seid)
    /\ Crash("deleteSessEstModReqs: unknown session")

\* Under RLock, start one send goroutine per replica now in sbInfos.
Fanout(o) ==
    /\ Alive /\ ob[o] = "fanout"
    /\ senders' = [s \in SendIds |->
                     IF <<s[1], s[2]>> = o /\ s[3] \in Registered
                     THEN "start" ELSE senders[s]]
    /\ ob' = [ob EXCEPT ![o] = "done"]
    /\ UNCHANGED <<smfVars, gwVars, bpc, replay, wpc, rd, linkVars, upfVars,
                   lbVars, crashed>>

\* SouthboundOutputHandler(dip): Establishment and Modification requests
\* get their CP-allocated F-TEIDs re-addressed to the replica; the other
\* requests are sent unmodified.  Under h.mu the rewrite and the Marshal,
\* which rebuilds Header.Payload, are one step.
SouthboundOutput(m, dip) ==
    IF m.type \in {"EstReq", "ModReq"} THEN [m EXCEPT !.teid = dip] ELSE m

\* The fan-out goroutine evaluates SouthboundOutputHandler(dip) before it
\* calls sendSyncPktToUpf: the shared Header.Payload of an Establishment
\* or Modification Request now carries dip (other types are not rewritten).
Marshalled(s) ==
    payload' = IF senders[s] = "start" /\ smfReq[s[1]].type \in {"EstReq", "ModReq"}
               THEN [payload EXCEPT ![<<s[1], s[2]>>] = s[3]] ELSE payload

\* sendSyncPktToUpf takes pg.mu.RLock, looks up the link now registered for
\* the replica (it cannot change while the read lock is held) and blocks
\* in the channel send, holding the read lock, while the channel is full.
SendSyncRLock(s) ==
    LET l == sbInfos[s[3]] IN
    /\ Alive /\ senders[s] = "start"
    /\ l # Nil /\ Len(ch[l]) = SB_CHANNEL_SIZE
    /\ senders' = [senders EXCEPT ![s] = "held"]
    /\ Marshalled(s)
    /\ UNCHANGED <<smfVars, processingSeqNums, meta, ds, sbInfos, ob, bpc,
                   replay, wpc, rd, linkVars, upfVars, lbVars, crashed>>

\* It dereferences nil when the replica was removed since the fan-out.
SendSyncNoLink(s) ==
    /\ Alive /\ senders[s] = "start"
    /\ sbInfos[s[3]] = Nil
    /\ Crash("sendSyncPktToUpf: replica removed")

\* The send completes once the channel has room and RUnlock follows.  When
\* it has room at once, RLock, send and RUnlock are this one step.
SendSyncPktToUpf(s) ==
    LET l == sbInfos[s[3]] IN
    /\ Alive /\ senders[s] \in {"start", "held"}
    /\ l # Nil /\ Len(ch[l]) < SB_CHANNEL_SIZE
    /\ ch' = [ch EXCEPT ![l] = Append(@, SouthboundOutput(smfReq[s[1]], s[3]))]
    /\ senders' = [senders EXCEPT ![s] = "none"]
    /\ Marshalled(s)
    /\ UNCHANGED <<smfVars, processingSeqNums, meta, ds, sbInfos, ob, bpc,
                   replay, wpc, rd, lnk, toUpf, fromUpf, upfVars, lbVars,
                   crashed>>

-----------------------------------------------------------------------------
\* Mutant: the writer does not wait on sem.
WriterSendNoWait(l) ==
    /\ Alive /\ wpc[l] = "idle" /\ ch[l] # <<>> /\ Head(ch[l]) # Nil
    /\ lnk[l] = "open"
    /\ toUpf' = [toUpf EXCEPT ![l] = Append(@, Head(ch[l]))]
    /\ ch' = [ch EXCEPT ![l] = Tail(@)]
    /\ UNCHANGED <<smfVars, gwVars, ob, senders, bpc, replay, wpc, rd, lnk,
                   fromUpf, upfVars, lbVars, crashed>>

(***************************************************************************)
(* The writer goroutine of a link: send one packet, then wait on sem for  *)
(* the reader to see the response; a nil packet ends the replay and       *)
(* registers the link in sbInfos.                                         *)
(***************************************************************************)
WriterSend(l) ==
    /\ Alive /\ wpc[l] = "idle" /\ ch[l] # <<>> /\ Head(ch[l]) # Nil
    /\ lnk[l] = "open"
    /\ toUpf' = [toUpf EXCEPT ![l] = Append(@, Head(ch[l]))]
    /\ ch' = [ch EXCEPT ![l] = Tail(@)]
    /\ wpc' = [wpc EXCEPT ![l] = "await"]
    /\ UNCHANGED <<smfVars, gwVars, ob, senders, bpc, replay, rd, lnk, fromUpf,
                   upfVars, lbVars, crashed>>

\* A packet still buffered in a channel closed by upfDeleteHandler is
\* written to the closed socket: conn.Write fails and log.Fatal follows.
WriterSendClosed(l) ==
    /\ Alive /\ wpc[l] = "idle" /\ ch[l] # <<>> /\ Head(ch[l]) # Nil
    /\ lnk[l] = "closed"
    /\ Crash("conn.Write on a closed link")

WriterRegister(l) ==
    /\ Alive /\ wpc[l] = "idle" /\ ch[l] # <<>> /\ Head(ch[l]) = Nil
    /\ Lockable
    /\ sbInfos' = [sbInfos EXCEPT ![l[1]] = l]
    /\ ch' = [ch EXCEPT ![l] = Tail(@)]
    /\ wpc' = [wpc EXCEPT ![l] = "notify"]
    /\ UNCHANGED <<payload, smfVars, processingSeqNums, meta, ds, ob, senders, bpc,
                   replay, rd, lnk, toUpf, fromUpf, upfVars, lbVars, crashed>>

\* After pg.mu.Unlock the writer calls notifyUpfAddEvent, then continues
\* with the channel.
WriterNotifyAdd(l) ==
    /\ Alive /\ wpc[l] = "notify"
    /\ notifyUpfAddEvent(l[1])
    /\ wpc' = [wpc EXCEPT ![l] = "idle"]
    /\ UNCHANGED <<smfVars, gwVars, ob, senders, bpc, replay, rd, linkVars,
                   upfVars, lbSess, crashed>>

(***************************************************************************)
(* The reader goroutine of a link: inboundHandler, then sem <- true for   *)
(* every datagram whose NorthboundInputHandler accepted it.              *)
(***************************************************************************)
RdIdle == [pc |-> "idle", msg |-> Nil]

\* readUdp returned a datagram: the reader is idle and the socket open.
Received(l) ==
    /\ Alive /\ rd[l] = RdIdle /\ lnk[l] = "open" /\ fromUpf[l] # <<>>

Dequeue(l) == fromUpf' = [fromUpf EXCEPT ![l] = Tail(@)]

\* Mutant: the heartbeat handler returns true, so sem <- true follows.
ReaderHeartbeatAcks(l) ==
    LET m == Head(fromUpf[l])
        k == sbInfos[l[1]]
    IN
    /\ Received(l) /\ m.type = "HbReq"
    /\ Dequeue(l)
    /\ k # Nil
    /\ toUpf' = [toUpf EXCEPT ![k] = Append(@, [m EXCEPT !.type = "HbResp"])]
    /\ wpc[l] = "await"
    /\ wpc' = [wpc EXCEPT ![l] = "idle"]
    /\ UNCHANGED <<smfVars, gwVars, ob, senders, bpc, replay, rd, lnk, ch,
                   upfVars, lbVars, crashed>>

\* HeartbeatRequestHandler.NorthboundInputHandler: answer the replica on
\* the connection now registered for it (sendAsyncPktToUpf), no sem.
ReaderHeartbeat(l) ==
    LET m == Head(fromUpf[l])
        k == sbInfos[l[1]]
    IN
    /\ Received(l) /\ m.type = "HbReq"
    /\ Dequeue(l)
    /\ k # Nil
    /\ toUpf' = [toUpf EXCEPT ![k] = Append(@, [m EXCEPT !.type = "HbResp"])]
    /\ UNCHANGED <<smfVars, gwVars, taskVars, lnk, ch, upfVars, lbVars, crashed>>

\* inboundHandler -> NewPfcpHandler: log.Fatal("Unknown PFCP message type").
ReaderUnknownType(l) ==
    /\ Received(l) /\ Head(fromUpf[l]).type \notin RespTypes \cup {"HbReq"}
    /\ Crash("NewPfcpHandler: unknown message type")

ReaderHeartbeatNoLink(l) ==
    /\ Received(l) /\ Head(fromUpf[l]).type = "HbReq"
    /\ sbInfos[l[1]] = Nil
    /\ Crash("sendAsyncPktToUpf: replica not registered")

\* Mutant: the processing mark is kept when a response is claimed.
ReaderClaimKeepsPending(l) ==
    LET m == Head(fromUpf[l]) IN
    /\ Received(l) /\ m.type \in RespTypes \ {"HbResp"} /\ Lockable
    /\ Dequeue(l)
    /\ m.seq \in processingSeqNums
    /\ rd' = [rd EXCEPT ![l] = [pc |-> "relay", msg |-> m]]
    /\ UNCHANGED <<smfVars, gwVars, ob, senders, bpc, replay, wpc, lnk, ch,
                   toUpf, upfVars, lbVars, crashed>>

\* Mutant: the duplicate check looks up the metadata map instead.
ReaderClaimByMetadata(l) ==
    LET m == Head(fromUpf[l]) IN
    /\ Received(l) /\ m.type \in RespTypes \ {"HbResp"} /\ Lockable
    /\ Dequeue(l)
    /\ m.seq \in DOMAIN meta
    /\ processingSeqNums' = processingSeqNums \ {m.seq}
    /\ rd' = [rd EXCEPT ![l] = [pc |-> "relay", msg |-> m]]
    /\ UNCHANGED <<payload, smfVars, meta, ds, sbInfos, ob, senders, bpc, replay, wpc,
                   lnk, ch, toUpf, upfVars, lbVars, crashed>>

\* The first response for a processing sequence number claims it.
ReaderClaim(l) ==
    LET m == Head(fromUpf[l]) IN
    /\ Received(l) /\ m.type \in RespTypes \ {"HbResp"} /\ Lockable
    /\ Dequeue(l)
    /\ m.seq \in processingSeqNums
    /\ processingSeqNums' = processingSeqNums \ {m.seq}
    /\ rd' = [rd EXCEPT ![l] = [pc |-> "relay", msg |-> m]]
    /\ UNCHANGED <<payload, smfVars, meta, ds, sbInfos, ob, senders, bpc, replay, wpc,
                   lnk, ch, toUpf, upfVars, lbVars, crashed>>

\* Mutant: a dropped duplicate is not acknowledged on sem.
ReaderDropNoAck(l) ==
    LET m == Head(fromUpf[l]) IN
    /\ Received(l) /\ m.type \in RespTypes \ {"HbResp"} /\ Lockable
    /\ Dequeue(l)
    /\ m.seq \notin processingSeqNums
    /\ UNCHANGED <<smfVars, gwVars, taskVars, lnk, ch, toUpf, upfVars, lbVars,
                   crashed>>

\* Any later response for the same number is dropped; sem <- true then
\* meets the writer waiting on <-sem.
ReaderDrop(l) ==
    LET m == Head(fromUpf[l]) IN
    /\ Received(l) /\ m.type \in RespTypes \ {"HbResp"} /\ Lockable
    /\ Dequeue(l)
    /\ m.seq \notin processingSeqNums
    /\ wpc[l] = "await"
    /\ wpc' = [wpc EXCEPT ![l] = "idle"]
    /\ UNCHANGED <<smfVars, gwVars, ob, senders, bpc, replay, rd, lnk, ch,
                   toUpf, upfVars, lbVars, crashed>>

\* NorthboundOutputHandler of a claimed response, then sendToSmf.  For an
\* Establishment Response the request kept in the metadata is appended to
\* the history under the response's SEID, and updateSessionMetadata takes
\* pg.mu.Lock (the append before it and the Lock are one step here), and
\* notifyPfcpSessionAddEvent tells the load balancer of the session.
ReaderRelay(l) ==
    LET m == rd[l].msg
        q == m.seq
    IN
    /\ Alive /\ rd[l].pc = "relay"
    /\ m.type = "EstResp" => q \in DOMAIN meta /\ Lockable
    /\ IF m.type = "EstResp"
       THEN /\ ds' = appendSessEstModReq(ds, m.seid, meta[q])
            /\ notifyPfcpSessionAddEvent(m.seid)
       ELSE UNCHANGED <<ds, lbSess>>
    /\ SmfReceive(m)
    /\ rd' = [rd EXCEPT ![l] = [@ EXCEPT !.pc = "release"]]
    /\ UNCHANGED <<payload, processingSeqNums, meta, sbInfos, ob, senders, bpc, replay,
                   wpc, linkVars, upfVars, lbUpfs, crashed>>

\* Mutant: the relay does not acknowledge on sem.
ReaderReleaseNoAck(l) ==
    /\ Alive /\ rd[l].pc = "release" /\ Lockable
    /\ seqNumToSessionMetaData' =
          [x \in DOMAIN meta \ {rd[l].msg.seq} |-> meta[x]]
    /\ rd' = [rd EXCEPT ![l] = RdIdle]
    /\ UNCHANGED <<payload, smfVars, processingSeqNums, ds, sbInfos, ob, senders, bpc,
                   replay, wpc, linkVars, upfVars, lbVars, crashed>>

\* Delete the metadata under pg.mu.Lock, return true: sem <- true meets
\* the writer waiting on <-sem.
ReaderRelease(l) ==
    /\ Alive /\ rd[l].pc = "release" /\ Lockable
    /\ seqNumToSessionMetaData' =
          [x \in DOMAIN meta \ {rd[l].msg.seq} |-> meta[x]]
    /\ wpc[l] = "await"
    /\ rd' = [rd EXCEPT ![l] = RdIdle]
    /\ wpc' = [wpc EXCEPT ![l] = "idle"]
    /\ UNCHANGED <<payload, smfVars, processingSeqNums, ds, sbInfos, ob, senders, bpc,
                   replay, linkVars, upfVars, lbVars, crashed>>

\* A second claimed Establishment Response for a number whose metadata the
\* first relay already deleted: getSessEstReqFromSessionMetadata
\* dereferences nil.
RelayNoMetadata(l) ==
    /\ Alive /\ rd[l].pc = "relay" /\ rd[l].msg.type = "EstResp"
    /\ rd[l].msg.seq \notin DOMAIN meta
    /\ Crash("relay: nil session metadata")

-----------------------------------------------------------------------------
(***************************************************************************)
(* upfScaleOutHandler: bring a new replica to its siblings' state.        *)
(***************************************************************************)
\* Ignore a replica already in sbInfos.  Otherwise (after the sleep) open
\* the link, start its writer and reader, not yet registered, and queue the
\* stored association request as it is - or, without one, the nil packet
\* at once.
ScaleOutCheck(l) ==
    LET req == readAssocSetupReq(ds) IN
    /\ Alive /\ bpc[l] = "check"
    /\ IF sbInfos[l[1]] # Nil
       THEN /\ bpc' = [bpc EXCEPT ![l] = "done"]
            /\ UNCHANGED <<lnk, ch>>
       ELSE /\ lnk' = [lnk EXCEPT ![l] = "open"]
            /\ ch' = [ch EXCEPT ![l] = <<req>>]
            /\ bpc' = [bpc EXCEPT ![l] = IF req = Nil THEN "done" ELSE "snapshot"]
    /\ UNCHANGED <<smfVars, gwVars, ob, senders, replay, wpc, rd, toUpf,
                   fromUpf, upfVars, lbVars, crashed>>

\* readAllSessEstModReqs, then one SEID after the other in map order.
ScaleOutSnapshot(l) ==
    LET all == readAllSessEstModReqs(ds) IN
    /\ Alive /\ bpc[l] = "snapshot"
    /\ \E order \in SetToSeqs(DOMAIN all) :
          replay' = [replay EXCEPT ![l] =
                        FlattenSeq([i \in DOMAIN order |-> all[order[i]]])]
    /\ bpc' = [bpc EXCEPT ![l] = "replay"]
    /\ UNCHANGED <<smfVars, gwVars, ob, senders, wpc, rd, linkVars, upfVars,
                   lbVars, crashed>>

\* Mutant: the replay does not block on a full channel.
ScaleOutReplayUnbounded(l) ==
    /\ Alive /\ bpc[l] = "replay" /\ replay[l] # <<>> /\ Head(replay[l]) # Nil
    /\ ch' = [ch EXCEPT ![l] = Append(@, HeaderOf(Head(replay[l])))]
    /\ replay' = [replay EXCEPT ![l] = Tail(@)]
    /\ UNCHANGED <<smfVars, gwVars, ob, senders, bpc, wpc, rd, lnk, toUpf,
                   fromUpf, upfVars, lbVars, crashed>>

\* Each stored Header is re-marshalled and queued; the result of
\* SouthboundOutputHandler(upfDip), which rewrites a fresh parse of it, is
\* discarded, so the packet queued is the stored Header as it is now.
ScaleOutReplay(l) ==
    /\ Alive /\ bpc[l] = "replay" /\ replay[l] # <<>> /\ Head(replay[l]) # Nil
    /\ Len(ch[l]) < SB_CHANNEL_SIZE
    /\ ch' = [ch EXCEPT ![l] = Append(@, HeaderOf(Head(replay[l])))]
    /\ replay' = [replay EXCEPT ![l] = Tail(@)]
    /\ UNCHANGED <<smfVars, gwVars, ob, senders, bpc, wpc, rd, lnk, toUpf,
                   fromUpf, upfVars, lbVars, crashed>>

\* A nil request in the history: req.Marshal() dereferences nil.
ScaleOutReplayNil(l) ==
    /\ Alive /\ bpc[l] = "replay" /\ replay[l] # <<>> /\ Head(replay[l]) = Nil
    /\ Crash("replay: nil request in history")

\* Mutant: the closing nil packet is not queued.
ScaleOutFinishNoNil(l) ==
    /\ Alive /\ bpc[l] = "replay" /\ replay[l] = <<>>
    /\ bpc' = [bpc EXCEPT ![l] = "done"]
    /\ UNCHANGED <<smfVars, gwVars, ob, senders, replay, wpc, rd, linkVars,
                   upfVars, lbVars, crashed>>

ScaleOutFinish(l) ==
    /\ Alive /\ bpc[l] = "replay" /\ replay[l] = <<>>
    /\ Len(ch[l]) < SB_CHANNEL_SIZE
    /\ ch' = [ch EXCEPT ![l] = Append(@, Nil)]
    /\ bpc' = [bpc EXCEPT ![l] = "done"]
    /\ UNCHANGED <<smfVars, gwVars, ob, senders, replay, wpc, rd, lnk, toUpf,
                   fromUpf, upfVars, lbVars, crashed>>

(***************************************************************************)
(* upfDeleteHandler: notify the load balancer first, then, under         *)
(* pg.mu.Lock, close the registered link's socket and channel and remove  *)
(* it from sbInfos.                                                       *)
(***************************************************************************)
\* notifyUpfDeleteEvent, before pg.mu.Lock.
UpfDeleteNotify(r) ==
    /\ Alive /\ dpc[r] = "notify"
    /\ notifyUpfDeleteEvent(r)
    /\ dpc' = [dpc EXCEPT ![r] = "lock"]
    /\ UNCHANGED <<smfVars, gwVars, taskVars, linkVars, pod, podEvents,
                   upfRecv, upfSess, upfHb, lbSess, crashed>>

UpfDelete(r) ==
    /\ Alive /\ dpc[r] = "lock" /\ Lockable
    /\ sbInfos[r] # Nil
    /\ lnk' = [lnk EXCEPT ![sbInfos[r]] = "closed"]
    /\ sbInfos' = [sbInfos EXCEPT ![r] = Nil]
    /\ dpc' = [dpc EXCEPT ![r] = "done"]
    /\ UNCHANGED <<payload, smfVars, processingSeqNums, meta, ds, taskVars, ch, toUpf,
                   fromUpf, pod, podEvents, upfRecv, upfSess, upfHb, lbVars,
                   crashed>>

UpfDeleteNoLink(r) ==
    /\ Alive /\ dpc[r] = "lock" /\ Lockable
    /\ sbInfos[r] = Nil
    /\ Crash("upfDeleteHandler: replica not registered")

-----------------------------------------------------------------------------
(***************************************************************************)
(* The replica pods (environment).  A replica answers every request on   *)
(* the link it came from, and its pod goes through Pending, Running,     *)
(* terminating (deletion timestamp set, still Running) and gone.          *)
(***************************************************************************)
UpfHandle(l) ==
    LET r == l[1]
        m == Head(toUpf[l])
    IN
    /\ Alive /\ pod[r] # "gone" /\ toUpf[l] # <<>>
    /\ toUpf' = [toUpf EXCEPT ![l] = Tail(@)]
    /\ IF m.type = "HbResp"
       THEN UNCHANGED <<fromUpf, upfRecv, upfSess>>
       ELSE /\ upfRecv' = [upfRecv EXCEPT ![r] = Append(@, m)]
            /\ upfSess' = [upfSess EXCEPT ![r] =
                             CASE m.type = "EstReq" -> @ \cup {m.seid}
                               [] m.type = "DelReq" -> @ \ {m.seid}
                               [] OTHER             -> @]
            /\ fromUpf' = [fromUpf EXCEPT ![l] =
                             Append(@, [m EXCEPT !.type = RespOf[m.type],
                                                 !.teid = Nil])]
    /\ UNCHANGED <<smfVars, gwVars, taskVars, lnk, ch, pod, podEvents,
                   dpc, upfHb, lbVars, crashed>>

\* An associated replica sends its own heartbeat requests, and a session
\* report request for a session it holds.
UpfRequest(l, t) ==
    LET r == l[1] IN
    /\ Alive /\ pod[r] # "gone" /\ lnk[l] = "open" /\ upfHb[r] < MaxUpfHb
    /\ \E i \in DOMAIN upfRecv[r] : upfRecv[r][i].type = "AssocReq"
    /\ t = "ReportReq" => upfSess[r] # {}
    /\ fromUpf' = [fromUpf EXCEPT ![l] = Append(@, [type |-> t,
                      seq |-> HbSeq, seid |-> Nil, teid |-> Nil])]
    /\ upfHb' = [upfHb EXCEPT ![r] = @ + 1]
    /\ UNCHANGED <<smfVars, gwVars, taskVars, lnk, ch, toUpf, pod, podEvents,
                   dpc, upfRecv, upfSess, lbVars, crashed>>

\* An informer Add/Update event for a Running pod that is not the start of
\* its deletion starts upfScaleOutHandler (also while terminating).  The
\* first such event of a Pending pod is the one that reports it Running;
\* the events of a Pending pod before it return at once (main.go 195-197)
\* and change nothing.
PodUpdate(r) ==
    /\ Alive /\ pod[r] \in {"pending", "running", "terminating"}
    /\ podEvents[r] < MaxPodEvents
    /\ podEvents' = [podEvents EXCEPT ![r] = @ + 1]
    /\ bpc' = [bpc EXCEPT ![<<r, podEvents[r] + 1>>] = "check"]
    /\ pod' = [pod EXCEPT ![r] = IF @ = "pending" THEN "running" ELSE @]
    /\ UNCHANGED <<smfVars, gwVars, ob, senders, replay, wpc, rd, linkVars,
                   dpc, upfRecv, upfSess, upfHb, lbVars, crashed>>

\* The deletion timestamp is set: upfDeleteHandler starts (it checks only
\* the label, not the phase).  A pod that never ran has nothing to stop
\* and goes at once; no later event of it passes the phase check.
PodTerminate(r) ==
    /\ Alive /\ r \in DeletablePods /\ pod[r] \in {"pending", "running"}
    /\ pod' = [pod EXCEPT ![r] = IF @ = "pending" THEN "gone"
                                               ELSE "terminating"]
    /\ dpc' = [dpc EXCEPT ![r] = "notify"]
    /\ UNCHANGED <<smfVars, gwVars, taskVars, linkVars, podEvents, upfRecv,
                   upfSess, upfHb, lbVars, crashed>>

PodGone(r) ==
    /\ Alive /\ pod[r] = "terminating"
    /\ pod' = [pod EXCEPT ![r] = "gone"]
    /\ UNCHANGED <<smfVars, gwVars, taskVars, linkVars, podEvents, dpc,
                   upfRecv, upfSess, upfHb, lbVars, crashed>>

-----------------------------------------------------------------------------
(* A replica of StartedReplicas was bootstrapped, with nothing to replay,  *)
(* before the SMF's first request: its first link is open and registered. *)
Started(l) == l[1] \in StartedReplicas /\ l[2] = 1

Init ==
    /\ smfNext = 1
    /\ smfReq = [q \in Seqs |-> Nil]
    /\ smfOut = {}
    /\ smfAssoc = FALSE
    /\ smfSess = {}
    /\ sends = [q \in Seqs |-> 0]
    /\ replies = [q \in Seqs |-> 0]
    /\ processingSeqNums = {}
    /\ seqNumToSessionMetaData = [q \in {} |-> Nil]
    /\ ds = Nil
    /\ payload = [o \in Seqs \X Attempts |-> CpAddr]
    /\ sbInfos = [r \in Replicas |-> IF r \in StartedReplicas THEN <<r, 1>> ELSE Nil]
    /\ ob = [o \in Seqs \X Attempts |-> "none"]
    /\ senders = [s \in SendIds |-> "none"]
    /\ bpc = [l \in Links |-> IF Started(l) THEN "done" ELSE "none"]
    /\ replay = [l \in Links |-> <<>>]
    /\ wpc = [l \in Links |-> "idle"]
    /\ rd = [l \in Links |-> RdIdle]
    /\ lnk = [l \in Links |-> IF Started(l) THEN "open" ELSE "none"]
    /\ ch = [l \in Links |-> <<>>]
    /\ toUpf = [l \in Links |-> <<>>]
    /\ fromUpf = [l \in Links |-> <<>>]
    /\ pod = [r \in Replicas |-> IF r \in StartedReplicas THEN "running"
                                                       ELSE "pending"]
    /\ podEvents = [r \in Replicas |-> IF r \in StartedReplicas THEN 1 ELSE 0]
    /\ dpc = [r \in Replicas |-> "none"]
    /\ upfRecv = [r \in Replicas |-> <<>>]
    /\ upfSess = [r \in Replicas |-> {}]
    /\ upfHb = [r \in Replicas |-> 0]
    /\ lbUpfs = StartedReplicas
    /\ lbSess = {}
    /\ crashed = "none"

Smf ==
    \/ SmfAssociate
    \/ SmfHeartbeat
    \/ \E s \in Sessions : SmfEstablish(s) \/ SmfModify(s) \/ SmfDelete(s)
    \/ \E q \in Seqs : SmfRetransmit(q)

Outbound(o) ==
    \/ OutboundAdmit(o)
    \/ AssocSouthboundInput(o)
    \/ EstSouthboundInput(o)
    \/ ModSouthboundInput(o)
    \/ DelSouthboundInput(o)
    \/ HbSouthboundInput(o)
    \/ MetadataNil(o)
    \/ DeleteUnknownSession(o)
    \/ Fanout(o)

Link(l) ==
    \/ WriterSend(l) \/ WriterSendClosed(l) \/ WriterRegister(l)
    \/ WriterNotifyAdd(l)
    \/ ReaderHeartbeat(l) \/ ReaderHeartbeatNoLink(l) \/ ReaderUnknownType(l)
    \/ ReaderClaim(l) \/ ReaderDrop(l)
    \/ ReaderRelay(l) \/ RelayNoMetadata(l) \/ ReaderRelease(l)

Sender(s) == SendSyncRLock(s) \/ SendSyncNoLink(s) \/ SendSyncPktToUpf(s)

ScaleOut(l) ==
    \/ ScaleOutCheck(l) \/ ScaleOutSnapshot(l)
    \/ ScaleOutReplay(l) \/ ScaleOutReplayNil(l) \/ ScaleOutFinish(l)

Pods ==
    \E r \in Replicas :
        \/ PodUpdate(r) \/ PodTerminate(r) \/ PodGone(r)
        \/ UpfDeleteNotify(r) \/ UpfDelete(r) \/ UpfDeleteNoLink(r)

Next ==
    \/ Smf
    \/ \E o \in Seqs \X Attempts : Outbound(o)
    \/ \E s \in SendIds : Sender(s)
    \/ \E l \in Links : Link(l) \/ ScaleOut(l) \/ UpfHandle(l)
       \/ \E t \in UpfReqTypes : UpfRequest(l, t)
    \/ Pods

(***************************************************************************)
(* Fairness: every goroutine of the gateway keeps running while it can,   *)
(* and a live replica answers what it receives.  Sends on a channel that  *)
(* is full only now and then need strong fairness.  The SMF, the pod      *)
(* events and the replicas' own requests are not obliged to happen.       *)
(***************************************************************************)
Fairness ==
    /\ \A o \in Seqs \X Attempts : WF_vars(Outbound(o))
    /\ \A l \in Links :
          /\ WF_vars(Link(l)) /\ WF_vars(UpfHandle(l))
          /\ SF_vars(ScaleOut(l))
    /\ \A s \in SendIds : SF_vars(Sender(s))
    /\ \A r \in Replicas :
          WF_vars(UpfDeleteNotify(r) \/ UpfDelete(r) \/ UpfDeleteNoLink(r))

Spec == Init /\ [][Next]_vars /\ Fairness

-----------------------------------------------------------------------------
MaybeMsg == Msgs \cup {Nil}
MaybeRef == (Seqs \X Attempts) \cup {Nil}   \* a stored *message.Header

TypeOK ==
    /\ smfNext \in 1..(MaxSeq + 1)
    /\ smfReq \in [Seqs -> MaybeMsg]
    /\ smfOut \subseteq Seqs /\ smfAssoc \in BOOLEAN /\ smfSess \subseteq Sessions
    /\ sends \in [Seqs -> 0..(MaxRetx + 1)]
    /\ replies \in [Seqs -> Nat]
    /\ processingSeqNums \subseteq Seqs
    /\ DOMAIN meta \subseteq Seqs /\ \A q \in DOMAIN meta : meta[q] \in MaybeRef
    /\ \/ ds = Nil
       \/ /\ ds.assoc \in Msgs /\ DOMAIN ds.sess \subseteq Sessions
          /\ \A s \in DOMAIN ds.sess : ds.sess[s] \in Seq(MaybeRef)
    /\ payload \in [Seqs \X Attempts -> Replicas \cup {CpAddr}]
    /\ sbInfos \in [Replicas -> Links \cup {Nil}]
    /\ ob \in [Seqs \X Attempts -> {"none", "admit", "input", "fanout", "done"}]
    /\ senders \in [SendIds -> {"none", "start", "held"}]
    /\ bpc \in [Links -> {"none", "check", "snapshot", "replay", "done"}]
    /\ replay \in [Links -> Seq(MaybeRef)]
    /\ wpc \in [Links -> {"idle", "await", "notify"}]
    /\ rd \in [Links -> [pc : {"idle", "relay", "release"}, msg : MaybeMsg]]
    /\ lnk \in [Links -> {"none", "open", "closed"}]
    /\ ch \in [Links -> Seq(MaybeMsg)]
    /\ \A l \in Links : Len(ch[l]) <= SB_CHANNEL_SIZE
    /\ toUpf \in [Links -> Seq(Msgs)] /\ fromUpf \in [Links -> Seq(Msgs)]
    /\ pod \in [Replicas -> {"pending", "running", "terminating", "gone"}]
    /\ podEvents \in [Replicas -> 0..MaxPodEvents]
    /\ dpc \in [Replicas -> {"none", "notify", "lock", "done"}]
    /\ upfRecv \in [Replicas -> Seq(Msgs)]
    /\ upfSess \in [Replicas -> SUBSET Sessions]
    /\ upfHb \in [Replicas -> 0..MaxUpfHb]
    /\ lbUpfs \subseteq Replicas /\ lbSess \subseteq Sessions
    /\ crashed \in STRING

(***************************************************************************)
(* Safety                                                                  *)
(***************************************************************************)

(* Duplicate suppression (inboundHandler): however many replicas answer a *)
(* request, the SMF receives at most one response per time it sent that  *)
(* request.                                                               *)
AtMostOneReplyPerSend == \A q \in Seqs : replies[q] <= sends[q]

(* Request pacing of a link (writer goroutine and sem): at most one       *)
(* request is outstanding on a link - on the wire, at the replica, as its *)
(* response or in the reader - and the writer waits on sem exactly while  *)
(* one is.                                                                *)
InFlight(l) ==
    Len(SelectSeq(toUpf[l], LAMBDA m : m.type # "HbResp"))
    + Len(SelectSeq(fromUpf[l], LAMBDA m : m.type \notin UpfOrigTypes))
    + (IF rd[l].pc = "idle" THEN 0 ELSE 1)

LinkPacing ==
    \A l \in Links : InFlight(l) = IF wpc[l] = "await" THEN 1 ELSE 0

(* The metadata of a sequence number outlives its processing mark: every  *)
(* processing number, and every claimed response being relayed, still    *)
(* finds its seqNumToSessionMetaData entry (else a nil dereference).      *)
ProcessingHasMetadata ==
    /\ processingSeqNums \subseteq DOMAIN meta
    /\ \A l \in Links : rd[l].pc = "relay" => rd[l].msg.seq \in DOMAIN meta

(* The session history (memDataStore, filled by the Establishment relay  *)
(* and by Modification input, emptied by Deletion input) holds, for each   *)
(* SEID, the Header of the Establishment Request once its response was    *)
(* relayed, followed by those of every Modification Request that passed   *)
(* south-bound input, in the SMF's order, and no nil entry; nothing is    *)
(* kept for a session whose deletion has passed input.  The Headers are   *)
(* told apart by sequence number: their F-TEIDs are whatever the last     *)
(* Marshal wrote (see TeidAddressedToReceiver).                           *)
InputDone(q) == \E a \in Attempts : ob[<<q, a>>] \in {"fanout", "done"}

Stored(q) ==
    /\ smfReq[q] # Nil
    /\ \/ smfReq[q].type = "EstReq" /\ replies[q] > 0
       \/ smfReq[q].type = "ModReq" /\ InputDone(q)

StoredSeq(s) ==
    SetToSortSeq({q \in Seqs : Stored(q) /\ smfReq[q].seid = s}, <)

\* the sequence numbers of the Headers stored for s (0 for a nil one)
HistorySeqs(s) ==
    [i \in DOMAIN ds.sess[s] |-> IF ds.sess[s][i] = Nil THEN 0
                                 ELSE ds.sess[s][i][1]]

Deleted(s) ==
    \E q \in Seqs : smfReq[q] # Nil /\ smfReq[q].type = "DelReq"
                    /\ smfReq[q].seid = s /\ InputDone(q)

HistoryIsSmfRequests ==
    ds # Nil =>
      \A s \in Sessions :
        IF s \in DOMAIN ds.sess
        THEN HistorySeqs(s) = StoredSeq(s) /\ ~Deleted(s)
        ELSE StoredSeq(s) = <<>> \/ Deleted(s)

(* Replay is addressed to the new replica (upfScaleOutHandler): every     *)
(* Establishment or Modification Request a replica receives - live or     *)
(* replayed - carries F-TEIDs rewritten to that replica's own address.    *)
TeidAddressedToReceiver ==
    \A r \in Replicas : \A i \in DOMAIN upfRecv[r] :
        upfRecv[r][i].type \in {"EstReq", "ModReq"} => upfRecv[r][i].teid = r

(* Bootstrap ordering (spec 4, Bootstrap (d)): a replica never receives a  *)
(* Modification or Deletion Request for a session before the request that *)
(* established it, whether the latter came live or by replay.             *)
ReplicaHasSessionContext ==
    \A r \in Replicas : \A i \in DOMAIN upfRecv[r] :
        upfRecv[r][i].type \in {"ModReq", "DelReq"} =>
            \E j \in 1..(i - 1) : /\ upfRecv[r][j].type = "EstReq"
                                 /\ upfRecv[r][j].seid = upfRecv[r][i].seid

(* upfScaleOutHandler's "already existed" check: a replica is served by a *)
(* single south-bound link, so two informer events for the same pod never *)
(* open two links (and two bootstraps) to it.                             *)
OneLinkPerReplica ==
    \A l1, l2 \in Links :
        lnk[l1] = "open" /\ lnk[l2] = "open" /\ l1[1] = l2[1] => l1 = l2

EstRelayed(s) ==
    \E q \in Seqs : /\ smfReq[q] # Nil /\ smfReq[q].type = "EstReq"
                   /\ smfReq[q].seid = s /\ replies[q] > 0

LbSessionsAreLive ==
    lbSess = {s \in Sessions : EstRelayed(s) /\ ~Deleted(s)}

(* The gateway process never terminates itself (log.Fatal or a nil        *)
(* dereference) while the SMF and the replicas follow the protocol, PFCP  *)
(* retransmission included.                                               *)
NoCrash == crashed = "none"

(***************************************************************************)
(* Refinement                                                              *)
(***************************************************************************)
\* A number is pending in the sense of ReplyOnce while it is in
\* processingSeqNums or a reader has claimed a response for it and not yet
\* sent it to the SMF.
Relaying == {rd[l].msg.seq : l \in {k \in Links : rd[k].pc = "relay"}}

Relay == INSTANCE ReplyOnce WITH pending <- processingSeqNums \cup Relaying

(* The ledger and the readers implement ReplyOnce: outboundHandler's      *)
(* admission makes a number pending, and a response reaches the SMF (from *)
(* a reader's relay or the heartbeat proxy) only for a pending number,    *)
(* which it resolves - the claim in inboundHandler and the relay after it *)
(* never let a second response for one admission through.               *)
RelayImplementsReplyOnce == Relay!Spec

(***************************************************************************)
(* Liveness                                                                *)
(***************************************************************************)

(* Removal of a replica (upfDeleteHandler): once the pod's deletion has   *)
(* started, the replica eventually leaves the fan-out set and the load    *)
(* balancer for good, and the gateway keeps running - whatever point its  *)
(* bootstrap (upfScaleOutHandler and the writer's registration and        *)
(* notifyUpfAddEvent) had reached.                                        *)
ReplicaRemovalCompletes ==
    \A r \in Replicas :
        dpc[r] = "notify" ~>
            [](crashed = "none" /\ sbInfos[r] = Nil /\ r \notin lbUpfs)

(* Bootstrap terminates (upfScaleOutHandler, its replay through the      *)
(* writer's sem wait, the nil packet and notifyUpfAddEvent): a replica     *)
(* whose scale-out started eventually serves - it is in sbInfos and the    *)
(* load balancer forwards to it - unless its pod is being deleted or the  *)
(* process died.                                                          *)
BootstrapCompletes ==
    \A l \in Links :
        bpc[l] = "check" ~> \/ l[1] \in Registered /\ l[1] \in lbUpfs
                            \/ pod[l[1]] \in {"terminating", "gone"}
                            \/ crashed # "none"

(* The sem handshake never stalls a link: whatever is queued on a link's *)
(* channel is eventually taken by its writer, unless the link was closed, *)
(* the replica's pod is gone or the process died.                        *)
LinkDrains ==
    \A l \in Links :
        ch[l] # <<>> ~> (ch[l] = <<>> \/ lnk[l] = "closed"
                         \/ pod[l[1]] = "gone" \/ crashed # "none")

(* Relay (Replica Synchronization Engine): a request handed to the send   *)
(* goroutine of a registered replica is eventually answered to the SMF,  *)
(* through that replica or another, unless the process died.              *)
FannedOutIsAnswered ==
    \A s \in SendIds :
        senders[s] = "start" ~> (replies[s[1]] > 0 \/ crashed # "none")

====
