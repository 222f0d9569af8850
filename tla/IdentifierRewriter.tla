------------------------- MODULE IdentifierRewriter -------------------------
(***************************************************************************)
(* The identifier rewriting of pfcphandler.go: the IE walks that extract   *)
(* F-TEIDs and the UE IP for the load balancer, re-address CP-allocated    *)
(* F-TEIDs to each replica on the way south, and re-address the node ID,   *)
(* F-SEID, F-TEIDs and user-plane IP resource information to the virtual  *)
(* IP on the way north.                                                    *)
(*                                                                         *)
(* Messages keep their IE nesting and abstract each IE to what the walks  *)
(* look at:                                                                *)
(*   F-TEID  [type |-> "FTEID", flags, teid, addr]   (flags bit 4 = CH)   *)
(*   UE IP   [type |-> "UEIP", flags]                (flags bit 2 = V4)   *)
(*   PDI     [type |-> "PDI", children]                                    *)
(*   any other IE [type |-> "Other"]                                       *)
(* A Create/Update PDR (and a Created PDR) is [children |-> <<IE ...>>].  *)
(*   EstReq    [kind, createPDR]                                           *)
(*   ModReq    [kind, seid, createPDR, updatePDR]                          *)
(*   EstResp   [kind, nodeID, fseid ([seid, addr] or Nil), createdPDR]    *)
(*   AssocResp [kind, nodeID, upIpInfo (<<[addr] ...>>)]                   *)
(* One request handler is shared by the fan-out goroutines of            *)
(* outboundHandler: each rewrites the handler's message in place (under  *)
(* h.mu) for its replica and marshals it.                                  *)
(* md and relayed.md stand for the records the handlers pass to           *)
(* updateSessionMetadata; the ledger, the session history and the         *)
(* load-balancer events themselves are modelled in PfcpGateway.           *)
(***************************************************************************)
EXTENDS Naturals, Sequences, SequencesExt, Bitwise

CONSTANTS
    Nil,        \* a nil pointer
    Vip,        \* the UPF virtual IP (upfVip)
    Dips,       \* the replicas' pod IPs (upfDip)
    Inputs      \* the messages one handler may be created for

VARIABLES
    orig,       \* the message as parsed from the datagram
    msg,        \* the handler's message, rewritten in place
    md,         \* what SouthboundInputHandler recorded in the ledger
    sent,       \* sent[d]: the packet SouthboundOutputHandler(d) marshalled
    relayed,    \* what NorthboundOutputHandler produced, or Nil
    crashed     \* log.Fatal / nil dereference

vars == <<orig, msg, md, sent, relayed, crashed>>

-----------------------------------------------------------------------------
(* F-TEID with the CH (CHOOSE) flag clear: allocated by the CP function.   *)
IsCpFTeid(ie) == ie.type = "FTEID" /\ (ie.flags & 4) = 0

\* The IEs inside the PDIs of a list of Create/Update PDRs, in walk order.
PdiIes(pdrs) ==
    FlattenSeq([i \in DOMAIN pdrs |->
        FlattenSeq([j \in DOMAIN pdrs[i].children |->
            IF pdrs[i].children[j].type = "PDI"
            THEN pdrs[i].children[j].children ELSE <<>>])])

\* getFTeidAndUeIpInSessEstReq: the CP-allocated F-TEIDs and the first UE
\* IP; log.Fatal when that UE IP has no IPv4 flag.
getFTeidAndUeIpInSessEstReq(req) ==
    LET ies == PdiIes(req.createPDR)
        ues == SelectSeq(ies, LAMBDA e : e.type = "UEIP")
    IN  [fteids |-> SelectSeq(ies, IsCpFTeid),
         ueIp   |-> IF ues = <<>> THEN Nil ELSE Head(ues),
         fatal  |-> ues # <<>> /\ (Head(ues).flags & 2) = 0]

\* getFTeidInSessModReq with the UpdatePDR loop left out.
getFTeidInSessModReqCreateOnly(req) ==
    SelectSeq(PdiIes(req.createPDR), IsCpFTeid)

\* getFTeidInSessModReq: CP-allocated F-TEIDs of Create PDRs, then of
\* Update PDRs.
getFTeidInSessModReq(req) ==
    SelectSeq(PdiIes(req.createPDR) \o PdiIes(req.updatePDR), IsCpFTeid)

\* Mutant: a rewrite that skips F-TEIDs already addressed to some replica.
RewritePdiOnce(pdi, dip) ==
    [pdi EXCEPT !.children =
        [k \in DOMAIN pdi.children |->
            IF IsCpFTeid(pdi.children[k]) /\ pdi.children[k].addr \notin Dips
            THEN [pdi.children[k] EXCEPT !.addr = dip]
            ELSE pdi.children[k]]]

\* The loops of modifyFTeidInSessEstReq / modifyFTeidInSessModReq over one
\* PDR list: ie.NewFTEID(flags, teid, dip, ...) for every CP-allocated
\* F-TEID inside a PDI, every other IE kept.
RewritePdi(pdi, dip) ==
    [pdi EXCEPT !.children =
        [k \in DOMAIN pdi.children |->
            IF IsCpFTeid(pdi.children[k])
            THEN [pdi.children[k] EXCEPT !.addr = dip]
            ELSE pdi.children[k]]]

RewritePdrs(pdrs, dip) ==
    [i \in DOMAIN pdrs |->
        [pdrs[i] EXCEPT !.children =
            [j \in DOMAIN pdrs[i].children |->
                IF pdrs[i].children[j].type = "PDI"
                THEN RewritePdi(pdrs[i].children[j], dip)
                ELSE pdrs[i].children[j]]]]

modifyFTeidInSessEstReq(dip, req) ==
    [req EXCEPT !.createPDR = RewritePdrs(@, dip)]

modifyFTeidInSessModReq(dip, req) ==
    [req EXCEPT !.createPDR = RewritePdrs(@, dip),
                !.updatePDR = RewritePdrs(@, dip)]

\* modifyFTeidInSessEstResp: every F-TEID of a Created PDR to the VIP.
modifyFTeidInSessEstResp(resp) ==
    [resp EXCEPT !.createdPDR =
        [i \in DOMAIN @ |-> [@[i] EXCEPT !.children =
            [j \in DOMAIN @ |->
                IF @[j].type = "FTEID" THEN [@[j] EXCEPT !.addr = Vip]
                ELSE @[j]]]]]

\* getFTeidInSessEstResp: the F-TEIDs of the Created PDRs, in order.
getFTeidInSessEstResp(resp) ==
    FlattenSeq([i \in DOMAIN resp.createdPDR |->
        SelectSeq(resp.createdPDR[i].children,
                  LAMBDA e : e.type = "FTEID")])

-----------------------------------------------------------------------------
Init ==
    /\ orig \in Inputs
    /\ msg = orig
    /\ md = Nil
    /\ sent = [d \in Dips |-> Nil]
    /\ relayed = Nil
    /\ crashed = FALSE

Alive == ~crashed

\* SessionEstablishmentRequestHandler.SouthboundInputHandler: record the
\* CP-allocated F-TEIDs and the UE IP (updateSessionMetadata).
EstSouthboundInput ==
    LET x == getFTeidAndUeIpInSessEstReq(msg) IN
    /\ Alive /\ msg.kind = "EstReq" /\ md = Nil /\ ~x.fatal
    /\ md' = [fseid |-> Nil, fteids |-> x.fteids, ueIp |-> x.ueIp]
    /\ UNCHANGED <<orig, msg, sent, relayed, crashed>>

\* ... log.Fatal("UE IP is not IPv4.")
UeIpNotIPv4 ==
    /\ Alive /\ msg.kind = "EstReq" /\ md = Nil
    /\ getFTeidAndUeIpInSessEstReq(msg).fatal
    /\ crashed' = TRUE
    /\ UNCHANGED <<orig, msg, md, sent, relayed>>

\* SessionModificationRequestHandler.SouthboundInputHandler: an F-SEID made
\* of the request's SEID and the VIP, and the CP-allocated F-TEIDs.
ModSouthboundInput ==
    /\ Alive /\ msg.kind = "ModReq" /\ md = Nil
    /\ md' = [fseid  |-> [seid |-> msg.seid, addr |-> Vip],
              fteids |-> getFTeidInSessModReq(msg), ueIp |-> Nil]
    /\ UNCHANGED <<orig, msg, sent, relayed, crashed>>

\* SouthboundOutputHandler(d) of one fan-out goroutine: under h.mu,
\* rewrite the shared message for d and marshal it.
EstSouthboundOutput(d) ==
    /\ Alive /\ msg.kind = "EstReq" /\ md # Nil /\ sent[d] = Nil
    /\ msg' = modifyFTeidInSessEstReq(d, msg)
    /\ sent' = [sent EXCEPT ![d] = msg']
    /\ UNCHANGED <<orig, md, relayed, crashed>>

ModSouthboundOutput(d) ==
    /\ Alive /\ msg.kind = "ModReq" /\ md # Nil /\ sent[d] = Nil
    /\ msg' = modifyFTeidInSessModReq(d, msg)
    /\ sent' = [sent EXCEPT ![d] = msg']
    /\ UNCHANGED <<orig, md, relayed, crashed>>

\* The F-TEIDs read from the response before they are re-addressed.
EstRespNorthboundOutputGetFirst ==
    LET out == modifyFTeidInSessEstResp(
                   [msg EXCEPT !.nodeID = Vip, !.fseid.addr = Vip])
    IN
    /\ Alive /\ msg.kind = "EstResp" /\ relayed = Nil /\ msg.fseid # Nil
    /\ relayed' = [packet |-> out,
                   md |-> [fseid |-> out.fseid,
                           fteids |-> getFTeidInSessEstResp(msg), ueIp |-> Nil]]
    /\ UNCHANGED <<orig, msg, md, sent, crashed>>

\* SessionEstablishmentResponseHandler.NorthboundOutputHandler: node ID
\* and F-SEID (modifyFSeid) to the VIP, Created PDR F-TEIDs to the VIP,
\* then the F-TEIDs (already rewritten) and the F-SEID for the ledger.
EstRespNorthboundOutput ==
    LET out == modifyFTeidInSessEstResp(
                   [msg EXCEPT !.nodeID = Vip, !.fseid.addr = Vip])
    IN
    /\ Alive /\ msg.kind = "EstResp" /\ relayed = Nil /\ msg.fseid # Nil
    /\ relayed' = [packet |-> out,
                   md |-> [fseid |-> out.fseid,
                           fteids |-> getFTeidInSessEstResp(out), ueIp |-> Nil]]
    /\ UNCHANGED <<orig, msg, md, sent, crashed>>

\* modifyFSeid on a response without UP F-SEID (a rejected establishment):
\* FSEID() of a nil IE.
NoUpFSeid ==
    /\ Alive /\ msg.kind = "EstResp" /\ relayed = Nil /\ msg.fseid = Nil
    /\ crashed' = TRUE
    /\ UNCHANGED <<orig, msg, md, sent, relayed>>

\* AssociationSetupResponseHandler.NorthboundOutputHandler: node ID and
\* every user-plane IP resource information to the VIP
\* (modifyUserPlaneIpResourceInformation).
AssocRespNorthboundOutput ==
    /\ Alive /\ msg.kind = "AssocResp" /\ relayed = Nil
    /\ relayed' = [packet |->
                     [msg EXCEPT !.nodeID = Vip,
                                 !.upIpInfo = [i \in DOMAIN @ |->
                                                 [@[i] EXCEPT !.addr = Vip]]],
                   md |-> Nil]
    /\ UNCHANGED <<orig, msg, md, sent, crashed>>

Next ==
    \/ EstSouthboundInput \/ UeIpNotIPv4 \/ ModSouthboundInput
    \/ \E d \in Dips : EstSouthboundOutput(d) \/ ModSouthboundOutput(d)
    \/ EstRespNorthboundOutput \/ NoUpFSeid \/ AssocRespNorthboundOutput

Spec == Init /\ [][Next]_vars

-----------------------------------------------------------------------------
(* Reference definitions the properties compare the walks with: flags are *)
(* read arithmetically, and the order of IEs is the lexicographic order of *)
(* their positions <<list, PDR, child, PDI child>> in the message.         *)
ChSet(flags) == (flags \div 4) % 2 = 1

RefCp(e) == e.type = "FTEID" /\ ~ChSet(e.flags)

PdrLists(m) == IF m.kind = "ModReq" THEN <<m.createPDR, m.updatePDR>>
               ELSE <<m.createPDR>>

\* Positions of the PDI children of every PDR list of m.
PdiPositions(m) ==
    LET L == PdrLists(m)
        pdis(f, i) == {j \in DOMAIN L[f][i].children :
                         L[f][i].children[j].type = "PDI"}
    IN  UNION { UNION { UNION {
          {<<f, i, j, k>> : k \in DOMAIN L[f][i].children[j].children}
            : j \in pdis(f, i)} : i \in DOMAIN L[f]} : f \in DOMAIN L}

PdiAt(m, p) == PdrLists(m)[p[1]][p[2]].children[p[3]].children[p[4]]

LexBefore(p, q) ==
    \E n \in DOMAIN p : /\ p[n] < q[n]
                        /\ \A h \in 1..(n - 1) : p[h] = q[h]

\* The IEs of m at the positions S, in message order.
InOrder(m, S) ==
    LET ps == SetToSortSeq(S, LexBefore) IN [n \in DOMAIN ps |-> PdiAt(m, ps[n])]

\* m is o with exactly the CP-allocated F-TEIDs of its PDIs addressed to d.
AddressedTo(m, o, d) ==
    /\ DOMAIN m = DOMAIN o
    /\ \A fld \in DOMAIN o \ {"createPDR", "updatePDR"} : m[fld] = o[fld]
    /\ PdiPositions(m) = PdiPositions(o)
    /\ \A f \in DOMAIN PdrLists(o) : \A i \in DOMAIN PdrLists(o)[f] :
         \A j \in DOMAIN PdrLists(o)[f][i].children :
           PdrLists(o)[f][i].children[j].type # "PDI" =>
             PdrLists(m)[f][i].children[j] = PdrLists(o)[f][i].children[j]
    /\ \A p \in PdiPositions(o) :
         PdiAt(m, p) = IF RefCp(PdiAt(o, p)) THEN [PdiAt(o, p) EXCEPT !.addr = d]
                       ELSE PdiAt(o, p)

-----------------------------------------------------------------------------
(* Each replica's request is the parsed request with exactly its          *)
(* CP-allocated F-TEIDs re-addressed to that replica, although every      *)
(* fan-out goroutine rewrites the one shared message in place, after the  *)
(* rewrites for other replicas (SouthboundOutputHandler).                 *)
SentAddressedToReplica ==
    \A d \in Dips : sent[d] # Nil => AddressedTo(sent[d], orig, d)

(* The ledger gets, from the request as parsed, every CP-allocated F-TEID *)
(* of the Create and then the Update PDRs in message order, the first UE  *)
(* IP of an establishment, and for a modification the F-SEID made of its  *)
(* SEID and the VIP (SouthboundInputHandler, getFTeid...InSess...Req).     *)
LedgerHasCpFTeids ==
    md # Nil =>
      LET cp == {p \in PdiPositions(orig) : RefCp(PdiAt(orig, p))}
          ue == {p \in PdiPositions(orig) : PdiAt(orig, p).type = "UEIP"
                                            /\ orig.kind = "EstReq"}
      IN  /\ md.fteids = InOrder(orig, cp)
          /\ md.ueIp = IF ue = {} THEN Nil ELSE Head(InOrder(orig, ue))
          /\ md.fseid = IF orig.kind = "ModReq"
                        THEN [seid |-> orig.seid, addr |-> Vip] ELSE Nil

(* A relayed response names only the VIP: node ID, F-SEID, every Created   *)
(* PDR F-TEID and every user-plane IP resource, with SEID, TEIDs and flags *)
(* kept; and the F-TEIDs the ledger learns are those the SMF is told       *)
(* (NorthboundOutputHandler).                                              *)
RelayedAddressedToVip ==
    relayed # Nil =>
      LET out == relayed.packet IN
      /\ out.nodeID = Vip
      /\ orig.kind = "EstResp" =>
           LET ft(pdr) == SelectSeq(pdr.children, LAMBDA e : e.type = "FTEID")
           IN  /\ out.fseid = [orig.fseid EXCEPT !.addr = Vip]
               /\ DOMAIN out.createdPDR = DOMAIN orig.createdPDR
               /\ \A i \in DOMAIN orig.createdPDR :
                    out.createdPDR[i].children =
                      [j \in DOMAIN orig.createdPDR[i].children |->
                         LET e == orig.createdPDR[i].children[j] IN
                         IF e.type = "FTEID" THEN [e EXCEPT !.addr = Vip] ELSE e]
               /\ relayed.md.fseid = out.fseid
               /\ relayed.md.fteids =
                    FoldLeft(LAMBDA acc, pdr : acc \o ft(pdr), <<>>, out.createdPDR)
      /\ orig.kind = "AssocResp" =>
           out.upIpInfo = [i \in DOMAIN orig.upIpInfo |-> [addr |-> Vip]]

=============================================================================
