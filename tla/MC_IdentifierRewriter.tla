------------------------ MODULE MC_IdentifierRewriter ------------------------
(* The messages one handler is checked on: every Establishment and       *)
(* Modification Request, Establishment and Association Setup Response     *)
(* whose IE lists stay within the bounds below, over a small alphabet of   *)
(* IEs that covers each branch of the walks: F-TEIDs with and without CH, *)
(* UE IPs with and without the IPv4 flag, PDI and non-PDI children.        *)
EXTENDS IdentifierRewriter

CONSTANTS CpAddr, UpfAddr   \* the SMF's and a UPF pod's own addresses

MaxPdis == 2      \* IEs in one PDI
MaxPdrs == 2      \* Create PDRs of an Establishment Request
MaxModPdrs == 1   \* Create and Update PDRs of a Modification Request

FTeids(a) == [type : {"FTEID"}, flags : {1, 5}, teid : {1, 2}, addr : {a}]
Other == [type |-> "Other"]
PdiIeSet == FTeids(CpAddr) \cup [type : {"UEIP"}, flags : {1, 2}] \cup {Other}
Pdis == {[type |-> "PDI", children |-> c] : c \in BoundedSeq(PdiIeSet, MaxPdis)}
Pdrs == {[children |-> c] : c \in {<<p>> : p \in Pdis} \cup {<<Other, p>> : p \in Pdis}}
NonEmpty(S, n) == BoundedSeq(S, n) \ {<<>>}

MCInputs ==
    [kind : {"EstReq"}, createPDR : NonEmpty(Pdrs, MaxPdrs)]
    \cup [kind : {"ModReq"}, seid : {7}, createPDR : BoundedSeq(Pdrs, MaxModPdrs),
          updatePDR : BoundedSeq(Pdrs, MaxModPdrs)]
    \cup [kind : {"EstResp"}, nodeID : {UpfAddr},
          fseid : {Nil, [seid |-> 9, addr |-> UpfAddr]},
          createdPDR : NonEmpty({[children |-> c] :
                          c \in BoundedSeq(FTeids(UpfAddr) \cup {Other}, 2)}, 2)]
    \cup [kind : {"AssocResp"}, nodeID : {UpfAddr},
          upIpInfo : BoundedSeq({[addr |-> UpfAddr]}, 2)]
=============================================================================
