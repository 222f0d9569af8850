--------------------------- MODULE MC_PfcpGateway ---------------------------
(* Model-checking instance of PfcpGateway: two replicas, one session.      *)
EXTENDS PfcpGateway, TLC

CONSTANTS r1, r2, s1

MCReplicas == {r1, r2}
MCOneReplica == {r1}
MCSessions == {s1}

\* State constraint of the retransmission runs: of all the requests the SMF
\* sends, at most MaxRetransmitted are retransmitted (each MaxRetx times).
MaxRetransmitted == 1
RetransmissionBudget ==
    Cardinality({q \in Seqs : sends[q] > 1}) <= MaxRetransmitted
=============================================================================
