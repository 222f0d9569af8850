----------------------------- MODULE ReplyOnce -----------------------------
(***************************************************************************)
(* What the relay of the PFCP gateway promises the SMF (spec 4.4,          *)
(* Deduplication): a request sequence number becomes pending when a        *)
(* request with it is admitted, and a response is relayed to the SMF only *)
(* for a pending number, which that response resolves.  However many       *)
(* replicas answer, each admission yields at most one response.            *)
(***************************************************************************)
EXTENDS Naturals

CONSTANT Seqs          \* the request sequence numbers

VARIABLES
    pending,           \* numbers admitted and not yet answered
    replies            \* responses relayed to the SMF, per number

Init ==
    /\ pending = {}
    /\ replies = [q \in Seqs |-> 0]

\* A request is admitted; admitting a pending number again changes nothing.
Admit(q) ==
    /\ pending' = pending \cup {q}
    /\ UNCHANGED replies

\* One response to a pending number reaches the SMF and resolves it.
Answer(q) ==
    /\ q \in pending
    /\ pending' = pending \ {q}
    /\ replies' = [replies EXCEPT ![q] = @ + 1]

Next == \E q \in Seqs : Admit(q) \/ Answer(q)

Spec == Init /\ [][Next]_<<pending, replies>>

=============================================================================
