\* Identifier rewriting of one handler, fanned out to two replicas.
CONSTANTS
    Nil = Nil
    Vip = Vip
    CpAddr = CpAddr
    UpfAddr = UpfAddr
    Dips = {d1, d2}
    Inputs <- MCInputs
SPECIFICATION Spec
INVARIANT SentAddressedToReplica
INVARIANT LedgerHasCpFTeids
INVARIANT RelayedAddressedToVip
\* A handler ends after its last output: a final state is no deadlock.
CHECK_DEADLOCK FALSE
