----------------------------- MODULE DataStore -----------------------------
(***************************************************************************)
(* The history store of store.go (memDataStore) for one UPF virtual IP.   *)
(* The store value is Nil while no association has been recorded          *)
(* (upfCtxs[upfVip] does not exist), otherwise a upfContext record:       *)
(*   assoc : the stored Association Setup Request                         *)
(*   sess  : a function SEID -> sequence of stored Session                *)
(*           Establishment/Modification Requests, in append order         *)
(* Every operation holds the store's own RWMutex for its whole body, so   *)
(* each is one atomic step of the caller.  The fatal paths (log.Fatalf or *)
(* a nil-pointer dereference) are separate predicates that the caller     *)
(* turns into a crash of the gateway process.                             *)
(***************************************************************************)
EXTENDS Sequences, TLC

CONSTANT Nil    \* a nil pointer / missing map entry

\* readAssocSetupReq: the stored association request, or nil.
readAssocSetupReq(ds) == IF ds = Nil THEN Nil ELSE ds.assoc

\* createAssocSetupReq replaces the whole upfContext: a new association
\* also empties the session history.
createAssocSetupReq(ds, req) ==
    [assoc |-> req, sess |-> [seid \in {} |-> <<>>]]

\* readAllSessEstModReqs: a copy of the whole SEID -> requests map
\* (nil, i.e. nothing to replay, when there is no context).
readAllSessEstModReqs(ds) ==
    IF ds = Nil THEN [seid \in {} |-> <<>>] ELSE ds.sess

\* appendSessEstModReq dies with log.Fatalf when no association exists;
\* its callers only run after an association has passed south-bound input,
\* so the store is never Nil here (TLC would fail evaluating it on Nil).
appendSessEstModReq(ds, seid, req) ==
    [ds EXCEPT !.sess =
        IF seid \in DOMAIN ds.sess
        THEN [ds.sess EXCEPT ![seid] = Append(@, req)]
        ELSE (seid :> <<req>>) @@ ds.sess]

\* deleteSessEstModReqs dereferences upfCtxs[upfVip] (a nil pointer when
\* there is no context) and dies with log.Fatalf on an unknown SEID.
deleteFatal(ds, seid) == ds = Nil \/ seid \notin DOMAIN ds.sess

deleteSessEstModReqs(ds, seid) ==
    [ds EXCEPT !.sess = [s \in DOMAIN ds.sess \ {seid} |-> ds.sess[s]]]

=============================================================================
