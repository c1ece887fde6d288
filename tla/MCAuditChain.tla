---------------------------- MODULE MCAuditChain ----------------------------
(***************************************************************************)
(* An instance of AuditChain: two writers of one tenant and one of another *)
(* on a fresh store, on a store an older build left, and on a forked one.  *)
(***************************************************************************)
EXTENDS AuditChain, TLC

CONSTANTS w1, w2, w3, A, B

MCTenants == {A, B}
MCWriters == {w1, w2, w3}
MCScope   == (w1 :> A) @@ (w2 :> A) @@ (w3 :> B)

MCRequest(e, t, tr, d, c) ==
    [event |-> e, tenant_id |-> t, trace_id |-> tr, policy_digest |-> d,
     commitment |-> c]

\* Two decisions, a record for tenant B, one with no citation, one with a
\* commitment form that does not exist.
MCRequests ==
    {MCRequest("e1", None, "t1", "d1", "none"),
     MCRequest("e2", None, "t1", "d1", "salted-v1"),
     MCRequest("e1", B, "t1", "d1", "none"),
     MCRequest("e1", None, None, None, "none"),
     MCRequest("e1", None, "t1", "d1", "typo")}

MCBody(e, t, v) ==
    [event |-> e, tenant_id |-> t, trace_id |-> "t1", policy_digest |-> None,
     binding_version |-> v, commitment |-> "none"]

MCLegacyRow == Sealed(MCBody("e1", A, 0), GENESIS_HASH)

EmptyStore == [s \in MCTenants \cup {None} |-> << >>]

MCLegacyStores ==
    {EmptyStore,
     [EmptyStore EXCEPT ![A] = <<MCLegacyRow>>],
     [EmptyStore EXCEPT ![B] =
         <<Sealed(MCBody("e1", B, 0), GENESIS_HASH),
           Sealed(MCBody("e2", B, 0), GENESIS_HASH)>>]}
============================================================================
