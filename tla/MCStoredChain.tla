--------------------------- MODULE MCStoredChain ---------------------------
(* Records of the legacy layouts 0 and 1, of the current one and of a newer *)
(* one; alterations that change one field of one of them.                   *)
EXTENDS Snapshot

StoredBody(e, tr, d, v, c) ==
    [event |-> e, tenant_id |-> "A", trace_id |-> tr, policy_digest |-> d,
     binding_version |-> v, commitment |-> c]

MCBodies ==
    {StoredBody("e1", "t1", "d1", v, "none") : v \in {0, 1, 3}} \cup {StoredBody("e1", "t1", None, 2, "none")}

MCEdits ==
    {StoredBody("e1", "t2", "d1", v, "none") : v \in 0..1}
      \cup {StoredBody("e1", "t1", "d1", v, "none") : v \in {0 - 1, 2}}
      \cup {StoredBody("e1", "t1", None, 2, "purged-v1"), StoredBody("e1", None, None, 2, "none")}
============================================================================
