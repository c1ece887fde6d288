--------------------------- MODULE RecordBinding ---------------------------
(***************************************************************************)
(* The hash preimage of an audit record and the walk that verifies a chain *)
(* of records: custos/audit.py, preimage_fields, compute_record_hash and   *)
(* AuditChain.verify.                                                      *)
(*                                                                         *)
(* A SHA-256 digest is modelled as the value it commits to.  A record hash *)
(* covers the previous hash and the bound fields, so it is the sequence of *)
(* the bound fields of every record from genesis to this one, and two      *)
(* hashes are equal exactly when they commit to the same history.          *)
(*                                                                         *)
(* The fields that every preimage holds unconditionally (timestamp,        *)
(* client_id, action, triggered_rule, reason, content_hash) are one value, *)
(* "event".                                                                *)
(***************************************************************************)
EXTENDS Integers, Sequences

CONSTANT None   \* an optional field that is not set (Python's None)

\* The newest record layout this build writes and can recompute.
RECORD_BINDING_CURRENT == 2

GENESIS_HASH == << >>

COMMITMENT_FORMS == {"none", "unsalted-v0", "salted-v1", "purged-v1"}

\* Variant: the correlation identifier is stored but not hashed.
PreimageKeys_TraceUnbound(b) ==
    {"event"}
      \cup (IF b.policy_digest # None THEN {"policy_digest"} ELSE {})
      \cup (IF b.tenant_id # None THEN {"tenant_id"} ELSE {})
      \cup (IF b.binding_version >= 1 THEN {"binding_version"} ELSE {})
      \cup (IF b.binding_version >= 2 THEN {"commitment"} ELSE {})

\* The keys of the preimage dictionary of a record with fields b, previous_hash
\* apart.  A conditional field is a key only when it is set, and which fields
\* are conditional depends on the binding version the record itself claims.
PreimageKeys(b) ==
    {"event"}
      \cup (IF b.policy_digest # None THEN {"policy_digest"} ELSE {})
      \cup (IF b.tenant_id # None THEN {"tenant_id"} ELSE {})
      \cup (IF b.binding_version >= 1 THEN {"binding_version"} ELSE {})
      \cup (IF b.binding_version >= 1 /\ b.trace_id # None
              THEN {"trace_id"} ELSE {})
      \cup (IF b.binding_version >= 2 THEN {"commitment"} ELSE {})

preimage_fields(b) == [k \in PreimageKeys(b) |-> b[k]]

compute_record_hash(b, prev) == Append(prev, preimage_fields(b))

\* An AuditRecord: its fields, and the two hashes that link it.
Sealed(b, prev) ==
    [fields |-> b, previous_hash |-> prev,
     record_hash |-> compute_record_hash(b, prev)]

----------------------------------------------------------------------------

\* The predecessor hash the walk carries into position i.
WalkHash(rs, i) == IF i = 1 THEN GENESIS_HASH ELSE rs[i-1].record_hash

\* Variant: the walk has no word for a layout it does not implement.
Diagnosis_NoVersion(rs, i) ==
    IF rs[i].previous_hash # WalkHash(rs, i) THEN "broken"
    ELSE IF rs[i].record_hash # compute_record_hash(rs[i].fields, WalkHash(rs, i))
         THEN "tampered"
    ELSE "ok"

\* Variant: a record is checked on its own, and not its link.
Diagnosis_Unlinked(rs, i) ==
    IF rs[i].fields.binding_version > RECORD_BINDING_CURRENT THEN "newer"
    ELSE IF rs[i].record_hash # compute_record_hash(rs[i].fields, rs[i].previous_hash)
         THEN "tampered"
    ELSE "ok"

\* What verify() says of position i when every earlier position was good.
Diagnosis(rs, i) ==
    IF rs[i].previous_hash # WalkHash(rs, i) THEN "broken"
    ELSE IF rs[i].fields.binding_version > RECORD_BINDING_CURRENT THEN "newer"
    ELSE IF rs[i].record_hash # compute_record_hash(rs[i].fields, WalkHash(rs, i))
         THEN "tampered"
    ELSE "ok"

\* verify() stops at the first position that is not good.
verify(rs) ==
    LET bad == {i \in DOMAIN rs : Diagnosis(rs, i) # "ok"}
    IN  IF bad = {} THEN "ok"
        ELSE Diagnosis(rs, CHOOSE i \in bad : \A j \in bad : i <= j)
============================================================================
