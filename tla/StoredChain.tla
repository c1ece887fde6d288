---------------------------- MODULE StoredChain ----------------------------
(***************************************************************************)
(* One tenant's rows over the life of a store: builds of different ages    *)
(* append to it, and the table may be altered behind their back.  The      *)
(* question is what AuditChain.verify (custos/audit.py) tells a process    *)
(* that loads the rows.                                                    *)
(***************************************************************************)
EXTENDS RecordBinding, SequencesExt

CONSTANTS Bodies,       \* fields of the records that may be written
          Edits,        \* field values an alteration may write
          MaxStored,    \* bound: rows ever written
          MaxDamage     \* bound: alterations of the table

\* binding_version is an INTEGER column, 0 in the rows that are older than it.
ASSUME BodiesAssumption == \A b \in Bodies \cup Edits : b.binding_version \in Int

VARIABLES rows,     \* the table as it is
          written,  \* history: the records that writers sealed
          damage    \* history: alterations so far

tableVars == <<rows, written, damage>>

TableInit == rows = << >> /\ written = {} /\ damage = 0

HeadHash == IF rows = << >> THEN GENESIS_HASH ELSE Last(rows).record_hash

Stored(r) ==
    /\ Len(rows) < MaxStored
    /\ rows' = Append(rows, r)
    /\ written' = written \cup {r}
    /\ UNCHANGED damage

\* A build that implements the record's layout seals it onto the last record its
\* process knows, whatever became of the table since.  One process at a time
\* writes here, so the unique index has nothing to refuse.
Write(b, previous_hash) ==
    /\ b.binding_version <= RECORD_BINDING_CURRENT
    /\ Stored(Sealed(b, previous_hash))

\* A newer build seals a layout of its own, which this build does not recompute.
WriteNewer(b, previous_hash) ==
    /\ b.binding_version > RECORD_BINDING_CURRENT
    /\ Stored([fields |-> b, previous_hash |-> previous_hash,
               record_hash |-> Append(previous_hash, [newer |-> b])])

\* UPDATE of some columns of a row, its hashes untouched.
Edit(i, b) ==
    /\ damage < MaxDamage
    /\ rows[i].fields # b
    /\ rows' = [rows EXCEPT ![i].fields = b]
    /\ damage' = damage + 1
    /\ UNCHANGED written

\* DELETE of a row.
Delete(i) ==
    /\ damage < MaxDamage
    /\ rows' = RemoveAt(rows, i)
    /\ damage' = damage + 1
    /\ UNCHANGED written

Grow(previous_hash) == \E b \in Bodies : Write(b, previous_hash) \/ WriteNewer(b, previous_hash)
Alter == \E i \in DOMAIN rows : Delete(i) \/ \E b \in Edits : Edit(i, b)

----------------------------------------------------------------------------

\* Every version below 1 names the layout that has no version marker.
SameLayout(v, w) == v = w \/ (v < 1 /\ w < 1)

\* r is the row q, up to the fields the layout of q does not promise to bind.
BoundFieldsKept(r, q) ==
    /\ r.previous_hash = q.previous_hash /\ r.record_hash = q.record_hash
    /\ SameLayout(r.fields.binding_version, q.fields.binding_version)
    /\ \A k \in {"event", "tenant_id", "policy_digest"} : r.fields[k] = q.fields[k]
    /\ r.fields.binding_version >= 1 => r.fields.trace_id = q.fields.trace_id
    /\ r.fields.binding_version >= 2 => r.fields.commitment = q.fields.commitment

\* verify() says OK exactly when every row is, in every bound field, a record that
\* some writer sealed onto the very record that stands before it, in a layout this
\* build knows: whatever was edited or deleted before and after the records were
\* written (AuditChain.verify).
VerifyIsExact ==
    verify(rows) = "ok" <=>
        \A i \in DOMAIN rows :
            /\ rows[i].fields.binding_version <= RECORD_BINDING_CURRENT
            /\ \E w \in written :
                BoundFieldsKept(rows[i], w) /\ w.previous_hash = WalkHash(rows, i)

\* "A consistent prefix links.  Truncation is invisible on reload" (docs/SLO.md), and
\* nothing else is: a record that was changed or removed from a table verify() finds
\* OK was followed by no record the table still holds.  What was cut off at the end,
\* also when records were written in its place, is left to the custody anchors.
OnlyEndsGoUnnoticed ==
    verify(rows) = "ok" =>
        \A w \in written, i \in DOMAIN rows :
            IsPrefix(w.record_hash, rows[i].record_hash) =>
                \E j \in DOMAIN rows : BoundFieldsKept(rows[j], w)

\* A table nobody altered is never reported as broken or tampered with, even
\* when a newer build wrote part of it.
NoFalseAccusation ==
    damage = 0 => verify(rows) \in {"ok", "newer"}
============================================================================
