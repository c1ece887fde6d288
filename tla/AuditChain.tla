----------------------------- MODULE AuditChain -----------------------------
(***************************************************************************)
(* The audit chain of custos/audit.py: one AuditChain object per writer (a *)
(* process that opened the store for a tenant), and the durable store all  *)
(* of them share (SQLiteBackend or PostgreSQLBackend).                     *)
(*                                                                         *)
(* A writer loads its tenant's rows once, when it opens the store, and     *)
(* from then on extends the copy it holds: record() links a new record to  *)
(* the last record in memory, saves it, and only then appends it in        *)
(* memory.  Nothing reloads the copy afterwards.  The store refuses a row  *)
(* whose (tenant, previous_hash) is already taken.                         *)
(*                                                                         *)
(* The lock of a chain object serialises the threads of one writer, so a   *)
(* writer has at most one record in flight; the steps of different writers *)
(* interleave, and a writer may crash between any two of its steps.        *)
(***************************************************************************)
EXTENDS RecordBinding

CONSTANTS
    Writers,        \* the chain objects, each in a process of its own
    Tenants,        \* tenant identifiers
    Scope,          \* the tenant_id a writer's chain was opened with, or None
    Requests,       \* what callers pass to record()
    RequireBound,   \* bound_evidence_required()
    LegacyStores,   \* contents the store may have before the first open
    MaxRows         \* bound: rows a tenant's chain may reach

\* The keys of the unique index: COALESCE(tenant_id, '').
Scopes == Tenants \cup {None}

\* The fields of the records the requests become, in any layout a store may
\* still hold.
Fields ==
    [event : {q.event : q \in Requests}, tenant_id : Scopes,
     trace_id : {q.trace_id : q \in Requests},
     policy_digest : {q.policy_digest : q \in Requests},
     binding_version : 0..RECORD_BINDING_CURRENT,
     commitment : COMMITMENT_FORMS]

Preimages == {preimage_fields(b) : b \in Fields}
Hashes    == Seq(Preimages)

AuditRecord ==
    [fields : Fields, previous_hash : Hashes, record_hash : Hashes]

\* Two rows of one tenant claim the same predecessor.
Forked(st) ==
    \E s \in Scopes : \E i, j \in 1..Len(st[s]) :
        i # j /\ st[s][i].previous_hash = st[s][j].previous_hash

\* r carries the links and the hash of a record that follows prev.
SealedOnto(r, prev) ==
    /\ r.previous_hash = prev
    /\ r.record_hash = compute_record_hash(r.fields, prev)

\* The rows of one tenant, in id order, form one chain from genesis.
LinkedChain(rs) == \A i \in 1..Len(rs) : SealedOnto(rs[i], WalkHash(rs, i))

ASSUME RequestsAssumption ==
    \A q \in Requests : q.tenant_id \in Scopes
ASSUME ScopeAssumption == Scope \in [Writers -> Scopes]
ASSUME BoundsAssumption == MaxRows \in Nat /\ RequireBound \in BOOLEAN
ASSUME NoneAssumption == None \notin Tenants /\ None \notin AuditRecord

\* A store written before the unique index existed is sound or holds a fork.
ASSUME LegacyAssumption ==
    /\ LegacyStores \subseteq [Scopes -> Seq(AuditRecord)]
    /\ \A st \in LegacyStores :
          Forked(st) \/ \A s \in Scopes : LinkedChain(st[s])

VARIABLES
    store,      \* the table audit_records, per COALESCE(tenant_id, '')
    mem,        \* _records of each chain object
    pc,         \* where each writer is
    pending,    \* the record a writer is about to save or has just saved
    answer,     \* what the last call of a writer told its caller
    acked       \* history: rows whose writer was told they are recorded

vars == <<store, mem, pc, pending, answer, acked>>

Answers == {"none", "ok", "invalid", "fork", "failed"}

Init ==
    /\ store \in LegacyStores
    /\ mem = [w \in Writers |-> << >>]
    /\ pc = [w \in Writers |-> "down"]
    /\ pending = [w \in Writers |-> None]
    /\ answer = [w \in Writers |-> "none"]
    /\ acked = {}

----------------------------------------------------------------------------
(* Opening the store: the backend's _init, load_all, AuditChain.__init__.   *)

HeldScopes == {s \in Scopes : store[s] # << >>}

\* load_all: the rows of the writer's tenant, or every row when unscoped.  An
\* unscoped open is refused unless one scope at most holds rows, so "every row"
\* is that scope's rows.
load_all(w) ==
    IF Scope[w] # None THEN store[Scope[w]]
    ELSE IF HeldScopes = {} THEN << >>
    ELSE store[CHOOSE s \in HeldScopes : TRUE]

Interleaved(w) ==
    Scope[w] = None /\ \E s, u \in HeldScopes : s # u

\* The index cannot be built over a fork, in any tenant's rows.
Openable(w) == ~Forked(store) /\ ~Interleaved(w)

Open(w) ==
    /\ pc[w] = "down"
    /\ Openable(w)
    /\ mem' = [mem EXCEPT ![w] = load_all(w)]
    /\ pc' = [pc EXCEPT ![w] = "open"]
    /\ UNCHANGED <<store, pending, answer, acked>>

OpenRefused(w) ==
    /\ pc[w] = "down"
    /\ ~Openable(w)
    /\ answer' = [answer EXCEPT ![w] = "fork"]
    /\ UNCHANGED <<store, mem, pc, pending, acked>>

----------------------------------------------------------------------------
(* record(): checks, then under the lock link, save, append.                *)

\* The tenant a record is attributed to.
RecordTenant(w, q) == IF q.tenant_id = None THEN Scope[w] ELSE q.tenant_id

InScope(w, q) ==
    q.tenant_id = None \/ Scope[w] = None \/ q.tenant_id = Scope[w]

Bound(q) == RequireBound => q.trace_id # None /\ q.policy_digest # None

Valid(w, q) == q.commitment \in COMMITMENT_FORMS /\ InScope(w, q) /\ Bound(q)

head_hash(rs) ==
    IF rs = << >> THEN GENESIS_HASH ELSE rs[Len(rs)].record_hash

\* Variant: the record claims a layout this build does not implement.
NewRecord_NextVersion(w, q) ==
    Sealed([event |-> q.event, tenant_id |-> RecordTenant(w, q),
            trace_id |-> q.trace_id, policy_digest |-> q.policy_digest,
            binding_version |-> RECORD_BINDING_CURRENT + 1,
            commitment |-> q.commitment],
           head_hash(mem[w]))

\* Variant: the hash is taken before the predecessor is known.
NewRecord_Unchained(w, q) ==
    [Sealed([event |-> q.event, tenant_id |-> RecordTenant(w, q),
             trace_id |-> q.trace_id, policy_digest |-> q.policy_digest,
             binding_version |-> RECORD_BINDING_CURRENT,
             commitment |-> q.commitment],
            GENESIS_HASH) EXCEPT !.previous_hash = head_hash(mem[w])]

NewRecord(w, q) ==
    Sealed([event |-> q.event, tenant_id |-> RecordTenant(w, q),
            trace_id |-> q.trace_id, policy_digest |-> q.policy_digest,
            binding_version |-> RECORD_BINDING_CURRENT,
            commitment |-> q.commitment],
           head_hash(mem[w]))

record(w, q) ==
    /\ pc[w] = "open"
    /\ Valid(w, q)
    /\ Len(store[RecordTenant(w, q)]) < MaxRows
    /\ pending' = [pending EXCEPT ![w] = NewRecord(w, q)]
    /\ pc' = [pc EXCEPT ![w] = "saving"]
    /\ answer' = [answer EXCEPT ![w] = "none"]
    /\ UNCHANGED <<store, mem, acked>>

\* ValueError: an unknown commitment form, another tenant's record, or an
\* unbound record where bound evidence is required.
RecordInvalid(w, q) ==
    /\ pc[w] = "open"
    /\ ~Valid(w, q)
    /\ answer' = [answer EXCEPT ![w] = "invalid"]
    /\ UNCHANGED <<store, mem, pc, pending, acked>>

\* Variant: the store has no unique index.
Claimed_NoIndex(r) == FALSE

\* UNIQUE (COALESCE(tenant_id, ''), previous_hash).
Claimed(r) ==
    \E i \in 1..Len(store[r.fields.tenant_id]) :
        store[r.fields.tenant_id][i].previous_hash = r.previous_hash

Insert(r) ==
    store' = [store EXCEPT ![r.fields.tenant_id] = Append(store[r.fields.tenant_id], r)]

\* The INSERT commits and the writer learns of it.
Save(w) ==
    /\ pc[w] = "saving"
    /\ ~Claimed(pending[w])
    /\ Insert(pending[w])
    /\ pc' = [pc EXCEPT ![w] = "saved"]
    /\ UNCHANGED <<mem, pending, answer, acked>>

Refused(w, why) ==
    /\ pc' = [pc EXCEPT ![w] = "open"]
    /\ pending' = [pending EXCEPT ![w] = None]
    /\ answer' = [answer EXCEPT ![w] = why]
    /\ UNCHANGED <<mem, acked>>

\* ChainForkError: the predecessor is taken.
SaveFork(w) ==
    /\ pc[w] = "saving"
    /\ Claimed(pending[w])
    /\ Refused(w, "fork")
    /\ UNCHANGED store

\* Variant: the storage error is swallowed and the writer goes on as if saved.
SaveFailed_Swallowed(w) ==
    /\ pc[w] = "saving"
    /\ pc' = [pc EXCEPT ![w] = "saved"]
    /\ UNCHANGED <<store, mem, pending, answer, acked>>

\* AuditStoreFull, or any other storage error that left no row.
SaveFailed(w) ==
    /\ pc[w] = "saving"
    /\ Refused(w, "failed")
    /\ UNCHANGED store

\* The commit took effect and its acknowledgement was lost: the driver raises.
SaveUnacknowledged(w) ==
    /\ pc[w] = "saving"
    /\ ~Claimed(pending[w])
    /\ Insert(pending[w])
    /\ Refused(w, "failed")

\* _records.append and the return to the caller.
AppendInMemory(w) ==
    /\ pc[w] = "saved"
    /\ mem' = [mem EXCEPT ![w] = Append(mem[w], pending[w])]
    /\ acked' = acked \cup {pending[w]}
    /\ pc' = [pc EXCEPT ![w] = "open"]
    /\ pending' = [pending EXCEPT ![w] = None]
    /\ answer' = [answer EXCEPT ![w] = "ok"]
    /\ UNCHANGED store

\* The process dies; the copy in memory and the record in flight go with it.
Crash(w) ==
    /\ pc[w] # "down"
    /\ mem' = [mem EXCEPT ![w] = << >>]
    /\ pending' = [pending EXCEPT ![w] = None]
    /\ pc' = [pc EXCEPT ![w] = "down"]
    /\ answer' = [answer EXCEPT ![w] = "none"]
    /\ UNCHANGED <<store, acked>>

Next ==
    \E w \in Writers :
        \/ Open(w)
        \/ OpenRefused(w)
        \/ \E q \in Requests : record(w, q) \/ RecordInvalid(w, q)
        \/ Save(w)
        \/ SaveFork(w)
        \/ SaveFailed(w)
        \/ SaveUnacknowledged(w)
        \/ AppendInMemory(w)
        \/ Crash(w)

Spec == Init /\ [][Next]_vars

----------------------------------------------------------------------------
(* Properties.  The ones about chains hold where every writer is scoped, as *)
(* TenantManager.register opens them (custos/tenant.py).                    *)

AllScoped == \A w \in Writers : Scope[w] \in Tenants

Up(w) == pc[w] # "down"

\* Every variable holds values of the kind the code keeps in it.
TypeOK ==
    /\ store \in [Scopes -> Seq(AuditRecord)]
    /\ mem \in [Writers -> Seq(AuditRecord)]
    /\ pc \in [Writers -> {"down", "open", "saving", "saved"}]
    /\ pending \in [Writers -> AuditRecord \cup {None}]
    /\ answer \in [Writers -> Answers]
    /\ acked \subseteq AuditRecord

\* The copy a writer works from is a prefix of its tenant's rows, whatever the
\* other writers appended, failed to append or half-appended meanwhile.  Two
\* writers of one tenant therefore never hold histories that contradict each
\* other (custos/audit.py: save before append, and the unique index).
MemoryIsStorePrefix ==
    \A w \in Writers : Up(w) =>
        /\ Len(mem[w]) <= Len(store[Scope[w]])
        /\ \A i \in 1..Len(mem[w]) : mem[w][i] = store[Scope[w]][i]

\* As long as some writer could open the store, each tenant's rows are one
\* chain from genesis: no fork, no gap, no wrong hash.
StoreIsLinked ==
    ~Forked(store) => \A s \in Scopes : LinkedChain(store[s])

\* A writer never works on a store that holds a fork: a fork left by an older
\* build is refused at open, and none appears while writers run.
NoForkWhileUp == (\E w \in Writers : Up(w)) => ~Forked(store)

\* A record whose caller was told it is recorded is in the store for good.
AckedIsStored ==
    \A r \in acked : \E i \in 1..Len(store[r.fields.tenant_id]) :
        store[r.fields.tenant_id][i] = r

\* verify() of a running writer says OK at every moment, including between a
\* failed save and the restart that repairs the writer.
RunningChainsVerify == \A w \in Writers : Up(w) => verify(mem[w]) = "ok"

\* A save is refused as a fork only to a writer whose copy is behind the store,
\* and a writer whose copy is behind is never able to save.
ForkIffBehind ==
    [][\A w \in Writers : pc[w] = "saving" =>
          LET behind == Len(mem[w]) < Len(store[Scope[w]])
          IN  /\ pc'[w] = "open" /\ answer'[w] = "fork" => behind
              /\ pc'[w] = "saved" => ~behind]_vars

\* The store implements one append-only history per scope; the history of a
\* scope is what the hash of its last row commits to.
L == INSTANCE Ledger WITH Keys <- Scopes, Items <- Preimages,
                          ledger <- [s \in Scopes |-> head_hash(store[s])]
ImplementsLedger == L!Spec
============================================================================
