-------------------------- MODULE AuditChainProofs --------------------------
(***************************************************************************)
(* Proofs about AuditChain, for every set of writers, tenants and requests *)
(* and every bound on the rows.                                            *)
(***************************************************************************)
EXTENDS AuditChain, WellFoundedInduction, TLAPS

----------------------------------------------------------------------------
(* Typing.                                                                  *)

LEMMA AppendFacts ==
  ASSUME NEW S, NEW rs \in Seq(S), NEW r \in S
  PROVE  /\ Append(rs, r) \in Seq(S)
         /\ Len(rs) \in Nat
         /\ Len(Append(rs, r)) = Len(rs) + 1
         /\ Append(rs, r)[Len(rs) + 1] = r
         /\ \A i \in 1..Len(rs) : Append(rs, r)[i] = rs[i]
  OBVIOUS

\* The last hash of a chain of records, or genesis, is a hash.
LEMMA HeadHashType ==
  ASSUME NEW rs \in Seq(AuditRecord)
  PROVE  head_hash(rs) \in Hashes
  <1>1. CASE rs = << >>
    BY <1>1 DEF head_hash, Hashes, GENESIS_HASH
  <1>2. CASE rs # << >>
    <2>1. Len(rs) \in 1..Len(rs)
      BY <1>2
    <2>2. rs[Len(rs)] \in AuditRecord
      BY <2>1
    <2>. QED
      BY <1>2, <2>2 DEF head_hash, AuditRecord
  <1>. QED
    BY <1>1, <1>2

LEMMA SealedType ==
  ASSUME NEW b \in Fields, NEW prev \in Hashes
  PROVE  Sealed(b, prev) \in AuditRecord
  <1>1. preimage_fields(b) \in Preimages
    BY DEF Preimages
  <1>2. compute_record_hash(b, prev) \in Hashes
    BY <1>1 DEF compute_record_hash, Hashes
  <1>. QED
    BY <1>2 DEF Sealed, AuditRecord

LEMMA NewRecordType ==
  ASSUME TypeOK, NEW w \in Writers, NEW q \in Requests,
         q.commitment \in COMMITMENT_FORMS
  PROVE  /\ NewRecord(w, q) \in AuditRecord
         /\ NewRecord(w, q).fields.tenant_id = RecordTenant(w, q)
         /\ SealedOnto(NewRecord(w, q), head_hash(mem[w]))
  <1> DEFINE b == [event |-> q.event, tenant_id |-> RecordTenant(w, q),
                   trace_id |-> q.trace_id, policy_digest |-> q.policy_digest,
                   binding_version |-> RECORD_BINDING_CURRENT,
                   commitment |-> q.commitment]
  <1>1. RecordTenant(w, q) \in Scopes
    BY RequestsAssumption, ScopeAssumption DEF RecordTenant
  <1>2. b \in Fields
    BY <1>1 DEF Fields, RECORD_BINDING_CURRENT
  <1>3. head_hash(mem[w]) \in Hashes
    BY HeadHashType DEF TypeOK
  <1>4. NewRecord(w, q) = Sealed(b, head_hash(mem[w]))
    BY DEF NewRecord
  <1>5. Sealed(b, head_hash(mem[w])) \in AuditRecord
    BY <1>2, <1>3, SealedType
  <1>6. /\ Sealed(b, head_hash(mem[w])).fields = b
        /\ SealedOnto(Sealed(b, head_hash(mem[w])), head_hash(mem[w]))
    BY DEF Sealed, SealedOnto
  <1>. QED
    BY <1>4, <1>5, <1>6

\* Inserting a record keeps the table a table of records.
LEMMA InsertType ==
  ASSUME TypeOK, NEW r \in AuditRecord, Insert(r)
  PROVE  store' \in [Scopes -> Seq(AuditRecord)]
  <1>1. r.fields.tenant_id \in Scopes
    BY DEF AuditRecord, Fields
  <1>. QED
    BY <1>1 DEF TypeOK, Insert

\* A writer that is saving or has saved holds a record, so what it inserts is
\* one.  TypeOK alone does not say so.
InFlight ==
    \A w \in Writers : pc[w] \in {"saving", "saved"} => pending[w] \in AuditRecord

LEMMA LoadAllType ==
  ASSUME TypeOK, NEW w \in Writers
  PROVE  load_all(w) \in Seq(AuditRecord)
  <1>1. Scope[w] \in Scopes
    BY ScopeAssumption
  <1>2. ASSUME HeldScopes # {}
        PROVE  (CHOOSE s \in HeldScopes : TRUE) \in Scopes
    BY <1>2 DEF HeldScopes
  <1>. QED
    BY <1>1, <1>2 DEF load_all, TypeOK

LEMMA TypeStep ==
  TypeOK /\ InFlight /\ [Next]_vars => TypeOK' /\ InFlight'
  <1> SUFFICES ASSUME TypeOK, InFlight, [Next]_vars
               PROVE  TypeOK' /\ InFlight'
    OBVIOUS
  <1>1. CASE UNCHANGED vars
    BY <1>1 DEF vars, TypeOK, InFlight
  <1>2. ASSUME NEW w \in Writers, Open(w)
        PROVE  TypeOK' /\ InFlight'
    BY <1>2, LoadAllType DEF Open, TypeOK, InFlight
  <1>3. ASSUME NEW w \in Writers, OpenRefused(w)
        PROVE  TypeOK' /\ InFlight'
    BY <1>3 DEF OpenRefused, TypeOK, InFlight, Answers
  <1>4. ASSUME NEW w \in Writers, NEW q \in Requests, record(w, q)
        PROVE  TypeOK' /\ InFlight'
    <2>1. NewRecord(w, q) \in AuditRecord
      BY <1>4, NewRecordType DEF record, Valid
    <2>. QED
      BY <1>4, <2>1 DEF record, TypeOK, InFlight, Answers
  <1>5. ASSUME NEW w \in Writers, NEW q \in Requests, RecordInvalid(w, q)
        PROVE  TypeOK' /\ InFlight'
    BY <1>5 DEF RecordInvalid, TypeOK, InFlight, Answers
  <1>6. ASSUME NEW w \in Writers, Save(w)
        PROVE  TypeOK' /\ InFlight'
    <2>1. store' \in [Scopes -> Seq(AuditRecord)]
      BY <1>6, InsertType DEF Save, InFlight
    <2>. QED
      BY <1>6, <2>1 DEF Save, TypeOK, InFlight
  <1>7. ASSUME NEW w \in Writers, SaveFork(w)
        PROVE  TypeOK' /\ InFlight'
    BY <1>7 DEF SaveFork, Refused, TypeOK, InFlight, Answers
  <1>8. ASSUME NEW w \in Writers, SaveFailed(w)
        PROVE  TypeOK' /\ InFlight'
    BY <1>8 DEF SaveFailed, Refused, TypeOK, InFlight, Answers
  <1>9. ASSUME NEW w \in Writers, SaveUnacknowledged(w)
        PROVE  TypeOK' /\ InFlight'
    <2>1. store' \in [Scopes -> Seq(AuditRecord)]
      BY <1>9, InsertType DEF SaveUnacknowledged, InFlight
    <2>. QED
      BY <1>9, <2>1 DEF SaveUnacknowledged, Refused, TypeOK, InFlight, Answers
  <1>10. ASSUME NEW w \in Writers, AppendInMemory(w)
         PROVE  TypeOK' /\ InFlight'
    <2>1. pending[w] \in AuditRecord
      BY <1>10 DEF AppendInMemory, InFlight
    <2>. QED
      BY <1>10, <2>1 DEF AppendInMemory, TypeOK, InFlight, Answers
  <1>11. ASSUME NEW w \in Writers, Crash(w)
         PROVE  TypeOK' /\ InFlight'
    BY <1>11 DEF Crash, TypeOK, InFlight, Answers
  <1>. QED
    BY <1>1, <1>2, <1>3, <1>4, <1>5, <1>6, <1>7, <1>8, <1>9, <1>10, <1>11
       DEF Next

LEMMA TypeInit == Init => TypeOK /\ InFlight
  BY LegacyAssumption DEF Init, TypeOK, InFlight, Answers

\* Every variable keeps its type, for any number of writers and tenants, scoped
\* or not.
THEOREM TypeCorrect == Spec => []TypeOK
  <1>1. Spec => [](TypeOK /\ InFlight)
    BY TypeInit, TypeStep, PTL DEF Spec
  <1>. QED
    BY <1>1, PTL

----------------------------------------------------------------------------
(* The chain.                                                               *)

\* A record in flight was linked to the last record its writer holds; once
\* saved it is the row right after the ones the writer holds.
InFlightLinked ==
    \A w \in Writers :
      /\ pc[w] = "saving" =>
           /\ SealedOnto(pending[w], head_hash(mem[w]))
           /\ pending[w].fields.tenant_id = Scope[w]
      /\ pc[w] = "saved" =>
           /\ pending[w].fields.tenant_id = Scope[w]
           /\ Len(mem[w]) < Len(store[Scope[w]])
           /\ pending[w] = store[Scope[w]][Len(mem[w]) + 1]

Chained ==
    /\ InFlightLinked
    /\ StoreIsLinked
    /\ NoForkWhileUp
    /\ MemoryIsStorePrefix

\* The inductive invariant: the three chain invariants, and what they need to
\* know of a record in flight.
IInv == TypeOK /\ InFlight /\ Chained

\* The rows of a linked chain up to n end in the hash row n + 1 names.
LEMMA NextPredecessor ==
  ASSUME NEW rs \in Seq(AuditRecord), NEW ms \in Seq(AuditRecord),
         LinkedChain(rs), Len(ms) < Len(rs),
         \A i \in 1..Len(ms) : ms[i] = rs[i]
  PROVE  rs[Len(ms) + 1].previous_hash = head_hash(ms)
  <1> DEFINE n == Len(ms)
  <1>1. n \in Nat /\ n + 1 \in 1..Len(rs)
    OBVIOUS
  <1>2. rs[n + 1].previous_hash = WalkHash(rs, n + 1)
    BY <1>1 DEF LinkedChain, SealedOnto
  <1>3. CASE n = 0
    <2>1. ms = << >>
      BY <1>3
    <2>. QED
      BY <1>2, <1>3, <2>1 DEF WalkHash, head_hash
  <1>4. CASE n # 0
    <2>1. n \in 1..n /\ ms # << >> /\ (n + 1) - 1 = n /\ n + 1 # 1
      BY <1>1, <1>4
    <2>2. ms[n] = rs[n]
      BY <2>1
    <2>. QED
      BY <1>2, <2>1, <2>2 DEF WalkHash, head_hash
  <1>. QED
    BY <1>3, <1>4

\* A writer whose predecessor is not taken holds every row of its tenant: this
\* is what the unique index turns a stale copy into a refusal with.
LEMMA UnclaimedIsCurrent ==
  ASSUME AllScoped, IInv, NEW w \in Writers, pc[w] = "saving",
         ~Claimed(pending[w])
  PROVE  /\ Len(mem[w]) = Len(store[Scope[w]])
         /\ pending[w].previous_hash = head_hash(store[Scope[w]])
  <1>1. Scope[w] \in Scopes
    BY ScopeAssumption
  <1>2. /\ store[Scope[w]] \in Seq(AuditRecord)
        /\ mem[w] \in Seq(AuditRecord)
    BY <1>1 DEF IInv, TypeOK
  <1>3. LinkedChain(store[Scope[w]])
    BY <1>1 DEF IInv, Chained, NoForkWhileUp, StoreIsLinked, Up
  <1>4. /\ Len(mem[w]) <= Len(store[Scope[w]])
        /\ \A i \in 1..Len(mem[w]) : mem[w][i] = store[Scope[w]][i]
    BY DEF IInv, Chained, MemoryIsStorePrefix, Up
  <1>5. /\ pending[w].previous_hash = head_hash(mem[w])
        /\ pending[w].fields.tenant_id = Scope[w]
    BY DEF IInv, Chained, InFlightLinked, SealedOnto
  <1>6. Len(mem[w]) = Len(store[Scope[w]])
    <2> SUFFICES ASSUME Len(mem[w]) < Len(store[Scope[w]])
                 PROVE  FALSE
      BY <1>2, <1>4
    <2>1. store[Scope[w]][Len(mem[w]) + 1].previous_hash = head_hash(mem[w])
      BY <1>2, <1>3, <1>4, NextPredecessor
    <2>2. Len(mem[w]) + 1 \in 1..Len(store[Scope[w]])
      BY <1>2
    <2>. QED
      BY <1>5, <2>1, <2>2 DEF Claimed
  <1>7. mem[w] = store[Scope[w]]
    BY <1>2, <1>4, <1>6
  <1>. QED
    BY <1>5, <1>6, <1>7

\* Appending a record sealed onto the last row keeps a chain linked.
LEMMA AppendLinked ==
  ASSUME NEW rs \in Seq(AuditRecord), LinkedChain(rs), NEW r \in AuditRecord,
         SealedOnto(r, head_hash(rs))
  PROVE  LinkedChain(Append(rs, r))
  <1> DEFINE as == Append(rs, r)
  <1> DEFINE n == Len(rs) + 1
  <1>1. /\ as \in Seq(AuditRecord) /\ Len(as) = n /\ n \in Nat /\ as[n] = r
        /\ \A i \in 1..Len(rs) : as[i] = rs[i]
    OBVIOUS
  <1>2. \A i \in 1..Len(rs) : WalkHash(as, i) = WalkHash(rs, i)
    BY <1>1 DEF WalkHash
  <1>3. WalkHash(as, n) = head_hash(rs)
    <2>1. CASE rs = << >>
      BY <2>1, <1>1 DEF WalkHash, head_hash
    <2>2. CASE rs # << >>
      <3>1. n # 1 /\ n - 1 = Len(rs) /\ Len(rs) \in 1..Len(rs)
        BY <2>2
      <3>. QED
        BY <3>1, <2>2, <1>1 DEF WalkHash, head_hash
    <2>. QED
      BY <2>1, <2>2
  <1>4. SealedOnto(r, WalkHash(as, n))
    BY <1>3
  <1>5. \A i \in 1..Len(as) : i \in 1..Len(rs) \/ i = n
    BY <1>1
  <1>. QED
    BY <1>1, <1>2, <1>4, <1>5 DEF LinkedChain

LEMMA InsertUnforked ==
  ASSUME TypeOK, NEW r \in AuditRecord, ~Forked(store), ~Claimed(r), Insert(r)
  PROVE  ~Forked(store')
  <1> DEFINE k == r.fields.tenant_id
  <1>1. k \in Scopes
    BY DEF AuditRecord, Fields
  <1>2. /\ store[k] \in Seq(AuditRecord)
        /\ \A s \in Scopes : s # k => store'[s] = store[s]
        /\ store'[k] = Append(store[k], r)
    BY <1>1 DEF TypeOK, Insert
  <1> SUFFICES ASSUME NEW s \in Scopes, NEW i \in 1..Len(store'[s]),
                      NEW j \in 1..Len(store'[s]), i # j,
                      store'[s][i].previous_hash = store'[s][j].previous_hash
               PROVE  FALSE
    BY DEF Forked
  <1>3. CASE s # k
    BY <1>2, <1>3 DEF Forked
  <1>4. CASE s = k
    <2>1. /\ Len(store'[k]) = Len(store[k]) + 1
          /\ store'[k][Len(store[k]) + 1] = r
          /\ \A m \in 1..Len(store[k]) : store'[k][m] = store[k][m]
      BY <1>2
    <2>a. Len(store[k]) \in Nat
      BY <1>2
    <2>b. i \in 1..(Len(store[k]) + 1) /\ j \in 1..(Len(store[k]) + 1) /\ i # j
      BY <1>4, <2>1
    <2>2. CASE i \in 1..Len(store[k]) /\ j \in 1..Len(store[k])
      <3>1. store[k][i].previous_hash = store[k][j].previous_hash
        BY <1>4, <2>1, <2>2
      <3>. QED
        BY <1>1, <2>2, <3>1 DEF Forked
    <2>3. CASE i = Len(store[k]) + 1
      <3>1. j \in 1..Len(store[k])
        BY <2>a, <2>b, <2>3
      <3>. QED
        BY <1>4, <2>1, <2>3, <3>1 DEF Claimed
    <2>4. CASE j = Len(store[k]) + 1
      <3>1. i \in 1..Len(store[k])
        BY <2>a, <2>b, <2>4
      <3>. QED
        BY <1>4, <2>1, <2>4, <3>1 DEF Claimed
    <2>5. \/ i \in 1..Len(store[k]) /\ j \in 1..Len(store[k])
          \/ i = Len(store[k]) + 1
          \/ j = Len(store[k]) + 1
      <3>1. \A n \in Nat : \A x \in 1..(n + 1) : x \in 1..n \/ x = n + 1
        OBVIOUS
      <3>. QED
        BY <2>a, <2>b, <3>1
    <2>. QED
      BY <2>2, <2>3, <2>4, <2>5
  <1>. QED
    BY <1>3, <1>4

\* What every insert of a record in flight does to the store.
LEMMA InsertStep ==
  ASSUME AllScoped, IInv, NEW w \in Writers, pc[w] = "saving",
         ~Claimed(pending[w]), Insert(pending[w])
  PROVE  /\ \A s \in Scopes : LinkedChain(store'[s])
         /\ ~Forked(store')
         /\ Len(mem[w]) = Len(store[Scope[w]])
         /\ store'[Scope[w]] = Append(store[Scope[w]], pending[w])
         /\ \A s \in Scopes : s # Scope[w] => store'[s] = store[s]
  <1>1. Scope[w] \in Scopes
    BY ScopeAssumption
  <1>2. /\ pending[w] \in AuditRecord
        /\ pending[w].fields.tenant_id = Scope[w]
        /\ SealedOnto(pending[w], head_hash(mem[w]))
    BY DEF IInv, Chained, InFlight, InFlightLinked
  <1>3. ~Forked(store) /\ \A s \in Scopes : LinkedChain(store[s])
    BY DEF IInv, Chained, NoForkWhileUp, StoreIsLinked, Up
  <1>4. /\ Len(mem[w]) = Len(store[Scope[w]])
        /\ pending[w].previous_hash = head_hash(store[Scope[w]])
    BY UnclaimedIsCurrent
  <1>5. SealedOnto(pending[w], head_hash(store[Scope[w]]))
    BY <1>2, <1>4 DEF SealedOnto
  <1>6. /\ store'[Scope[w]] = Append(store[Scope[w]], pending[w])
        /\ \A s \in Scopes : s # Scope[w] => store'[s] = store[s]
    BY <1>1, <1>2 DEF IInv, TypeOK, Insert
  <1>7. store[Scope[w]] \in Seq(AuditRecord)
    BY <1>1 DEF IInv, TypeOK
  <1>8. LinkedChain(store'[Scope[w]])
    BY <1>1, <1>2, <1>3, <1>5, <1>6, <1>7, AppendLinked
  <1>9. ~Forked(store')
    BY <1>2, <1>3, InsertUnforked DEF IInv
  <1>. QED
    BY <1>3, <1>4, <1>6, <1>8, <1>9

\* What the writers hold stays a prefix of the store when the store grows.
LEMMA GrowthKeepsPrefix ==
  ASSUME AllScoped, IInv, NEW w \in Writers, NEW r \in AuditRecord,
         store'[Scope[w]] = Append(store[Scope[w]], r),
         \A s \in Scopes : s # Scope[w] => store'[s] = store[s],
         NEW u \in Writers, pc[u] # "down"
  PROVE  /\ Len(store[Scope[u]]) <= Len(store'[Scope[u]])
         /\ \A i \in 1..Len(store[Scope[u]]) :
               store'[Scope[u]][i] = store[Scope[u]][i]
         /\ Len(mem[u]) <= Len(store'[Scope[u]])
         /\ \A i \in 1..Len(mem[u]) : mem[u][i] = store'[Scope[u]][i]
  <1>1. Scope[u] \in Scopes /\ Scope[w] \in Scopes
    BY ScopeAssumption
  <1>2. /\ store[Scope[u]] \in Seq(AuditRecord)
        /\ store[Scope[w]] \in Seq(AuditRecord)
        /\ mem[u] \in Seq(AuditRecord)
    BY <1>1 DEF IInv, TypeOK
  <1>3. /\ Len(store'[Scope[u]]) \in Nat
        /\ Len(store[Scope[u]]) <= Len(store'[Scope[u]])
        /\ \A i \in 1..Len(store[Scope[u]]) :
              store'[Scope[u]][i] = store[Scope[u]][i]
    <2>1. CASE Scope[u] = Scope[w]
      <3>1. store'[Scope[u]] = Append(store[Scope[u]], r)
        BY <2>1
      <3>2. /\ Len(store[Scope[u]]) \in Nat
            /\ Len(store'[Scope[u]]) = Len(store[Scope[u]]) + 1
            /\ \A i \in 1..Len(store[Scope[u]]) :
                  store'[Scope[u]][i] = store[Scope[u]][i]
        BY <1>2, <3>1, AppendFacts
      <3>. QED
        BY <3>2
    <2>2. CASE Scope[u] # Scope[w]
      BY <1>1, <1>2, <2>2
    <2>. QED
      BY <2>1, <2>2
  <1>4. /\ Len(mem[u]) <= Len(store[Scope[u]])
        /\ \A i \in 1..Len(mem[u]) : mem[u][i] = store[Scope[u]][i]
    BY DEF IInv, Chained, MemoryIsStorePrefix, Up
  <1>5. \A i \in 1..Len(mem[u]) : i \in 1..Len(store[Scope[u]])
    BY <1>2, <1>4
  <1>6. \A i \in 1..Len(mem[u]) : mem[u][i] = store'[Scope[u]][i]
    BY <1>3, <1>4, <1>5
  <1>7. Len(mem[u]) <= Len(store'[Scope[u]])
    BY <1>2, <1>3, <1>4
  <1>. QED
    BY <1>3, <1>6, <1>7

\* A saved record stays the row after the ones its writer holds.
LEMMA GrowthKeepsSaved ==
  ASSUME AllScoped, IInv, TypeOK', NEW w \in Writers, NEW r \in AuditRecord,
         store'[Scope[w]] = Append(store[Scope[w]], r),
         \A s \in Scopes : s # Scope[w] => store'[s] = store[s],
         NEW u \in Writers, pc[u] = "saved"
  PROVE  /\ Len(mem[u]) < Len(store'[Scope[u]])
         /\ pending[u] = store'[Scope[u]][Len(mem[u]) + 1]
  <1>1. /\ store[Scope[u]] \in Seq(AuditRecord)
        /\ mem[u] \in Seq(AuditRecord)
        /\ Len(store'[Scope[u]]) \in Nat
    BY ScopeAssumption DEF IInv, TypeOK
  <1>2. /\ Len(mem[u]) < Len(store[Scope[u]])
        /\ pending[u] = store[Scope[u]][Len(mem[u]) + 1]
    BY DEF IInv, Chained, InFlightLinked
  <1>3. Len(mem[u]) + 1 \in 1..Len(store[Scope[u]])
    BY <1>1, <1>2
  <1>4. /\ Len(store[Scope[u]]) <= Len(store'[Scope[u]])
        /\ \A i \in 1..Len(store[Scope[u]]) :
              store'[Scope[u]][i] = store[Scope[u]][i]
    BY GrowthKeepsPrefix
  <1>5. store'[Scope[u]][Len(mem[u]) + 1] = store[Scope[u]][Len(mem[u]) + 1]
    BY <1>3, <1>4
  <1>6. Len(mem[u]) \in Nat /\ Len(store[Scope[u]]) \in Nat
    BY <1>1
  <1>7. Len(mem[u]) < Len(store'[Scope[u]])
    BY <1>1, <1>2, <1>4, <1>6
  <1>. QED
    BY <1>2, <1>5, <1>7

\* Every step keeps the inductive invariant.
LEMMA ChainStep ==
  ASSUME AllScoped, IInv, [Next]_vars
  PROVE  IInv'
  <1>0. TypeOK' /\ InFlight'
    BY TypeStep DEF IInv
  <1> SUFFICES Chained'
    BY <1>0 DEF IInv
  <1> USE DEF Up, Chained
  <1>1. CASE UNCHANGED vars
    BY <1>1 DEF vars, IInv, InFlightLinked, StoreIsLinked, NoForkWhileUp,
                MemoryIsStorePrefix
  <1>2. ASSUME NEW w \in Writers, Open(w)
        PROVE  Chained'
    <2>1. Scope[w] # None /\ Scope[w] \in Scopes
      BY ScopeAssumption, NoneAssumption DEF AllScoped
    <2>2. /\ ~Forked(store) /\ store' = store
          /\ mem' = [mem EXCEPT ![w] = store[Scope[w]]]
          /\ pc' = [pc EXCEPT ![w] = "open"] /\ pending' = pending
      BY <1>2, <2>1 DEF Open, Openable, load_all
    <2>3. store[Scope[w]] \in Seq(AuditRecord)
      BY <2>1 DEF IInv, TypeOK
    <2>4. MemoryIsStorePrefix'
      BY <2>2, <2>3 DEF IInv, TypeOK, MemoryIsStorePrefix
    <2>5. InFlightLinked'
      BY <2>2 DEF IInv, TypeOK, InFlightLinked
    <2>. QED
      BY <2>2, <2>4, <2>5 DEF IInv, StoreIsLinked, NoForkWhileUp
  <1>3. ASSUME NEW w \in Writers, OpenRefused(w)
        PROVE  Chained'
    BY <1>3 DEF OpenRefused, IInv, InFlightLinked, StoreIsLinked,
                NoForkWhileUp, MemoryIsStorePrefix
  <1>4. ASSUME NEW w \in Writers, NEW q \in Requests, record(w, q)
        PROVE  Chained'
    <2>1. /\ SealedOnto(NewRecord(w, q), head_hash(mem[w]))
          /\ NewRecord(w, q).fields.tenant_id = RecordTenant(w, q)
      BY <1>4, NewRecordType DEF IInv, record, Valid
    <2>2. RecordTenant(w, q) = Scope[w]
      BY <1>4, NoneAssumption DEF record, Valid, InScope, RecordTenant, AllScoped
    <2>3. InFlightLinked'
      BY <1>4, <2>1, <2>2 DEF record, IInv, TypeOK, InFlightLinked
    <2>. QED
      BY <1>4, <2>3 DEF record, IInv, TypeOK, StoreIsLinked, NoForkWhileUp,
                        MemoryIsStorePrefix
  <1>5. ASSUME NEW w \in Writers, NEW q \in Requests, RecordInvalid(w, q)
        PROVE  Chained'
    BY <1>5 DEF RecordInvalid, IInv, InFlightLinked, StoreIsLinked,
                NoForkWhileUp, MemoryIsStorePrefix
  <1>6. ASSUME NEW w \in Writers, Save(w)
        PROVE  Chained'
    <2>1. /\ \A s \in Scopes : LinkedChain(store'[s])
          /\ ~Forked(store')
          /\ Len(mem[w]) = Len(store[Scope[w]])
          /\ store'[Scope[w]] = Append(store[Scope[w]], pending[w])
          /\ \A s \in Scopes : s # Scope[w] => store'[s] = store[s]
      BY <1>6, InsertStep DEF Save
    <2>2. /\ pending[w] \in AuditRecord
          /\ pending[w].fields.tenant_id = Scope[w]
      BY <1>6 DEF Save, IInv, InFlight, InFlightLinked
    <2>3. \A u \in Writers : pc[u] # "down" =>
            /\ Len(store[Scope[u]]) <= Len(store'[Scope[u]])
            /\ \A i \in 1..Len(store[Scope[u]]) :
                  store'[Scope[u]][i] = store[Scope[u]][i]
            /\ Len(mem[u]) <= Len(store'[Scope[u]])
            /\ \A i \in 1..Len(mem[u]) : mem[u][i] = store'[Scope[u]][i]
      BY <2>1, <2>2, GrowthKeepsPrefix
    <2>4. MemoryIsStorePrefix'
      BY <1>6, <2>3 DEF Save, IInv, TypeOK, MemoryIsStorePrefix
    <2>5. InFlightLinked'
      <3> SUFFICES ASSUME NEW u \in Writers
                   PROVE  /\ pc'[u] = "saving" =>
                               /\ SealedOnto(pending[u], head_hash(mem[u]))
                               /\ pending[u].fields.tenant_id = Scope[u]
                          /\ pc'[u] = "saved" =>
                               /\ pending[u].fields.tenant_id = Scope[u]
                               /\ Len(mem[u]) < Len(store'[Scope[u]])
                               /\ pending[u] = store'[Scope[u]][Len(mem[u]) + 1]
        BY <1>6 DEF Save, InFlightLinked
      <3>1. store[Scope[u]] \in Seq(AuditRecord) /\ mem[u] \in Seq(AuditRecord)
        BY ScopeAssumption DEF IInv, TypeOK
      <3>2. CASE u = w
        <4>1. /\ Len(store'[Scope[w]]) = Len(store[Scope[w]]) + 1
              /\ store'[Scope[w]][Len(store[Scope[w]]) + 1] = pending[w]
          BY <2>1, <2>2, <3>1, <3>2, AppendFacts
        <4>2. pc'[w] = "saved"
          BY <1>6 DEF Save, IInv, TypeOK
        <4>. QED
          BY <2>1, <2>2, <3>1, <3>2, <4>1, <4>2
      <3>3. CASE u # w
        <4>1. pc'[u] = pc[u]
          BY <1>6, <3>3 DEF Save, IInv, TypeOK
        <4>2. pc[u] = "saved" =>
                /\ Len(mem[u]) < Len(store'[Scope[u]])
                /\ pending[u] = store'[Scope[u]][Len(mem[u]) + 1]
          BY <1>0, <2>1, <2>2, GrowthKeepsSaved
        <4>. QED
          BY <4>1, <4>2 DEF IInv, InFlightLinked
      <3>. QED
        BY <3>2, <3>3
    <2>. QED
      BY <2>1, <2>4, <2>5 DEF StoreIsLinked, NoForkWhileUp
  <1>7. ASSUME NEW w \in Writers, SaveFork(w)
        PROVE  Chained'
    BY <1>7 DEF SaveFork, Refused, IInv, TypeOK, InFlightLinked, StoreIsLinked,
                NoForkWhileUp, MemoryIsStorePrefix
  <1>8. ASSUME NEW w \in Writers, SaveFailed(w)
        PROVE  Chained'
    BY <1>8 DEF SaveFailed, Refused, IInv, TypeOK, InFlightLinked,
                StoreIsLinked, NoForkWhileUp, MemoryIsStorePrefix
  <1>9. ASSUME NEW w \in Writers, SaveUnacknowledged(w)
        PROVE  Chained'
    <2>1. /\ \A s \in Scopes : LinkedChain(store'[s])
          /\ ~Forked(store')
          /\ store'[Scope[w]] = Append(store[Scope[w]], pending[w])
          /\ \A s \in Scopes : s # Scope[w] => store'[s] = store[s]
      BY <1>9, InsertStep DEF SaveUnacknowledged
    <2>2. pending[w] \in AuditRecord
      BY <1>9 DEF SaveUnacknowledged, IInv, InFlight
    <2>3. \A u \in Writers : pc[u] # "down" =>
            /\ Len(mem[u]) <= Len(store'[Scope[u]])
            /\ \A i \in 1..Len(mem[u]) : mem[u][i] = store'[Scope[u]][i]
      BY <2>1, <2>2, GrowthKeepsPrefix
    <2>4. \A u \in Writers : pc[u] = "saved" =>
            /\ Len(mem[u]) < Len(store'[Scope[u]])
            /\ pending[u] = store'[Scope[u]][Len(mem[u]) + 1]
      BY <1>0, <2>1, <2>2, GrowthKeepsSaved
    <2>5. MemoryIsStorePrefix'
      BY <1>9, <2>3 DEF SaveUnacknowledged, Refused, IInv, TypeOK,
                        MemoryIsStorePrefix
    <2>6. InFlightLinked'
      BY <1>9, <2>4 DEF SaveUnacknowledged, Refused, IInv, TypeOK,
                        InFlightLinked
    <2>. QED
      BY <2>1, <2>5, <2>6 DEF StoreIsLinked, NoForkWhileUp
  <1>10. ASSUME NEW w \in Writers, AppendInMemory(w)
         PROVE  Chained'
    <2>1. /\ pending[w] \in AuditRecord
          /\ Len(mem[w]) < Len(store[Scope[w]])
          /\ pending[w] = store[Scope[w]][Len(mem[w]) + 1]
      BY <1>10 DEF AppendInMemory, IInv, InFlight, InFlightLinked
    <2>2. mem[w] \in Seq(AuditRecord) /\ store[Scope[w]] \in Seq(AuditRecord)
      BY ScopeAssumption DEF IInv, TypeOK
    <2>3. /\ Len(mem[w]) \in Nat /\ Len(store[Scope[w]]) \in Nat
          /\ Len(Append(mem[w], pending[w])) = Len(mem[w]) + 1
          /\ Append(mem[w], pending[w])[Len(mem[w]) + 1] = pending[w]
          /\ \A i \in 1..Len(mem[w]) : Append(mem[w], pending[w])[i] = mem[w][i]
      BY <2>1, <2>2, AppendFacts
    <2>4. /\ mem'[w] = Append(mem[w], pending[w])
          /\ \A u \in Writers : u # w => mem'[u] = mem[u] /\ pc'[u] = pc[u]
                                        /\ pending'[u] = pending[u]
          /\ pc'[w] = "open" /\ pc[w] = "saved" /\ store' = store
      BY <1>10 DEF AppendInMemory, IInv, TypeOK
    <2>5. MemoryIsStorePrefix'
      <3> SUFFICES ASSUME NEW u \in Writers, pc'[u] # "down"
                   PROVE  /\ Len(mem'[u]) <= Len(store[Scope[u]])
                          /\ \A i \in 1..Len(mem'[u]) :
                                mem'[u][i] = store[Scope[u]][i]
        BY <2>4 DEF MemoryIsStorePrefix
      <3>1. CASE u = w
        <4>1. Len(mem'[w]) = Len(mem[w]) + 1
          BY <2>3, <2>4
        <4>2. \A i \in 1..Len(mem[w]) : mem[w][i] = store[Scope[w]][i]
          BY <2>4 DEF IInv, MemoryIsStorePrefix
        <4>3. ASSUME NEW i \in 1..(Len(mem[w]) + 1)
              PROVE  mem'[w][i] = store[Scope[w]][i]
          <5>1. i \in 1..Len(mem[w]) \/ i = Len(mem[w]) + 1
            BY <2>3
          <5>. QED
            BY <2>1, <2>3, <2>4, <4>2, <5>1
        <4>. QED
          BY <2>1, <2>3, <3>1, <4>1, <4>3
      <3>2. CASE u # w
        BY <2>4, <3>2 DEF IInv, MemoryIsStorePrefix
      <3>. QED
        BY <3>1, <3>2
    <2>6. InFlightLinked'
      BY <2>4 DEF IInv, InFlightLinked
    <2>. QED
      BY <2>4, <2>5, <2>6 DEF IInv, StoreIsLinked, NoForkWhileUp
  <1>11. ASSUME NEW w \in Writers, Crash(w)
         PROVE  Chained'
    BY <1>11 DEF Crash, IInv, TypeOK, InFlightLinked, StoreIsLinked,
                 NoForkWhileUp, MemoryIsStorePrefix
  <1>. QED
    BY <1>1, <1>2, <1>3, <1>4, <1>5, <1>6, <1>7, <1>8, <1>9, <1>10, <1>11
       DEF Next

LEMMA ChainInit ==
  ASSUME Init
  PROVE  IInv
  BY TypeInit, LegacyAssumption
     DEF Init, IInv, Chained, InFlightLinked, StoreIsLinked, NoForkWhileUp,
         MemoryIsStorePrefix, Up

\* Where every writer is scoped, the inductive invariant always holds.
LEMMA ChainInvariant ==
  ASSUME AllScoped
  PROVE  Spec => []IInv
  BY ChainInit, ChainStep, PTL DEF Spec

\* No interleaving of writers, failed or unacknowledged saves, crashes and
\* restarts makes a writer's copy contradict its tenant's rows.
THEOREM MemoryNeverDiverges ==
  ASSUME AllScoped
  PROVE  Spec => []MemoryIsStorePrefix
  BY ChainInvariant, PTL DEF IInv, Chained

\* The store of scoped writers is one linked chain per tenant, and it never
\* holds a fork while a writer is up.
THEOREM StoreStaysLinked ==
  ASSUME AllScoped
  PROVE  Spec => [](StoreIsLinked /\ NoForkWhileUp)
  BY ChainInvariant, PTL DEF IInv, Chained

----------------------------------------------------------------------------
(* Acknowledged records, verification, and the abstract ledger.             *)

LEMMA AckedStep ==
  ASSUME AllScoped, IInv, IInv', AckedIsStored, [Next]_vars
  PROVE  AckedIsStored'
  <1>1. ASSUME NEW w \in Writers, AppendInMemory(w)
        PROVE  AckedIsStored'
    <2>1. /\ pending[w].fields.tenant_id = Scope[w]
          /\ Len(mem[w]) < Len(store[Scope[w]])
          /\ pending[w] = store[Scope[w]][Len(mem[w]) + 1]
      BY <1>1 DEF AppendInMemory, IInv, Chained, InFlightLinked
    <2>2. mem[w] \in Seq(AuditRecord) /\ store[Scope[w]] \in Seq(AuditRecord)
      BY ScopeAssumption DEF IInv, TypeOK
    <2>3. Len(mem[w]) + 1 \in 1..Len(store[Scope[w]])
      BY <2>1, <2>2
    <2>. QED
      BY <1>1, <2>1, <2>3 DEF AppendInMemory, AckedIsStored
  <1>2. ASSUME NEW w \in Writers, pc[w] = "saving", ~Claimed(pending[w]),
               Insert(pending[w]), acked' = acked
        PROVE  AckedIsStored'
    <2>1. /\ store'[Scope[w]] = Append(store[Scope[w]], pending[w])
          /\ \A s \in Scopes : s # Scope[w] => store'[s] = store[s]
          /\ pending[w] \in AuditRecord
      BY <1>2, InsertStep DEF IInv, InFlight
    <2> SUFFICES ASSUME NEW r \in acked
                 PROVE  \E i \in 1..Len(store'[r.fields.tenant_id]) :
                          store'[r.fields.tenant_id][i] = r
      BY <1>2 DEF AckedIsStored
    <2> DEFINE k == r.fields.tenant_id
    <2>2. k \in Scopes
      BY DEF IInv, TypeOK, AuditRecord, Fields
    <2>3. PICK i \in 1..Len(store[k]) : store[k][i] = r
      BY DEF AckedIsStored
    <2>4. store[k] \in Seq(AuditRecord)
      BY <2>2 DEF IInv, TypeOK
    <2>5. CASE k = Scope[w]
      <3>1. store'[k] = Append(store[k], pending[w])
        BY <2>1, <2>5
      <3>2. /\ Len(store'[k]) = Len(store[k]) + 1 /\ Len(store[k]) \in Nat
            /\ store'[k][i] = store[k][i]
        BY <2>1, <2>4, <3>1, AppendFacts
      <3>. QED
        BY <2>3, <3>2
    <2>6. CASE k # Scope[w]
      BY <2>1, <2>2, <2>3, <2>6
    <2>. QED
      BY <2>5, <2>6
  <1>3. ASSUME store' = store, acked' = acked
        PROVE  AckedIsStored'
    BY <1>3 DEF AckedIsStored
  <1>. QED
    BY <1>1, <1>2, <1>3
       DEF Next, vars, Open, OpenRefused, record, RecordInvalid, Save, SaveFork,
           SaveFailed, SaveUnacknowledged, Refused, Crash

\* A record its caller was told of is in the store from then on, whatever
\* fails afterwards.
THEOREM AckedStaysStored ==
  ASSUME AllScoped
  PROVE  Spec => []AckedIsStored
  <1>1. Init => AckedIsStored
    BY DEF Init, AckedIsStored
  <1>. QED
    BY <1>1, ChainInvariant, AckedStep, PTL DEF Spec

LEMMA LinkedVerifies ==
  ASSUME NEW rs \in Seq(AuditRecord), LinkedChain(rs)
  PROVE  verify(rs) = "ok"
  <1>1. ASSUME NEW i \in DOMAIN rs
        PROVE  Diagnosis(rs, i) = "ok"
    <2>1. i \in 1..Len(rs) /\ rs[i] \in AuditRecord
      OBVIOUS
    <2>2. rs[i].fields.binding_version \in 0..RECORD_BINDING_CURRENT
      BY <2>1 DEF AuditRecord, Fields
    <2>3. ~(rs[i].fields.binding_version > RECORD_BINDING_CURRENT)
      BY <2>2 DEF RECORD_BINDING_CURRENT
    <2>. QED
      BY <2>1, <2>3 DEF LinkedChain, SealedOnto, Diagnosis
  <1>. QED
    BY <1>1 DEF verify

LEMMA PrefixLinked ==
  ASSUME NEW rs \in Seq(AuditRecord), LinkedChain(rs),
         NEW ms \in Seq(AuditRecord), Len(ms) <= Len(rs),
         \A i \in 1..Len(ms) : ms[i] = rs[i]
  PROVE  LinkedChain(ms)
  <1> SUFFICES ASSUME NEW i \in 1..Len(ms)
               PROVE  SealedOnto(ms[i], WalkHash(ms, i))
    BY DEF LinkedChain
  <1>1. i \in 1..Len(rs) /\ (i # 1 => i - 1 \in 1..Len(ms))
    OBVIOUS
  <1>2. WalkHash(ms, i) = WalkHash(rs, i)
    BY <1>1 DEF WalkHash
  <1>. QED
    BY <1>1, <1>2 DEF LinkedChain

\* verify() of a running writer never reports a broken or tampered chain that
\* only its own operation produced.
THEOREM RunningAlwaysVerifies ==
  ASSUME AllScoped
  PROVE  Spec => []RunningChainsVerify
  <1>1. ASSUME IInv PROVE RunningChainsVerify
    <2> SUFFICES ASSUME NEW w \in Writers, pc[w] # "down"
                 PROVE  verify(mem[w]) = "ok"
      BY DEF RunningChainsVerify, Up
    <2>1. /\ Scope[w] \in Scopes
          /\ store[Scope[w]] \in Seq(AuditRecord)
          /\ mem[w] \in Seq(AuditRecord)
      BY <1>1, ScopeAssumption DEF IInv, TypeOK
    <2>2. LinkedChain(store[Scope[w]])
      BY <1>1, <2>1 DEF IInv, Chained, NoForkWhileUp, StoreIsLinked, Up
    <2>3. /\ Len(mem[w]) <= Len(store[Scope[w]])
          /\ \A i \in 1..Len(mem[w]) : mem[w][i] = store[Scope[w]][i]
      BY <1>1 DEF IInv, Chained, MemoryIsStorePrefix, Up
    <2>. QED
      BY <2>1, <2>2, <2>3, PrefixLinked, LinkedVerifies
  <1>. QED
    BY <1>1, ChainInvariant, PTL

----------------------------------------------------------------------------
(* Refused saves.                                                           *)

\* The hash of a linked row has the row's position as its length.
LEMMA LinkedLengths ==
  ASSUME NEW rs \in Seq(AuditRecord), LinkedChain(rs)
  PROVE  \A i \in 1..Len(rs) : Len(rs[i].record_hash) = i
  <1> DEFINE T == {i \in 1..Len(rs) : Len(rs[i].record_hash) # i}
  <1> SUFFICES ASSUME T # {} PROVE FALSE
    OBVIOUS
  <1>1. T \subseteq Nat
    OBVIOUS
  <1> HIDE DEF T
  <1>2. PICK x \in T : \A y \in T : ~ (<<y, x>> \in OpToRel(<, Nat))
    BY <1>1, NatLessThanWellFounded, WFMin
  <1>3. \A y \in T : ~ (y < x)
    BY <1>1, <1>2 DEF OpToRel
  <1>4. x \in 1..Len(rs) /\ Len(rs[x].record_hash) # x
    BY DEF T
  <1>5. Len(rs[x].record_hash) = Len(WalkHash(rs, x)) + 1
    <2>1. rs[x].record_hash = Append(WalkHash(rs, x), preimage_fields(rs[x].fields))
      BY <1>4 DEF LinkedChain, SealedOnto, compute_record_hash
    <2>2. WalkHash(rs, x) \in Hashes
      <3>1. rs[x].previous_hash = WalkHash(rs, x)
        BY <1>4 DEF LinkedChain, SealedOnto
      <3>2. rs[x] \in AuditRecord
        BY <1>4
      <3>. QED
        BY <3>1, <3>2 DEF AuditRecord
    <2>3. preimage_fields(rs[x].fields) \in Preimages
      <3>1. rs[x] \in AuditRecord
        BY <1>4
      <3>2. rs[x].fields \in Fields
        BY <3>1 DEF AuditRecord
      <3>. QED
        BY <3>2 DEF Preimages
    <2>. QED
      BY <2>1, <2>2, <2>3 DEF Hashes
  <1>6. CASE x = 1
    BY <1>4, <1>5, <1>6 DEF WalkHash, GENESIS_HASH
  <1>7. CASE x > 1
    <2>1. x - 1 \in 1..Len(rs) /\ x - 1 \notin T
      BY <1>3, <1>4, <1>7
    <2>2. Len(rs[x - 1].record_hash) = x - 1
      BY <2>1 DEF T
    <2>3. WalkHash(rs, x) = rs[x - 1].record_hash
      BY <1>7 DEF WalkHash
    <2>. QED
      BY <1>4, <1>5, <2>2, <2>3
  <1>. QED
    BY <1>4, <1>6, <1>7

\* No row of a linked chain claims the chain's last hash as its predecessor.
LEMMA HeadIsUnclaimed ==
  ASSUME NEW rs \in Seq(AuditRecord), LinkedChain(rs), NEW i \in 1..Len(rs)
  PROVE  rs[i].previous_hash # head_hash(rs)
  <1>1. Len(rs) \in 1..Len(rs) /\ rs # << >>
    OBVIOUS
  <1>2. Len(head_hash(rs)) = Len(rs)
    BY <1>1, LinkedLengths DEF head_hash
  <1>3. Len(WalkHash(rs, i)) = i - 1
    <2>1. CASE i = 1
      BY <2>1 DEF WalkHash, GENESIS_HASH
    <2>2. CASE i # 1
      <3>1. i - 1 \in 1..Len(rs)
        BY <2>2
      <3>. QED
        BY <2>2, <3>1, LinkedLengths DEF WalkHash
    <2>. QED
      BY <2>1, <2>2
  <1>4. rs[i].previous_hash = WalkHash(rs, i)
    BY DEF LinkedChain, SealedOnto
  <1>5. i - 1 # Len(rs)
    OBVIOUS
  <1>. QED
    BY <1>2, <1>3, <1>4, <1>5

\* A writer that holds every row of its tenant finds its predecessor free.
LEMMA CurrentIsUnclaimed ==
  ASSUME AllScoped, IInv, NEW w \in Writers, pc[w] = "saving", Claimed(pending[w])
  PROVE  Len(mem[w]) < Len(store[Scope[w]])
  <1>1. /\ Scope[w] \in Scopes
        /\ store[Scope[w]] \in Seq(AuditRecord) /\ mem[w] \in Seq(AuditRecord)
    BY ScopeAssumption DEF IInv, TypeOK
  <1>2. LinkedChain(store[Scope[w]])
    BY <1>1 DEF IInv, Chained, NoForkWhileUp, StoreIsLinked, Up
  <1>3. /\ Len(mem[w]) <= Len(store[Scope[w]])
        /\ \A i \in 1..Len(mem[w]) : mem[w][i] = store[Scope[w]][i]
    BY DEF IInv, Chained, MemoryIsStorePrefix, Up
  <1>4. /\ pending[w].previous_hash = head_hash(mem[w])
        /\ pending[w].fields.tenant_id = Scope[w]
    BY DEF IInv, Chained, InFlightLinked, SealedOnto
  <1>5. PICK i \in 1..Len(store[Scope[w]]) :
           store[Scope[w]][i].previous_hash = head_hash(mem[w])
    BY <1>4 DEF Claimed
  <1> SUFFICES ASSUME Len(mem[w]) = Len(store[Scope[w]]) PROVE FALSE
    BY <1>1, <1>3
  <1>6. mem[w] = store[Scope[w]]
    BY <1>1, <1>3
  <1>. QED
    BY <1>1, <1>2, <1>5, <1>6, HeadIsUnclaimed

\* The unique index refuses exactly the writers whose copy is behind: no writer is
\* told of a fork that is not there, and none saves from a stale copy
\* (SQLiteBackend.save, PostgreSQLBackend.save, ChainForkError).
THEOREM ForksAreReportedRightly ==
  ASSUME AllScoped
  PROVE  Spec => ForkIffBehind
  <1> DEFINE Right(w) ==
        pc[w] = "saving" =>
          LET behind == Len(mem[w]) < Len(store[Scope[w]])
          IN  /\ pc'[w] = "open" /\ answer'[w] = "fork" => behind
              /\ pc'[w] = "saved" => ~behind
  <1>1. ASSUME IInv, Next, NEW w \in Writers, pc[w] = "saving" PROVE Right(w)
    <2>1. PICK v \in Writers :
            \/ Open(v) \/ OpenRefused(v)
            \/ \E q \in Requests : record(v, q) \/ RecordInvalid(v, q)
            \/ Save(v) \/ SaveFork(v) \/ SaveFailed(v) \/ SaveUnacknowledged(v)
            \/ AppendInMemory(v) \/ Crash(v)
      BY <1>1 DEF Next
    <2>2. pc \in [Writers -> {"down", "open", "saving", "saved"}] /\ answer \in [Writers -> Answers]
      BY <1>1 DEF IInv, TypeOK
    <2>3. CASE v # w
      <3>1. pc'[w] = pc[w]
        BY <2>1, <2>2, <2>3 DEF Open, OpenRefused, record, RecordInvalid, Save, SaveFork, SaveFailed,
                                SaveUnacknowledged, Refused, AppendInMemory, Crash
      <3>. QED
        BY <1>1, <3>1
    <2>4. CASE v = w
      <3>1. CASE Save(w)
        <4>1. ~Claimed(pending[w]) /\ pc'[w] = "saved"
          BY <2>2, <3>1 DEF Save
        <4>2. Len(mem[w]) = Len(store[Scope[w]])
          BY <1>1, <4>1, UnclaimedIsCurrent
        <4>3. Len(mem[w]) \in Nat
          BY <1>1 DEF IInv, TypeOK
        <4>. QED
          BY <4>1, <4>2, <4>3
      <3>2. CASE SaveFork(w)
        <4>1. Claimed(pending[w]) /\ pc'[w] = "open"
          BY <2>2, <3>2 DEF SaveFork, Refused
        <4>. QED
          BY <1>1, <4>1, CurrentIsUnclaimed
      <3>3. CASE SaveFailed(w) \/ SaveUnacknowledged(w)
        BY <2>2, <3>3 DEF SaveFailed, SaveUnacknowledged, Refused
      <3>4. CASE Crash(w)
        BY <2>2, <3>4 DEF Crash
      <3>. QED
        BY <1>1, <2>1, <2>4, <3>1, <3>2, <3>3, <3>4
           DEF Open, OpenRefused, record, RecordInvalid, AppendInMemory
    <2>. QED
      BY <2>3, <2>4
  <1>2. IInv /\ [Next]_vars => [\A w \in Writers : Right(w)]_vars
    BY <1>1
  <1>3. Spec => [][\A w \in Writers : Right(w)]_vars
    BY <1>2, ChainInvariant, PTL DEF Spec
  <1>. QED
    BY <1>3 DEF ForkIffBehind

----------------------------------------------------------------------------
(* Refinement: the store is an append-only ledger per scope.                *)

LEMMA AppendHead ==
  ASSUME NEW rs \in Seq(AuditRecord), NEW r \in AuditRecord
  PROVE  head_hash(Append(rs, r)) = r.record_hash
  <1>1. /\ Len(Append(rs, r)) = Len(rs) + 1
        /\ Append(rs, r)[Len(rs) + 1] = r
        /\ Append(rs, r) # << >>
    OBVIOUS
  <1>. QED
    BY <1>1 DEF head_hash

\* An insert extends one history by what the new row binds.
LEMMA InsertExtends ==
  ASSUME AllScoped, IInv, NEW w \in Writers, pc[w] = "saving",
         ~Claimed(pending[w]), Insert(pending[w])
  PROVE  L!Next
  <1> DEFINE k == Scope[w]
  <1> DEFINE x == preimage_fields(pending[w].fields)
  <1> DEFINE h == [s \in Scopes |-> head_hash(store[s])]
  <1> DEFINE g == [s \in Scopes |-> head_hash(store'[s])]
  <1>1. /\ k \in Scopes
        /\ store[k] \in Seq(AuditRecord)
        /\ store'[k] = Append(store[k], pending[w])
        /\ \A s \in Scopes : s # k => store'[s] = store[s]
        /\ pending[w] \in AuditRecord
    BY InsertStep, ScopeAssumption DEF IInv, TypeOK, InFlight
  <1>2. pending[w].previous_hash = head_hash(store[k])
    BY UnclaimedIsCurrent
  <1>3. pending[w].record_hash = Append(head_hash(store[k]), x)
    BY <1>2 DEF IInv, Chained, InFlightLinked, SealedOnto, compute_record_hash
  <1>4. head_hash(store'[k]) = Append(head_hash(store[k]), x)
    BY <1>1, <1>3, AppendHead
  <1>5. x \in Preimages
    BY <1>1 DEF Preimages, AuditRecord
  <1>6. h[k] \in Seq(Preimages) /\ g[k] = Append(h[k], x)
    BY <1>1, <1>4, HeadHashType DEF Hashes
  <1>7. g[k] # << >> /\ g[k][Len(g[k])] = x
    BY <1>5, <1>6, AppendFacts
  <1>8. g = [h EXCEPT ![k] = Append(h[k], x)]
    BY <1>1, <1>6
  <1>9. L!Extend(k)
    BY <1>5, <1>7, <1>8 DEF L!Extend
  <1>. QED
    BY <1>1, <1>9 DEF L!Next

\* The store implements the ledger: every step of every writer appends one
\* entry to one history or changes none.
THEOREM RefinesLedger ==
  ASSUME AllScoped
  PROVE  Spec => ImplementsLedger
  <1>1. Init => L!Init
    <2>1. ASSUME Init PROVE \A s \in Scopes : head_hash(store[s]) \in Seq(Preimages)
      BY <2>1, TypeInit, HeadHashType DEF TypeOK, Hashes
    <2>. QED
      BY <2>1 DEF L!Init
  <1>2. ASSUME IInv, [Next]_vars
        PROVE  L!Next \/ UNCHANGED [s \in Scopes |-> head_hash(store[s])]
    <2>1. ASSUME NEW w \in Writers, pc[w] = "saving", ~Claimed(pending[w]),
                 Insert(pending[w])
          PROVE  L!Next
      BY <1>2, <2>1, InsertExtends
    <2>2. ASSUME store' = store
          PROVE  UNCHANGED [s \in Scopes |-> head_hash(store[s])]
      BY <2>2
    <2>. QED
      BY <1>2, <2>1, <2>2
         DEF Next, vars, Open, OpenRefused, record, RecordInvalid, Save,
             SaveFork, SaveFailed, SaveUnacknowledged, AppendInMemory, Crash
  <1>. QED
    BY <1>1, <1>2, ChainInvariant, PTL DEF Spec, ImplementsLedger, L!Spec
============================================================================
