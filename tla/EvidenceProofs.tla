--------------------------- MODULE EvidenceProofs ---------------------------
(***************************************************************************)
(* Proofs about the evidence that a store is what was written: StoredChain *)
(* and Snapshot, then Custody.  For every set of record fields, every      *)
(* length of the table and every number of alterations, what the verdict   *)
(* of verify means and what a snapshot that verifies holds; for every      *)
(* number of threads, records, epochs and refusals, what the external      *)
(* re-walk says of an untouched and of an altered store.                   *)
(***************************************************************************)
EXTENDS Snapshot, Custody, SequenceTheorems, WellFoundedInduction, TLAPS

Fields == Bodies \cup Edits

\* What a hash is a sequence of.
Preimages == {preimage_fields(b) : b \in Fields} \cup {[newer |-> b] : b \in Fields}
Hashes == Seq(Preimages)

Row == [fields : Fields, previous_hash : Hashes, record_hash : Hashes]

----------------------------------------------------------------------------
(* Sequences and the least of a set of numbers.                             *)

LEMMA Least ==
  ASSUME NEW T \in SUBSET Nat, T # {}
  PROVE  \E x \in T : \A y \in T : x <= y
  <1>1. PICK x \in T : \A y \in T : ~ (<<y, x>> \in OpToRel(<, Nat))
    BY NatLessThanWellFounded, WFMin
  <1>2. \A y \in T : ~ (y < x)
    BY <1>1 DEF OpToRel
  <1>. QED
    BY <1>2

\* RemoveAt leaves only what was there.
LEMMA RemoveAtElements ==
  ASSUME NEW S, NEW s \in Seq(S), NEW i \in DOMAIN s
  PROVE  /\ RemoveAt(s, i) \in Seq(S)
         /\ \A k \in DOMAIN RemoveAt(s, i) : \E j \in DOMAIN s : RemoveAt(s, i)[k] = s[j]
  <1> DEFINE a == SubSeq(s, 1, i - 1)
             b == SubSeq(s, i + 1, Len(s))
  <1>1. PICK n \in Nat : n = Len(s)
    OBVIOUS
  <1>2. i \in 1..n /\ DOMAIN s = 1..n /\ \A k \in 1..n : s[k] \in S
    BY <1>1
  <1>3. /\ a \in Seq(S) /\ Len(a) = i - 1
        /\ \A k \in 1..(i - 1) : a[k] = s[k]
    <2>1. i - 1 \in Int /\ \A k \in 1..(i - 1) : s[k] \in S
      BY <1>2
    <2>2. /\ a \in Seq(S) /\ Len(a) = IF 1 <= i - 1 THEN (i - 1) - 1 + 1 ELSE 0
          /\ \A k \in 1..((i - 1) - 1 + 1) : a[k] = s[1 + k - 1]
      BY <2>1, SubSeqProperties
    <2> HIDE DEF a
    <2>. QED
      BY <1>2, <2>2
  <1>4. /\ b \in Seq(S) /\ Len(b) = n - i
        /\ \A k \in 1..(n - i) : b[k] = s[i + k]
    <2>1. i + 1 \in Int /\ n \in Int /\ \A k \in (i + 1)..n : s[k] \in S
      BY <1>2
    <2>2. /\ b \in Seq(S) /\ Len(b) = IF i + 1 <= n THEN n - (i + 1) + 1 ELSE 0
          /\ \A k \in 1..(n - (i + 1) + 1) : b[k] = s[(i + 1) + k - 1]
      BY <1>1, <2>1, SubSeqProperties
    <2> HIDE DEF b
    <2>3. n - (i + 1) + 1 = n - i /\ \A k \in 1..(n - i) : (i + 1) + k - 1 = i + k
      BY <1>2
    <2>4. (IF i + 1 <= n THEN n - (i + 1) + 1 ELSE 0) = n - i
      BY <1>2
    <2>. QED
      BY <2>2, <2>3, <2>4
  <1> DEFINE c == a \o b
  <1>5. RemoveAt(s, i) = c
    BY DEF RemoveAt
  <1> HIDE DEF a, b
  <1>6. /\ c \in Seq(S) /\ Len(c) = (i - 1) + (n - i)
        /\ \A k \in 1..((i - 1) + (n - i)) : c[k] = IF k <= i - 1 THEN a[k] ELSE b[k - (i - 1)]
    <2>1. /\ c \in Seq(S) /\ Len(c) = Len(a) + Len(b)
          /\ \A k \in 1..(Len(a) + Len(b)) : c[k] = IF k <= Len(a) THEN a[k] ELSE b[k - Len(a)]
      BY <1>3, <1>4, ConcatProperties
    <2> HIDE DEF c
    <2>. QED
      BY <1>3, <1>4, <2>1
  <1> HIDE DEF c
  <1>7. DOMAIN c = 1..((i - 1) + (n - i))
    BY <1>6
  <1>8. ASSUME NEW k \in 1..((i - 1) + (n - i))
        PROVE  \E j \in 1..n : c[k] = s[j]
    <2>1. CASE k <= i - 1
      <3>1. k \in 1..(i - 1) /\ k \in 1..n
        BY <1>2, <2>1
      <3>2. c[k] = a[k] /\ a[k] = s[k]
        BY <1>3, <1>6, <2>1, <3>1
      <3>. QED
        BY <3>1, <3>2
    <2>2. CASE ~ (k <= i - 1)
      <3> DEFINE m == k - (i - 1)
      <3>1. m \in 1..(n - i) /\ i + m \in 1..n
        BY <1>2, <2>2
      <3>2. c[k] = b[m]
        BY <1>6, <2>2
      <3> HIDE DEF m
      <3>3. b[m] = s[i + m]
        BY <1>4, <3>1
      <3>. QED
        BY <3>1, <3>2, <3>3
    <2>. QED
      BY <2>1, <2>2
  <1>. QED
    BY <1>2, <1>5, <1>6, <1>7, <1>8

\* IsPrefix, element by element.
LEMMA PrefixElements ==
  ASSUME NEW S, NEW s \in Seq(S), NEW t \in Seq(S)
  PROVE  IsPrefix(s, t) <=> Len(s) <= Len(t) /\ \A i \in 1..Len(s) : s[i] = t[i]
  <1>1. Len(s) \in Nat /\ Len(t) \in Nat
    OBVIOUS
  <1>2. SubSeq(s, 1, Len(s)) = s
    OBVIOUS
  <1>3. ASSUME Len(s) <= Len(t)
        PROVE  SubSeq(s, 1, Len(s)) = SubSeq(t, 1, Len(s)) <=> \A i \in 1..Len(s) : s[i] = t[i]
    <2> DEFINE u == SubSeq(t, 1, Len(s))
    <2>1. u \in Seq(S) /\ Len(u) = Len(s) /\ \A i \in 1..Len(s) : u[i] = t[i]
      BY <1>1, <1>3
    <2> HIDE DEF u
    <2>2. s = u <=> \A i \in 1..Len(s) : s[i] = u[i]
      BY <2>1, SeqEqual
    <2>3. SubSeq(s, 1, Len(s)) = u <=> \A i \in 1..Len(s) : s[i] = t[i]
      BY <1>2, <2>1, <2>2
    <2>. QED
      BY <2>3 DEF u
  <1>. QED
    BY <1>1, <1>3 DEF IsPrefix

LEMMA PrefixTransitive ==
  ASSUME NEW S, NEW s \in Seq(S), NEW t \in Seq(S), NEW u \in Seq(S),
         IsPrefix(s, t), IsPrefix(t, u)
  PROVE  IsPrefix(s, u)
  <1>1. Len(s) \in Nat /\ Len(t) \in Nat /\ Len(u) \in Nat
    OBVIOUS
  <1>2. Len(s) <= Len(t) /\ \A i \in 1..Len(s) : s[i] = t[i]
    BY PrefixElements
  <1>3. Len(t) <= Len(u) /\ \A i \in 1..Len(t) : t[i] = u[i]
    BY PrefixElements
  <1>4. Len(s) <= Len(u) /\ \A i \in 1..Len(s) : s[i] = u[i]
    BY <1>1, <1>2, <1>3
  <1>. QED
    BY <1>4, PrefixElements

LEMMA PrefixOfAppend ==
  ASSUME NEW S, NEW s \in Seq(S), NEW x \in S
  PROVE  IsPrefix(s, s) /\ IsPrefix(s, Append(s, x)) /\ Len(Append(s, x)) = Len(s) + 1
  <1>1. /\ Append(s, x) \in Seq(S) /\ Len(Append(s, x)) = Len(s) + 1
        /\ \A i \in 1..Len(s) : Append(s, x)[i] = s[i]
    OBVIOUS
  <1>2. Len(s) \in Nat
    OBVIOUS
  <1>3. IsPrefix(s, s)
    BY <1>2, PrefixElements
  <1>4. IsPrefix(s, Append(s, x))
    <2> DEFINE t == Append(s, x)
    <2>1. t \in Seq(S) /\ Len(s) <= Len(t) /\ \A i \in 1..Len(s) : s[i] = t[i]
      BY <1>1, <1>2
    <2> HIDE DEF t
    <2>2. IsPrefix(s, t)
      BY <2>1, PrefixElements
    <2>. QED
      BY <2>2 DEF t
  <1>. QED
    BY <1>1, <1>3, <1>4

----------------------------------------------------------------------------
(* Preimages and verify.                                                    *)

\* The fields of b are those of c in everything the layout of c binds.
SameBound(b, c) ==
    /\ SameLayout(b.binding_version, c.binding_version)
    /\ \A k \in {"event", "tenant_id", "policy_digest"} : b[k] = c[k]
    /\ b.binding_version >= 1 => b.trace_id = c.trace_id
    /\ b.binding_version >= 2 => b.commitment = c.commitment

\* Two records have one preimage exactly when they agree in what is bound: a key
\* that is left out says that the field is not set.
LEMMA PreimageBinds ==
  ASSUME NEW b \in Fields, NEW c \in Fields
  PROVE  preimage_fields(b) = preimage_fields(c) <=> SameBound(b, c)
  <1> DEFINE F == preimage_fields(b)
             G == preimage_fields(c)
  <1>1. b.binding_version \in Int /\ c.binding_version \in Int
    BY BodiesAssumption DEF Fields
  <1>2. /\ DOMAIN F = PreimageKeys(b) /\ \A k \in PreimageKeys(b) : F[k] = b[k]
        /\ DOMAIN G = PreimageKeys(c) /\ \A k \in PreimageKeys(c) : G[k] = c[k]
    BY DEF preimage_fields
  <1>3. ASSUME F = G PROVE SameBound(b, c)
    <2>1. PreimageKeys(b) = PreimageKeys(c) /\ \A k \in PreimageKeys(b) : b[k] = c[k]
      BY <1>2, <1>3
    <2>2. b.event = c.event
      BY <2>1 DEF PreimageKeys
    <2>3. b.tenant_id = c.tenant_id
      BY <2>1 DEF PreimageKeys
    <2>4. b.policy_digest = c.policy_digest
      BY <2>1 DEF PreimageKeys
    <2>5. SameLayout(b.binding_version, c.binding_version)
      <3>1. "binding_version" \in PreimageKeys(b) <=> b.binding_version >= 1
        BY DEF PreimageKeys
      <3>2. "binding_version" \in PreimageKeys(c) <=> c.binding_version >= 1
        BY DEF PreimageKeys
      <3>3. CASE b.binding_version >= 1
        BY <2>1, <3>1, <3>3 DEF SameLayout
      <3>4. CASE ~ (b.binding_version >= 1)
        BY <1>1, <2>1, <3>1, <3>2, <3>4 DEF SameLayout
      <3>. QED
        BY <3>3, <3>4
    <2>6. b.binding_version >= 1 => b.trace_id = c.trace_id
      <3>1. b.binding_version >= 1 => c.binding_version >= 1
        BY <1>1, <2>5 DEF SameLayout
      <3>2. "trace_id" \in PreimageKeys(b) <=> b.binding_version >= 1 /\ b.trace_id # None
        BY DEF PreimageKeys
      <3>3. "trace_id" \in PreimageKeys(c) <=> c.binding_version >= 1 /\ c.trace_id # None
        BY DEF PreimageKeys
      <3>. QED
        BY <2>1, <3>1, <3>2, <3>3
    <2>7. b.binding_version >= 2 => b.commitment = c.commitment
      BY <2>1 DEF PreimageKeys
    <2>. QED
      BY <2>2, <2>3, <2>4, <2>5, <2>6, <2>7 DEF SameBound
  <1>4. ASSUME SameBound(b, c) PROVE F = G
    <2>1. /\ b.event = c.event /\ b.tenant_id = c.tenant_id /\ b.policy_digest = c.policy_digest
          /\ SameLayout(b.binding_version, c.binding_version)
          /\ b.binding_version >= 1 => b.trace_id = c.trace_id
          /\ b.binding_version >= 2 => b.commitment = c.commitment
      BY <1>4 DEF SameBound
    <2>2. /\ b.binding_version >= 1 <=> c.binding_version >= 1
          /\ b.binding_version >= 2 <=> c.binding_version >= 2
          /\ b.binding_version >= 1 => b.binding_version = c.binding_version
      BY <1>1, <2>1 DEF SameLayout
    <2>3. PreimageKeys(b) = PreimageKeys(c)
      BY <2>1, <2>2 DEF PreimageKeys
    <2>4. \A k \in PreimageKeys(b) : b[k] = c[k]
      BY <2>1, <2>2 DEF PreimageKeys
    <2>. QED
      BY <2>3, <2>4 DEF preimage_fields
  <1>. QED
    BY <1>3, <1>4

\* No record of a layout this build knows hashes like one of a newer layout.
LEMMA NewerIsApart ==
  ASSUME NEW b, NEW c
  PROVE  preimage_fields(b) # [newer |-> c]
  <1>1. "event" \in DOMAIN preimage_fields(b)
    BY DEF preimage_fields, PreimageKeys
  <1>2. "event" \notin DOMAIN [newer |-> c]
    OBVIOUS
  <1>. QED
    BY <1>1, <1>2

LEMMA HashTypes ==
  ASSUME NEW b \in Fields, NEW h \in Hashes
  PROVE  /\ preimage_fields(b) \in Preimages /\ [newer |-> b] \in Preimages
         /\ compute_record_hash(b, h) \in Hashes /\ Append(h, [newer |-> b]) \in Hashes
         /\ Len(compute_record_hash(b, h)) = Len(h) + 1
         /\ Len(Append(h, [newer |-> b])) = Len(h) + 1
  <1>1. preimage_fields(b) \in Preimages /\ [newer |-> b] \in Preimages
    BY DEF Preimages
  <1>. QED
    BY <1>1 DEF Hashes, compute_record_hash

\* Hashes are injective: one hash, one predecessor and one preimage.
LEMMA HashesBind ==
  \A s, t \in Hashes, x, y \in Preimages : Append(s, x) = Append(t, y) => s = t /\ x = y
  BY AppendInjective DEF Hashes

LEMMA RowParts ==
  ASSUME NEW rs \in Seq(Row), NEW i \in DOMAIN rs
  PROVE  /\ rs[i] \in Row /\ rs[i].fields \in Fields
         /\ rs[i].previous_hash \in Hashes /\ rs[i].record_hash \in Hashes
         /\ rs[i].fields.binding_version \in Int
         /\ Len(rs[i].record_hash) \in Nat
  <1>1. rs[i] \in Row
    OBVIOUS
  <1>2. /\ rs[i].fields \in Fields
        /\ rs[i].previous_hash \in Hashes /\ rs[i].record_hash \in Hashes
    BY <1>1 DEF Row
  <1>. QED
    BY <1>1, <1>2, BodiesAssumption DEF Fields, Hashes

\* The verdict of verify is the diagnosis of a position, of a bad one if there is
\* one.
LEMMA VerifyWalks ==
  ASSUME NEW S, NEW rs \in Seq(S)
  PROVE  /\ verify(rs) = "ok" <=> \A i \in DOMAIN rs : Diagnosis(rs, i) = "ok"
         /\ verify(rs) = "ok" \/ \E i \in DOMAIN rs : verify(rs) = Diagnosis(rs, i)
  <1> DEFINE bad == {i \in DOMAIN rs : Diagnosis(rs, i) # "ok"}
             least == CHOOSE i \in bad : \A j \in bad : i <= j
  <1>1. verify(rs) = IF bad = {} THEN "ok" ELSE Diagnosis(rs, least)
    BY DEF verify
  <1>2. bad \in SUBSET Nat
    OBVIOUS
  <1>3. bad # {} => least \in bad
    <2> SUFFICES ASSUME bad # {} PROVE least \in bad
      OBVIOUS
    <2>1. \E i \in bad : \A j \in bad : i <= j
      <3> HIDE DEF bad
      <3>. QED
        BY <1>2, Least
    <2>. QED
      BY <2>1
  <1>. QED
    BY <1>1, <1>3

\* The hash of a good row has the row's position as its length.
LEMMA GoodLengths ==
  ASSUME NEW rs \in Seq(Row), \A i \in DOMAIN rs : Diagnosis(rs, i) = "ok"
  PROVE  \A i \in DOMAIN rs : Len(rs[i].record_hash) = i
  <1> DEFINE T == {i \in DOMAIN rs : Len(rs[i].record_hash) # i}
  <1>1. DOMAIN rs = 1..Len(rs) /\ Len(rs) \in Nat
    OBVIOUS
  <1>2. SUFFICES ASSUME T # {} PROVE FALSE
    OBVIOUS
  <1>3. PICK x \in T : \A y \in T : x <= y
    <2>1. T \in SUBSET Nat
      BY <1>1
    <2> HIDE DEF T
    <2>. QED
      BY <1>2, <2>1, Least
  <1>4. x \in 1..Len(rs) /\ Len(rs[x].record_hash) # x
    BY <1>1
  <1>5. rs[x].fields \in Fields
    BY <1>1, <1>4, RowParts
  <1>6. rs[x].record_hash = compute_record_hash(rs[x].fields, WalkHash(rs, x))
    BY <1>1, <1>4 DEF Diagnosis
  <1>7. CASE x = 1
    <2>1. WalkHash(rs, x) = << >>
      BY <1>7 DEF WalkHash, GENESIS_HASH
    <2>2. << >> \in Hashes /\ Len(<< >>) = 0
      BY DEF Hashes
    <2>3. Len(compute_record_hash(rs[x].fields, << >>)) = 0 + 1
      BY <1>5, <2>2, HashTypes
    <2>. QED
      BY <1>4, <1>6, <1>7, <2>1, <2>3
  <1>8. CASE x > 1
    <2>1. x - 1 \in 1..Len(rs) /\ x - 1 \notin T
      BY <1>3, <1>4, <1>8
    <2>2. Len(rs[x - 1].record_hash) = x - 1
      BY <1>1, <2>1
    <2>3. WalkHash(rs, x) = rs[x - 1].record_hash
      BY <1>8 DEF WalkHash
    <2>4. rs[x - 1].record_hash \in Hashes
      BY <1>1, <2>1, RowParts
    <2>5. Len(compute_record_hash(rs[x].fields, rs[x - 1].record_hash)) = (x - 1) + 1
      BY <1>5, <2>2, <2>4, HashTypes
    <2>. QED
      BY <1>4, <1>6, <2>3, <2>5
  <1>. QED
    BY <1>4, <1>7, <1>8

\* In good rows every hash commits to all the hashes before it.
LEMMA GoodPrefixes ==
  ASSUME NEW rs \in Seq(Row), \A i \in DOMAIN rs : Diagnosis(rs, i) = "ok",
         NEW k \in DOMAIN rs, NEW n \in DOMAIN rs, k <= n
  PROVE  IsPrefix(rs[k].record_hash, rs[n].record_hash)
  <1> DEFINE T == {i \in DOMAIN rs : k <= i /\ ~ IsPrefix(rs[k].record_hash, rs[i].record_hash)}
  <1>1. DOMAIN rs = 1..Len(rs) /\ Len(rs) \in Nat
    OBVIOUS
  <1>2. SUFFICES ASSUME T # {} PROVE FALSE
    OBVIOUS
  <1>3. PICK x \in T : \A y \in T : x <= y
    <2>1. T \in SUBSET Nat
      BY <1>1
    <2> HIDE DEF T
    <2>. QED
      BY <1>2, <2>1, Least
  <1>4. /\ x \in DOMAIN rs /\ x \in Nat /\ k \in Nat /\ k <= x
        /\ ~ IsPrefix(rs[k].record_hash, rs[x].record_hash)
    BY <1>1
  <1>5. /\ rs[x].fields \in Fields /\ rs[k].record_hash \in Hashes /\ rs[x].record_hash \in Hashes
    BY <1>4, RowParts
  <1>6. CASE x = k
    BY <1>4, <1>5, <1>6, PrefixElements DEF Hashes
  <1>7. CASE x # k
    <2>1. x > 1 /\ x - 1 \in DOMAIN rs /\ k <= x - 1 /\ x - 1 \notin T
      BY <1>1, <1>3, <1>4, <1>7
    <2>2. IsPrefix(rs[k].record_hash, rs[x - 1].record_hash)
      BY <2>1
    <2>3. rs[x].record_hash = Append(rs[x - 1].record_hash, preimage_fields(rs[x].fields))
      BY <1>4, <2>1 DEF Diagnosis, WalkHash, compute_record_hash
    <2>4. rs[x - 1].record_hash \in Hashes
      BY <2>1, RowParts
    <2>5. preimage_fields(rs[x].fields) \in Preimages
      BY <1>5, <2>4, HashTypes
    <2>6. IsPrefix(rs[x - 1].record_hash, rs[x].record_hash)
      BY <2>3, <2>4, <2>5, PrefixOfAppend DEF Hashes
    <2>. QED
      BY <1>4, <1>5, <2>2, <2>4, <2>6, PrefixTransitive DEF Hashes
  <1>. QED
    BY <1>6, <1>7

----------------------------------------------------------------------------
(* The inductive invariant of the table, in parts.                          *)

Typed == rows \in Seq(Row) /\ written \in SUBSET Row /\ damage \in Nat

\* A record as it leaves its writer, in the layout it names.
IsSealed(w) ==
    w.record_hash = IF w.fields.binding_version <= RECORD_BINDING_CURRENT
                    THEN compute_record_hash(w.fields, w.previous_hash)
                    ELSE Append(w.previous_hash, [newer |-> w.fields])
WrittenIsSealed == \A w \in written : IsSealed(w)

\* An alteration makes no hash that a writer did not make.
HashesAreWritten(rs) ==
    \A i \in DOMAIN rs : \E w \in written : rs[i].record_hash = w.record_hash

\* A table nobody altered is one chain of what was written.
Untouched ==
    damage = 0 =>
        \A i \in DOMAIN rows : rows[i] \in written /\ rows[i].previous_hash = WalkHash(rows, i)

TInv == Typed /\ WrittenIsSealed /\ HashesAreWritten(rows) /\ Untouched

LEMMA InitTInv == TableInit => TInv
  <1> SUFFICES ASSUME TableInit PROVE TInv
    OBVIOUS
  <1>1. rows = << >> /\ written = {} /\ damage = 0
    BY DEF TableInit
  <1>. QED
    BY <1>1 DEF TInv, Typed, WrittenIsSealed, HashesAreWritten, Untouched

\* A writer adds a record that is sealed onto the hash it knows, one longer.
LEMMA GrowAdds ==
  ASSUME NEW h \in Hashes, Grow(h)
  PROVE  \E r \in Row :
            /\ rows' = Append(rows, r) /\ written' = written \cup {r} /\ UNCHANGED damage
            /\ r.previous_hash = h /\ IsSealed(r) /\ IsStrictPrefix(h, r.record_hash)
  <1>1. PICK b \in Bodies : Write(b, h) \/ WriteNewer(b, h)
    BY DEF Grow
  <1>2. b \in Fields /\ b.binding_version \in Int
    BY BodiesAssumption DEF Fields
  <1>3. ASSUME NEW x \in Preimages PROVE IsStrictPrefix(h, Append(h, x))
    <2>1. IsPrefix(h, Append(h, x)) /\ Len(Append(h, x)) = Len(h) + 1 /\ Len(h) \in Nat
      BY PrefixOfAppend DEF Hashes
    <2>. QED
      BY <2>1 DEF IsStrictPrefix
  <1>4. CASE Write(b, h)
    <2> DEFINE r == Sealed(b, h)
    <2>1. r.fields = b /\ r.previous_hash = h /\ r.record_hash = compute_record_hash(b, h)
      BY DEF Sealed
    <2>2. r \in Row
      BY <1>2, HashTypes DEF Sealed, Row
    <2>3. /\ rows' = Append(rows, r) /\ written' = written \cup {r} /\ UNCHANGED damage
          /\ b.binding_version <= RECORD_BINDING_CURRENT
      BY <1>4 DEF Write, Stored
    <2>4. IsStrictPrefix(h, compute_record_hash(b, h))
      BY <1>2, <1>3, HashTypes DEF compute_record_hash
    <2> HIDE DEF r
    <2>. QED
      BY <2>1, <2>2, <2>3, <2>4 DEF IsSealed
  <1>5. CASE WriteNewer(b, h)
    <2> DEFINE r == [fields |-> b, previous_hash |-> h, record_hash |-> Append(h, [newer |-> b])]
    <2>1. r.fields = b /\ r.previous_hash = h /\ r.record_hash = Append(h, [newer |-> b])
      OBVIOUS
    <2>2. r \in Row
      BY <1>2, HashTypes DEF Row
    <2>3. /\ rows' = Append(rows, r) /\ written' = written \cup {r} /\ UNCHANGED damage
          /\ ~ (b.binding_version <= RECORD_BINDING_CURRENT)
      BY <1>2, <1>5 DEF WriteNewer, Stored, RECORD_BINDING_CURRENT
    <2>4. IsStrictPrefix(h, Append(h, [newer |-> b]))
      BY <1>2, <1>3, HashTypes
    <2> HIDE DEF r
    <2>. QED
      BY <2>1, <2>2, <2>3, <2>4 DEF IsSealed
  <1>. QED
    BY <1>1, <1>4, <1>5

LEMMA HeadIsHash ==
  ASSUME Typed PROVE HeadHash \in Hashes
  <1>1. CASE rows = << >>
    BY <1>1 DEF HeadHash, GENESIS_HASH, Hashes
  <1>2. CASE rows # << >>
    <2>1. rows \in Seq(Row) /\ Len(rows) \in DOMAIN rows
      BY <1>2 DEF Typed
    <2>2. rows[Len(rows)].record_hash \in Hashes
      BY <2>1, RowParts
    <2>. QED
      BY <1>2, <2>2 DEF HeadHash, Last
  <1>. QED
    BY <1>1, <1>2

\* The writer knows the last row of a table nobody altered; of another one it may
\* know anything.
LEMMA GrowStep ==
  ASSUME TInv, NEW h \in Hashes, Grow(h), damage = 0 => h = HeadHash
  PROVE  TInv'
  <1>1. PICK r \in Row :
            /\ rows' = Append(rows, r) /\ written' = written \cup {r} /\ UNCHANGED damage
            /\ r.previous_hash = h /\ IsSealed(r)
    BY GrowAdds
  <1> DEFINE n == Len(rows)
  <1>2. /\ rows \in Seq(Row) /\ n \in Nat /\ DOMAIN rows = 1..n
        /\ DOMAIN rows' = 1..(n + 1) /\ rows' \in Seq(Row)
        /\ rows'[n + 1] = r /\ \A i \in 1..n : rows'[i] = rows[i]
    BY <1>1 DEF TInv, Typed
  <1>3. \A i \in 1..(n + 1) : i = n + 1 \/ i \in 1..n
    BY <1>2
  <1>4. Typed' /\ WrittenIsSealed'
    BY <1>1, <1>2 DEF TInv, Typed, WrittenIsSealed, IsSealed
  <1>5. HashesAreWritten(rows)'
    BY <1>1, <1>2, <1>3 DEF TInv, HashesAreWritten
  <1>6. ASSUME damage = 0, NEW i \in 1..(n + 1)
        PROVE  rows'[i] \in written' /\ rows'[i].previous_hash = WalkHash(rows', i)
    <2>1. CASE i = n + 1
      <3>1. CASE rows = << >>
        <4>1. n = 0 /\ h = GENESIS_HASH
          BY <1>6, <3>1 DEF HeadHash
        <4>. QED
          BY <1>1, <1>2, <2>1, <4>1 DEF WalkHash
      <3>2. CASE rows # << >>
        <4>1. n \in 1..n /\ n + 1 # 1 /\ (n + 1) - 1 = n
          BY <1>2, <3>2
        <4>2. h = rows[n].record_hash
          BY <1>6, <3>2 DEF HeadHash, Last
        <4>3. WalkHash(rows', n + 1) = rows'[n].record_hash
          BY <4>1 DEF WalkHash
        <4>. QED
          BY <1>1, <1>2, <2>1, <4>1, <4>2, <4>3
      <3>. QED
        BY <3>1, <3>2
    <2>2. CASE i \in 1..n
      <3>1. rows[i] \in written /\ rows[i].previous_hash = WalkHash(rows, i)
        BY <1>2, <1>6, <2>2 DEF TInv, Untouched
      <3>2. i # 1 => i - 1 \in 1..n
        BY <1>2, <2>2
      <3>3. WalkHash(rows', i) = WalkHash(rows, i)
        BY <1>2, <3>2 DEF WalkHash
      <3>. QED
        BY <1>1, <1>2, <2>2, <3>1, <3>3
    <2>. QED
      BY <1>3, <2>1, <2>2
  <1>7. Untouched'
    BY <1>1, <1>2, <1>6 DEF Untouched
  <1>. QED
    BY <1>4, <1>5, <1>7 DEF TInv

LEMMA AlterStep ==
  ASSUME TInv, Alter
  PROVE  TInv' /\ UNCHANGED written /\ damage' # 0
  <1> SUFFICES ASSUME NEW i \in DOMAIN rows,
                      Delete(i) \/ \E b \in Edits : Edit(i, b)
               PROVE  TInv' /\ UNCHANGED written /\ damage' # 0
    BY DEF Alter
  <1>1. rows \in Seq(Row) /\ damage \in Nat
    BY DEF TInv, Typed
  <1>2. UNCHANGED written /\ damage' = damage + 1
    BY DEF Delete, Edit
  <1>3. damage' \in Nat /\ damage' # 0
    BY <1>1, <1>2
  <1>4. rows' \in Seq(Row) /\ \A k \in DOMAIN rows' :
           \E j \in DOMAIN rows : rows'[k].record_hash = rows[j].record_hash
    <2>1. CASE Delete(i)
      <3>1. rows' = RemoveAt(rows, i)
        BY <2>1 DEF Delete
      <3>2. /\ rows' \in Seq(Row)
            /\ \A k \in DOMAIN rows' : \E j \in DOMAIN rows : rows'[k] = rows[j]
        BY <1>1, <3>1, RemoveAtElements
      <3>. QED
        BY <3>2
    <2>2. ASSUME NEW b \in Edits, Edit(i, b)
          PROVE  /\ rows' \in Seq(Row)
                 /\ \A k \in DOMAIN rows' : k \in DOMAIN rows /\ rows'[k].record_hash = rows[k].record_hash
      <3>1. rows' = [rows EXCEPT ![i].fields = b]
        BY <2>2 DEF Edit
      <3>2. rows[i] \in Row /\ b \in Fields
        BY <1>1, RowParts DEF Fields
      <3>3. [rows[i] EXCEPT !.fields = b] \in Row
            /\ [rows[i] EXCEPT !.fields = b].record_hash = rows[i].record_hash
        BY <3>2 DEF Row
      <3>4. rows' = [rows EXCEPT ![i] = [rows[i] EXCEPT !.fields = b]]
        BY <3>1
      <3>. QED
        BY <1>1, <3>3, <3>4
    <2>. QED
      BY <2>1, <2>2
  <1>5. HashesAreWritten(rows)'
    BY <1>2, <1>4 DEF TInv, HashesAreWritten
  <1>. QED
    BY <1>2, <1>3, <1>4, <1>5 DEF TInv, Typed, WrittenIsSealed, IsSealed, Untouched

LEMMA IdleTable ==
  ASSUME TInv, UNCHANGED tableVars PROVE TInv'
  BY DEF tableVars, TInv, Typed, WrittenIsSealed, IsSealed, HashesAreWritten, Untouched, WalkHash

----------------------------------------------------------------------------
(* What the invariant says of verify.                                       *)

\* A row that agrees with the written one in what is bound is the written one to
\* BoundFieldsKept.
LEMMA KeptIsSameBound ==
  ASSUME NEW r, NEW q
  PROVE  BoundFieldsKept(r, q) <=>
            /\ r.previous_hash = q.previous_hash /\ r.record_hash = q.record_hash
            /\ SameBound(r.fields, q.fields)
  BY DEF BoundFieldsKept, SameBound

\* A row whose own hash is right is every sealed record that has this hash.
LEMMA OneHashOneRecord ==
  ASSUME NEW r \in Row, NEW w \in Row, IsSealed(w), r.record_hash = w.record_hash,
         r.record_hash = compute_record_hash(r.fields, r.previous_hash)
  PROVE  BoundFieldsKept(r, w)
  <1>1. /\ r.fields \in Fields /\ r.previous_hash \in Hashes
        /\ w.fields \in Fields /\ w.previous_hash \in Hashes
    BY DEF Row
  <1>2. r.record_hash = Append(r.previous_hash, preimage_fields(r.fields))
    BY DEF compute_record_hash
  <1>3. /\ preimage_fields(r.fields) \in Preimages
        /\ preimage_fields(w.fields) \in Preimages /\ [newer |-> w.fields] \in Preimages
    BY <1>1, HashTypes
  <1>4. CASE ~ (w.fields.binding_version <= RECORD_BINDING_CURRENT)
    <2>1. Append(r.previous_hash, preimage_fields(r.fields))
            = Append(w.previous_hash, [newer |-> w.fields])
      BY <1>2, <1>4 DEF IsSealed
    <2>2. preimage_fields(r.fields) = [newer |-> w.fields]
      BY <1>1, <1>3, <2>1, HashesBind
    <2>. QED
      BY <2>2, NewerIsApart
  <1>5. CASE w.fields.binding_version <= RECORD_BINDING_CURRENT
    <2>1. Append(r.previous_hash, preimage_fields(r.fields))
            = Append(w.previous_hash, preimage_fields(w.fields))
      BY <1>2, <1>5 DEF IsSealed, compute_record_hash
    <2>2. r.previous_hash = w.previous_hash /\ preimage_fields(r.fields) = preimage_fields(w.fields)
      BY <1>1, <1>3, <2>1, HashesBind
    <2>3. SameBound(r.fields, w.fields)
      BY <1>1, <2>2, PreimageBinds
    <2>. QED
      BY <2>2, <2>3, KeptIsSameBound
  <1>. QED
    BY <1>4, <1>5

\* A row of known layout, linked to the row before it and with the hash of its fields.
LEMMA GoodRow ==
  ASSUME NEW rs \in Seq(Row), verify(rs) = "ok", NEW i \in DOMAIN rs
  PROVE  /\ rs[i] \in Row
         /\ rs[i].fields.binding_version <= RECORD_BINDING_CURRENT
         /\ rs[i].previous_hash = WalkHash(rs, i)
         /\ rs[i].record_hash = compute_record_hash(rs[i].fields, rs[i].previous_hash)
  <1>1. Diagnosis(rs, i) = "ok"
    BY VerifyWalks
  <1>2. rs[i] \in Row /\ rs[i].fields.binding_version \in Int
    BY RowParts
  <1>. QED
    BY <1>1, <1>2 DEF Diagnosis, RECORD_BINDING_CURRENT

\* Rows that verify, and whose hashes writers made, are written ones in their places.
LEMMA GoodIsWritten ==
  ASSUME Typed, WrittenIsSealed, NEW rs \in Seq(Row), HashesAreWritten(rs),
         verify(rs) = "ok", NEW i \in DOMAIN rs
  PROVE  \E w \in written : BoundFieldsKept(rs[i], w) /\ w.previous_hash = WalkHash(rs, i)
  <1>1. PICK w \in written : rs[i].record_hash = w.record_hash
    BY DEF HashesAreWritten
  <1>2. w \in Row /\ IsSealed(w)
    BY DEF Typed, WrittenIsSealed
  <1>3. BoundFieldsKept(rs[i], w)
    BY <1>1, <1>2, GoodRow, OneHashOneRecord
  <1>. QED
    BY <1>3, GoodRow, KeptIsSameBound

\* A row that is a written one in its place is good, or of a newer layout.
LEMMA WrittenIsGood ==
  ASSUME NEW rs \in Seq(Row), NEW i \in DOMAIN rs, NEW w \in Row, IsSealed(w),
         BoundFieldsKept(rs[i], w), w.previous_hash = WalkHash(rs, i)
  PROVE  Diagnosis(rs, i) = IF rs[i].fields.binding_version > RECORD_BINDING_CURRENT
                            THEN "newer" ELSE "ok"
  <1>1. /\ rs[i].previous_hash = WalkHash(rs, i)
        /\ rs[i].record_hash = w.record_hash /\ SameBound(rs[i].fields, w.fields)
    BY KeptIsSameBound
  <1>2. /\ rs[i].fields \in Fields /\ w.fields \in Fields
        /\ rs[i].fields.binding_version \in Int /\ w.fields.binding_version \in Int
    BY RowParts, BodiesAssumption DEF Row, Fields
  <1>3. ASSUME ~ (rs[i].fields.binding_version > RECORD_BINDING_CURRENT)
        PROVE  rs[i].record_hash = compute_record_hash(rs[i].fields, WalkHash(rs, i))
    <2>1. w.fields.binding_version <= RECORD_BINDING_CURRENT
      BY <1>1, <1>2, <1>3 DEF SameBound, SameLayout, RECORD_BINDING_CURRENT
    <2>2. w.record_hash = compute_record_hash(w.fields, w.previous_hash)
      BY <2>1 DEF IsSealed
    <2>3. preimage_fields(rs[i].fields) = preimage_fields(w.fields)
      BY <1>1, <1>2, PreimageBinds
    <2>. QED
      BY <1>1, <2>2, <2>3 DEF compute_record_hash
  <1>. QED
    BY <1>1, <1>3 DEF Diagnosis

LEMMA TInvExact == TInv => VerifyIsExact
  <1> SUFFICES ASSUME TInv PROVE VerifyIsExact
    OBVIOUS
  <1>1. Typed /\ WrittenIsSealed /\ HashesAreWritten(rows) /\ rows \in Seq(Row)
    BY DEF TInv, Typed
  <1>2. ASSUME verify(rows) = "ok", NEW i \in DOMAIN rows
        PROVE  /\ rows[i].fields.binding_version <= RECORD_BINDING_CURRENT
               /\ \E w \in written : BoundFieldsKept(rows[i], w) /\ w.previous_hash = WalkHash(rows, i)
    BY <1>1, <1>2, GoodRow, GoodIsWritten
  <1>3. ASSUME NEW i \in DOMAIN rows,
               rows[i].fields.binding_version <= RECORD_BINDING_CURRENT,
               NEW w \in written, BoundFieldsKept(rows[i], w), w.previous_hash = WalkHash(rows, i)
        PROVE  Diagnosis(rows, i) = "ok"
    <2>1. ~ (rows[i].fields.binding_version > RECORD_BINDING_CURRENT)
      BY <1>1, <1>3, RowParts DEF RECORD_BINDING_CURRENT
    <2>2. w \in Row /\ IsSealed(w)
      BY <1>1 DEF Typed, WrittenIsSealed
    <2>. QED
      BY <1>1, <1>3, <2>1, <2>2, WrittenIsGood
  <1>4. verify(rows) = "ok" <=> \A i \in DOMAIN rows : Diagnosis(rows, i) = "ok"
    BY <1>1, VerifyWalks
  <1>. QED
    BY <1>2, <1>3, <1>4 DEF VerifyIsExact

\* A written hash that a row of a good table commits to is the hash of the row at the
\* place its length names.
LEMMA TInvEnds == TInv => OnlyEndsGoUnnoticed
  <1> SUFFICES ASSUME TInv, verify(rows) = "ok", NEW w \in written, NEW i \in DOMAIN rows,
                      IsPrefix(w.record_hash, rows[i].record_hash)
               PROVE  \E j \in DOMAIN rows : BoundFieldsKept(rows[j], w)
    BY DEF OnlyEndsGoUnnoticed
  <1>1. /\ rows \in Seq(Row) /\ Len(rows) \in Nat /\ DOMAIN rows = 1..Len(rows)
        /\ w \in Row /\ IsSealed(w)
    BY DEF TInv, Typed, WrittenIsSealed
  <1>2. \A k \in DOMAIN rows : Diagnosis(rows, k) = "ok"
    BY <1>1, VerifyWalks
  <1>3. \A k \in DOMAIN rows : Len(rows[k].record_hash) = k
    BY <1>1, <1>2, GoodLengths
  <1> DEFINE n == Len(w.record_hash)
  <1>4. w.record_hash \in Hashes /\ rows[i].record_hash \in Hashes /\ n \in Nat
    <2>1. w.record_hash \in Hashes
      BY <1>1 DEF Row
    <2>2. rows[i].record_hash \in Hashes
      BY <1>1, RowParts
    <2>. QED
      BY <2>1, <2>2 DEF Hashes
  <1>5. n > 0
    <2>1. w.fields \in Fields /\ w.previous_hash \in Hashes /\ Len(w.previous_hash) \in Nat
      BY <1>1 DEF Row, Hashes
    <2>. QED
      BY <1>1, <2>1, HashTypes DEF IsSealed
  <1>6. n <= i /\ \A k \in 1..n : w.record_hash[k] = rows[i].record_hash[k]
    BY <1>3, <1>4, PrefixElements DEF Hashes
  <1>7. n \in DOMAIN rows
    BY <1>1, <1>4, <1>5, <1>6
  <1>8. rows[n].record_hash \in Hashes /\ Len(rows[n].record_hash) = n
    BY <1>1, <1>3, <1>7, RowParts
  <1>9. IsPrefix(rows[n].record_hash, rows[i].record_hash)
    BY <1>1, <1>2, <1>6, <1>7, GoodPrefixes
  <1>10. \A k \in 1..n : rows[n].record_hash[k] = rows[i].record_hash[k]
    BY <1>4, <1>8, <1>9, PrefixElements DEF Hashes
  <1>11. rows[n].record_hash = w.record_hash
    <2>1. \A k \in 1..n : rows[n].record_hash[k] = w.record_hash[k]
      BY <1>6, <1>10
    <2>2. /\ rows[n].record_hash \in Seq(Preimages) /\ w.record_hash \in Seq(Preimages)
          /\ Len(rows[n].record_hash) = Len(w.record_hash)
      BY <1>4, <1>8 DEF Hashes
    <2>. QED
      BY <2>1, <2>2, SeqEqual
  <1>12. BoundFieldsKept(rows[n], w)
    BY <1>1, <1>7, <1>11, GoodRow, OneHashOneRecord
  <1>. QED
    BY <1>7, <1>12

LEMMA TInvFair == TInv => NoFalseAccusation
  <1> SUFFICES ASSUME TInv, damage = 0 PROVE verify(rows) \in {"ok", "newer"}
    BY DEF NoFalseAccusation
  <1>1. rows \in Seq(Row)
    BY DEF TInv, Typed
  <1>2. ASSUME NEW i \in DOMAIN rows PROVE Diagnosis(rows, i) \in {"ok", "newer"}
    <2>1. /\ rows[i] \in Row /\ IsSealed(rows[i]) /\ rows[i].previous_hash = WalkHash(rows, i)
      BY <1>1 DEF TInv, Typed, WrittenIsSealed, Untouched
    <2>2. BoundFieldsKept(rows[i], rows[i])
      BY DEF BoundFieldsKept, SameLayout
    <2>. QED
      BY <1>1, <2>1, <2>2, WrittenIsGood
  <1>. QED
    BY <1>1, <1>2, VerifyWalks

----------------------------------------------------------------------------
(* The inductive invariant of the snapshot, in parts.                       *)

\* The process holds rows whose hashes writers made, and the table itself as long as
\* nobody altered it: what the process appends goes to both.
Loading ==
    /\ step \in {"idle", "verify", "sign", "finish", "done"}
    /\ step # "idle" => loaded # NotLoaded
    /\ loaded # NotLoaded =>
         /\ loaded \in Seq(Row) /\ HashesAreWritten(loaded)
         /\ damage = 0 => loaded = rows

\* The records of the document are among those the process holds.
Collected ==
    step # "idle" =>
        \A i \in DOMAIN document.records : \E k \in DOMAIN loaded : document.records[i] = loaded[k]

\* r is as it was written, and the last hash of the process commits to it.
Genuine(r) ==
    /\ r.record_hash \in Hashes /\ IsPrefix(r.record_hash, latest_hash)
    /\ \E w \in written : BoundFieldsKept(r, w)

\* Once the chain was found valid, the records collected before are genuine.
Vouched ==
    step \in {"sign", "finish", "done"} /\ document.valid =>
        \A i \in DOMAIN document.records : Genuine(document.records[i])

\* What was signed is the document with a latest hash of now or of a shorter chain.
Signed ==
    step \in {"finish", "done"} =>
        LET h == document.snapshot_hash.latest_hash
        IN  /\ document.snapshot_hash = Payload(document, h) /\ h \in Hashes
            /\ h = latest_hash \/ IsStrictPrefix(h, latest_hash)

Finished == step = "done" => document.latest_hash = latest_hash

SInv == TInv /\ Loading /\ Collected /\ Vouched /\ Signed /\ Finished

\* No table is the value that says that none is loaded.
LEMMA RowsAreLoaded ==
  ASSUME NEW rs \in Seq(Row) PROVE rs # NotLoaded
  <1> SUFFICES ASSUME rs = NotLoaded PROVE FALSE
    OBVIOUS
  <1>1. Len(rs) = 1 /\ rs[1] = << >>
    BY DEF NotLoaded
  <1>2. 1 \in DOMAIN rs
    BY <1>1
  <1>3. rs[1] \in Row
    BY <1>2
  <1>4. "fields" \in DOMAIN rs[1]
    BY <1>3 DEF Row
  <1>5. DOMAIN << >> = {}
    OBVIOUS
  <1>. QED
    BY <1>1, <1>4, <1>5

LEMMA LatestIsHash ==
  ASSUME loaded \in Seq(Row) PROVE latest_hash \in Hashes
  <1>1. CASE loaded = << >>
    BY <1>1 DEF latest_hash, GENESIS_HASH, Hashes
  <1>2. CASE loaded # << >>
    <2>1. Len(loaded) \in DOMAIN loaded
      BY <1>2
    <2>2. loaded[Len(loaded)].record_hash \in Hashes
      BY <2>1, RowParts
    <2>. QED
      BY <1>2, <2>2 DEF latest_hash, Last
  <1>. QED
    BY <1>1, <1>2

LEMMA InitSInv == SnapshotInit => SInv
  BY InitTInv DEF SnapshotInit, SInv, Loading, Collected, Vouched, Signed, Finished

\* Before a process has loaded the table there is no document to speak of.
LEMMA EarlierWriterStep ==
  ASSUME SInv, loaded = NotLoaded, Grow(HeadHash), UNCHANGED <<loaded, step, document>>
  PROVE  SInv'
  <1>1. TInv'
    BY HeadIsHash, GrowStep DEF SInv, TInv
  <1>2. step = "idle"
    BY DEF SInv, Loading
  <1>. QED
    BY <1>1, <1>2 DEF SInv, Loading, Collected, Vouched, Signed, Finished

\* An alteration of the table does not reach the memory of the process.
LEMMA AlterationStep ==
  ASSUME SInv, Alter, UNCHANGED <<loaded, step, document>>
  PROVE  SInv'
  <1>1. TInv' /\ UNCHANGED written /\ damage' # 0
    BY AlterStep DEF SInv
  <1>2. Loading' /\ Collected' /\ Finished'
    BY <1>1 DEF SInv, Loading, HashesAreWritten, Collected, Finished, latest_hash
  <1>3. latest_hash' = latest_hash
    BY DEF latest_hash
  <1>4. \A d : Genuine(d) => Genuine(d)'
    BY <1>1, <1>3 DEF Genuine
  <1>5. Vouched'
    BY <1>4 DEF SInv, Vouched
  <1>6. Signed'
    BY <1>3 DEF SInv, Signed, Payload
  <1>. QED
    BY <1>1, <1>2, <1>5, <1>6 DEF SInv

LEMMA LoadStep == SInv /\ Load => SInv'
  <1> SUFFICES ASSUME SInv, Load PROVE SInv'
    OBVIOUS
  <1>1. TInv /\ TInv'
    BY IdleTable DEF SInv, Load
  <1>2. step = "idle" /\ step' = "idle" /\ loaded' = rows /\ UNCHANGED <<rows, written, damage>>
    BY DEF SInv, Loading, Load, tableVars
  <1>3. Loading'
    BY <1>1, <1>2 DEF Loading, TInv, Typed, HashesAreWritten
  <1>. QED
    BY <1>1, <1>2, <1>3 DEF SInv, Collected, Vouched, Signed, Finished

\* Growing keeps what a genuine record is and lengthens what is signed.
LEMMA AppendStep == SInv /\ AppendWhileServing => SInv'
  <1> SUFFICES ASSUME SInv, AppendWhileServing PROVE SInv'
    OBVIOUS
  <1>1. /\ TInv /\ loaded \in Seq(Row) /\ HashesAreWritten(loaded)
        /\ damage = 0 => loaded = rows
        /\ Grow(latest_hash) /\ loaded' = Append(loaded, Last(rows'))
        /\ UNCHANGED <<step, document>> /\ step # "done" /\ loaded # NotLoaded
    BY DEF SInv, Loading, AppendWhileServing
  <1>2. latest_hash \in Hashes
    BY <1>1, LatestIsHash
  <1>3. damage = 0 => latest_hash = HeadHash
    BY <1>1 DEF latest_hash, HeadHash
  <1>4. TInv'
    BY <1>1, <1>2, <1>3, GrowStep
  <1>5. PICK r \in Row :
            /\ rows' = Append(rows, r) /\ written' = written \cup {r} /\ UNCHANGED damage
            /\ IsStrictPrefix(latest_hash, r.record_hash)
    BY <1>1, <1>2, GrowAdds
  <1>6. loaded' = Append(loaded, r)
    <2>1. rows \in Seq(Row)
      BY <1>1 DEF TInv, Typed
    <2>2. Last(rows') = r
      BY <1>5, <2>1 DEF Last
    <2>. QED
      BY <1>1, <2>2
  <1>7. /\ Len(loaded) \in Nat /\ DOMAIN loaded = 1..Len(loaded)
        /\ loaded' \in Seq(Row) /\ loaded' # << >> /\ Len(loaded') = Len(loaded) + 1
        /\ DOMAIN loaded' = 1..(Len(loaded) + 1)
        /\ loaded'[Len(loaded) + 1] = r
        /\ \A k \in DOMAIN loaded : k \in DOMAIN loaded' /\ loaded'[k] = loaded[k]
    BY <1>1, <1>6
  <1>8. \A k \in DOMAIN loaded' : k = Len(loaded) + 1 \/ k \in DOMAIN loaded
    BY <1>7
  <1>9. latest_hash' = r.record_hash /\ latest_hash' \in Hashes
    BY <1>7 DEF latest_hash, Last, Row
  <1>10. IsStrictPrefix(latest_hash, latest_hash')
    BY <1>5, <1>9
  <1>11. \A h \in Hashes : IsPrefix(h, latest_hash) => IsStrictPrefix(h, latest_hash')
    <2> SUFFICES ASSUME NEW h \in Hashes, IsPrefix(h, latest_hash)
                 PROVE  IsStrictPrefix(h, latest_hash')
      OBVIOUS
    <2>1. IsPrefix(latest_hash, latest_hash') /\ latest_hash # latest_hash'
      BY <1>10 DEF IsStrictPrefix
    <2>2. IsPrefix(h, latest_hash')
      BY <1>2, <1>9, <2>1, PrefixTransitive DEF Hashes
    <2>3. h # latest_hash'
      <3> SUFFICES ASSUME h = latest_hash' PROVE FALSE
        OBVIOUS
      <3>1. /\ latest_hash \in Seq(Preimages) /\ latest_hash' \in Seq(Preimages)
            /\ IsPrefix(latest_hash, latest_hash') /\ IsPrefix(latest_hash', latest_hash)
        BY <1>2, <1>9, <2>1 DEF Hashes
      <3>2. Len(latest_hash) = Len(latest_hash')
        BY <3>1 DEF IsPrefix
      <3>3. \A i \in 1..Len(latest_hash) : latest_hash[i] = latest_hash'[i]
        BY <3>1, PrefixElements
      <3>. QED
        BY <2>1, <3>1, <3>2, <3>3
    <2>. QED
      BY <2>2, <2>3 DEF IsStrictPrefix
  <1>12. HashesAreWritten(loaded)'
    BY <1>1, <1>5, <1>7, <1>8 DEF HashesAreWritten
  <1>13. (damage = 0 => loaded = rows)'
    BY <1>1, <1>5, <1>6
  <1>14. Loading' /\ Collected'
    <2>1. loaded' # NotLoaded
      BY <1>7, RowsAreLoaded
    <2>. QED
      BY <1>1, <1>7, <1>12, <1>13, <2>1 DEF SInv, Loading, Collected
  <1>15. Vouched'
    <2>1. \A d : Genuine(d) => Genuine(d)'
      BY <1>5, <1>11 DEF Genuine, IsStrictPrefix
    <2>. QED
      BY <1>1, <2>1 DEF SInv, Vouched
  <1>16. Signed'
    <2> SUFFICES ASSUME step = "finish"
                 PROVE  Signed'
      BY <1>1 DEF Signed
    <2> DEFINE h == document.snapshot_hash.latest_hash
    <2>1. /\ document.snapshot_hash = Payload(document, h) /\ h \in Hashes
          /\ h = latest_hash \/ IsStrictPrefix(h, latest_hash)
      BY DEF SInv, Signed
    <2>2. IsPrefix(latest_hash, latest_hash)
      BY <1>2, PrefixElements DEF Hashes
    <2>3. IsPrefix(h, latest_hash)
      BY <2>1, <2>2 DEF IsStrictPrefix
    <2>4. IsStrictPrefix(h, latest_hash')
      BY <1>11, <2>1, <2>3
    <2>. QED
      BY <1>1, <2>1, <2>4 DEF Signed, Payload
  <1>17. Finished'
    BY <1>1 DEF Finished
  <1>. QED
    BY <1>4, <1>14, <1>15, <1>16, <1>17 DEF SInv

\* A step of generate leaves the table and the process's copy alone.
LEMMA TableAlone ==
  ASSUME SInv, UNCHANGED <<tableVars, loaded>>
  PROVE  /\ TInv' /\ latest_hash' = latest_hash /\ \A d : Genuine(d) => Genuine(d)'
         /\ HashesAreWritten(loaded) => HashesAreWritten(loaded)'
  <1>1. TInv'
    BY IdleTable DEF SInv
  <1>2. latest_hash' = latest_hash /\ written' = written
    BY DEF latest_hash, tableVars
  <1>. QED
    BY <1>1, <1>2 DEF Genuine, HashesAreWritten

LEMMA GetRecordsStep ==
  ASSUME SInv, NEW range \in Ranges(Len(loaded)), GetRecords(range)
  PROVE  SInv'
  <1>1. /\ loaded # NotLoaded /\ step' = "verify"
        /\ document'.records = SubSeq(loaded, range[1], range[2])
        /\ UNCHANGED <<tableVars, loaded>>
    BY DEF GetRecords
  <1>2. loaded \in Seq(Row) /\ Len(loaded) \in Nat /\ DOMAIN loaded = 1..Len(loaded)
    BY <1>1 DEF SInv, Loading
  <1>3. PICK a \in {1, 2}, b \in {Len(loaded), Len(loaded) - 1} :
            document'.records = SubSeq(loaded, a, b)
    BY <1>1 DEF Ranges
  <1>4. \A i \in DOMAIN SubSeq(loaded, a, b) :
            /\ a + i - 1 \in DOMAIN loaded
            /\ SubSeq(loaded, a, b)[i] = loaded[a + i - 1]
    BY <1>2
  <1>5. Collected'
    <2> SUFFICES ASSUME NEW i \in DOMAIN document'.records
                 PROVE  \E k \in DOMAIN loaded : document'.records[i] = loaded[k]
      BY <1>1 DEF Collected
    <2>1. document'.records[i] = loaded[a + i - 1] /\ a + i - 1 \in DOMAIN loaded
      BY <1>3, <1>4
    <2>. QED
      BY <2>1
  <1>6. TInv' /\ Loading'
    BY <1>1, TableAlone DEF SInv, Loading, tableVars
  <1>. QED
    BY <1>1, <1>5, <1>6 DEF SInv, Vouched, Signed, Finished

\* The verification may find a longer chain than the one the records came from:
\* every record of it is genuine.
LEMMA VerifyChainStep == SInv /\ VerifyChain => SInv'
  <1> SUFFICES ASSUME SInv, VerifyChain PROVE SInv'
    OBVIOUS
  <1>1. /\ step = "verify" /\ step' = "sign" /\ loaded # NotLoaded
        /\ document'.records = document.records /\ document'.valid = (verify(loaded) = "ok")
        /\ UNCHANGED <<tableVars, loaded>>
    BY DEF SInv, Loading, VerifyChain
  <1>2. /\ loaded \in Seq(Row) /\ Len(loaded) \in Nat /\ DOMAIN loaded = 1..Len(loaded)
        /\ HashesAreWritten(loaded) /\ Typed /\ WrittenIsSealed
    BY <1>1 DEF SInv, TInv, Loading
  <1>3. ASSUME verify(loaded) = "ok", NEW k \in DOMAIN loaded PROVE Genuine(loaded[k])
    <2>1. \E w \in written : BoundFieldsKept(loaded[k], w)
      BY <1>2, <1>3, GoodIsWritten
    <2> DEFINE n == Len(loaded)
    <2>2. n \in DOMAIN loaded /\ k <= n /\ loaded # << >>
      BY <1>2
    <2>3. \A i \in DOMAIN loaded : Diagnosis(loaded, i) = "ok"
      BY <1>2, <1>3, VerifyWalks
    <2>4. IsPrefix(loaded[k].record_hash, loaded[n].record_hash)
      BY <1>2, <2>2, <2>3, GoodPrefixes
    <2>5. latest_hash = loaded[n].record_hash
      BY <2>2 DEF latest_hash, Last
    <2>6. loaded[k].record_hash \in Hashes
      BY <1>2, RowParts
    <2>. QED
      BY <2>1, <2>4, <2>5, <2>6 DEF Genuine
  <1>4. Vouched'
    <2> SUFFICES ASSUME verify(loaded) = "ok", NEW i \in DOMAIN document.records
                 PROVE  Genuine(document.records[i])
      BY <1>1, TableAlone DEF Vouched
    <2>1. PICK k \in DOMAIN loaded : document.records[i] = loaded[k]
      BY <1>1 DEF SInv, Collected
    <2>. QED
      BY <1>3, <2>1
  <1>5. TInv' /\ Loading' /\ Collected'
    BY <1>1, TableAlone DEF SInv, Loading, Collected, tableVars
  <1>. QED
    BY <1>1, <1>4, <1>5 DEF SInv, Signed, Finished

LEMMA SignPayloadStep == SInv /\ SignPayload => SInv'
  <1> SUFFICES ASSUME SInv, SignPayload PROVE SInv'
    OBVIOUS
  <1>1. /\ step = "sign" /\ step' = "finish" /\ loaded \in Seq(Row)
        /\ document'.records = document.records /\ document'.valid = document.valid
        /\ document'.snapshot_hash = Payload(document, latest_hash)
        /\ UNCHANGED <<tableVars, loaded>>
    BY DEF SInv, Loading, SignPayload
  <1>2. TInv' /\ Loading' /\ Collected'
    BY <1>1, TableAlone DEF SInv, Loading, Collected, tableVars
  <1>3. Vouched'
    BY <1>1, TableAlone DEF SInv, Vouched
  <1>4. latest_hash \in Hashes /\ latest_hash' = latest_hash
    BY <1>1, LatestIsHash, TableAlone
  <1>5. document'.snapshot_hash.latest_hash = latest_hash
    BY <1>1 DEF Payload
  <1>6. Signed'
    BY <1>1, <1>4, <1>5 DEF Signed, Payload
  <1>. QED
    BY <1>1, <1>2, <1>3, <1>6 DEF SInv, Finished

LEMMA FinishStep == SInv /\ Finish => SInv'
  <1> SUFFICES ASSUME SInv, Finish PROVE SInv'
    OBVIOUS
  <1>1. /\ step = "finish" /\ step' = "done"
        /\ document'.records = document.records /\ document'.valid = document.valid
        /\ document'.snapshot_hash = document.snapshot_hash
        /\ document'.latest_hash = latest_hash
        /\ UNCHANGED <<tableVars, loaded>>
    BY DEF Finish
  <1>2. TInv' /\ Loading' /\ Collected'
    BY <1>1, TableAlone DEF SInv, Loading, Collected, tableVars
  <1>3. Vouched'
    BY <1>1, TableAlone DEF SInv, Vouched
  <1>4. latest_hash' = latest_hash
    BY <1>1, TableAlone
  <1>5. Signed'
    BY <1>1, <1>4 DEF SInv, Signed, Payload
  <1>. QED
    BY <1>1, <1>2, <1>3, <1>4, <1>5 DEF SInv, Finished

LEMMA NextSInv == SInv /\ [SnapshotNext]_snapshotVars => SInv'
  <1> SUFFICES ASSUME SInv, [SnapshotNext]_snapshotVars PROVE SInv'
    OBVIOUS
  <1>1. CASE UNCHANGED snapshotVars
    <2>1. UNCHANGED <<tableVars, loaded>> /\ UNCHANGED <<step, document, rows, damage>>
      BY <1>1 DEF snapshotVars, tableVars
    <2>2. TInv' /\ Loading' /\ Collected' /\ Finished'
      BY <2>1, TableAlone DEF SInv, Loading, Collected, Finished
    <2>3. Vouched'
      BY <2>1, TableAlone DEF SInv, Vouched
    <2>4. Signed'
      BY <2>1, TableAlone DEF SInv, Signed, Payload
    <2>. QED
      BY <2>2, <2>3, <2>4 DEF SInv
  <1>. QED
    BY <1>1, EarlierWriterStep, AlterationStep, LoadStep, AppendStep, GetRecordsStep,
       VerifyChainStep, SignPayloadStep, FinishStep DEF SnapshotNext

LEMMA SInvSnapshot == SInv => SnapshotIsGenuine
  <1> SUFFICES ASSUME SInv, step = "done" PROVE SnapshotIsGenuine
    BY DEF SnapshotIsGenuine
  <1> DEFINE h == document.snapshot_hash.latest_hash
  <1>1. /\ document.snapshot_hash = Payload(document, h)
        /\ h = latest_hash \/ IsStrictPrefix(h, latest_hash)
        /\ document.latest_hash = latest_hash
    BY DEF SInv, Signed, Finished
  <1>2. document.valid => \A i \in DOMAIN document.records :
          /\ \E w \in written : BoundFieldsKept(document.records[i], w)
          /\ IsPrefix(document.records[i].record_hash, document.latest_hash)
    BY <1>1 DEF SInv, Vouched, Genuine
  <1>3. ~ verify_snapshot(document) => IsStrictPrefix(h, document.latest_hash)
    BY <1>1 DEF verify_snapshot
  <1>. QED
    BY <1>2, <1>3 DEF SnapshotIsGenuine

----------------------------------------------------------------------------
(* The theorems.                                                            *)

LEMMA SInvHolds == SnapshotSpec => []SInv
  BY InitSInv, NextSInv, PTL DEF SnapshotSpec

\* However long the table, whichever builds wrote to it and however it was altered
\* before and after they did, verify() says OK exactly when every row is, in every
\* field its layout binds, a record that some writer sealed onto the one before it
\* (AuditChain.verify, preimage_fields).
THEOREM VerdictsAreExact == SnapshotSpec => []VerifyIsExact
  <1>1. SInv => VerifyIsExact
    BY TInvExact DEF SInv
  <1>. QED
    BY <1>1, SInvHolds, PTL

\* What a table that verifies has lost or changed was at its end when it was lost:
\* no row still in the table was written after it (AuditChain.verify, for every
\* number of writers, alterations and rows).
THEOREM OnlyLostEndsVerify == SnapshotSpec => []OnlyEndsGoUnnoticed
  <1>1. SInv => OnlyEndsGoUnnoticed
    BY TInvEnds DEF SInv
  <1>. QED
    BY <1>1, SInvHolds, PTL

\* verify() calls no table broken or tampered with that nobody altered, also when a
\* newer build wrote to it (AuditChain.verify).
THEOREM NoTableIsFalselyAccused == SnapshotSpec => []NoFalseAccusation
  <1>1. SInv => NoFalseAccusation
    BY TInvFair DEF SInv
  <1>. QED
    BY <1>1, SInvHolds, PTL

\* A snapshot that says it is valid and verifies holds records as they were written
\* and a latest hash of their history, however the chain grew between the four
\* times generate() took its lock (SnapshotEngine.generate, verify_snapshot).
THEOREM SnapshotsAreGenuine == SnapshotSpec => []SnapshotIsGenuine
  <1>1. SInv => SnapshotIsGenuine
    BY SInvSnapshot
  <1>. QED
    BY <1>1, SInvHolds, PTL

----------------------------------------------------------------------------
(* Custody.  The inductive invariant, in parts.                             *)

\* What the locals of a thread hold at each of its labels.
Locals ==
    /\ st = [epoch |-> st.epoch, length |-> st.length, anchor_hash |-> st.anchor_hash, gap |-> st.gap]
    /\ files = [e \in 1..MaxEpoch |-> files[e]]
    /\ popped = [t \in Threads |-> popped[t]]
    /\ restarts \in Nat
    /\ \A t \in Threads : pc[t] \in {"append", "advance"} =>
         \E e \in 1..MaxEpoch, item \in Items : popped[t] = PolicyCommit(e, item)
    /\ \A t \in Threads : pc[t] = "queue" => cited[t] \in Digests /\ policy \in Digests

\* The file of an epoch holds the anchor of a prefix of the chain, linked to the
\* anchor of the epoch before.
Anchored(fs, ch, e) ==
    /\ fs[e].kind = "head" /\ fs[e].epoch = e
    /\ fs[e].prev = IF e = 1 THEN GENESIS_ANCHOR_HASH ELSE fs[e - 1].anchor_hash
    /\ fs[e].anchor_hash = compute_hash(fs[e])
    /\ fs[e].chain_length \in 1..Len(ch)
    /\ fs[e].head_hash = SubSeq(ch, 1, fs[e].chain_length)

\* The files are those of the epochs the manager has counted and, after a sink that
\* refused, perhaps the next one; the manager holds what the last counted one says.
Heads ==
    /\ \A e \in 1..MaxEpoch :
        /\ e <= st.epoch => Anchored(files, chain, e)
        /\ e = st.epoch + 1 => files[e] = NoFile \/ Anchored(files, chain, e)
        /\ e > st.epoch + 1 => files[e] = NoFile
    /\ st.epoch = 0 => st.anchor_hash = GENESIS_ANCHOR_HASH /\ st.length = 0
    /\ st.epoch # 0 => /\ st.anchor_hash = files[st.epoch].anchor_hash
                       /\ st.length = files[st.epoch].chain_length

\* Without a policy set there is nothing to commit.
NoCommits ==
    /\ queue = <<>>
    /\ \A i \in DOMAIN chain : chain[i] = Honest(NoDigest)
    /\ \A t \in Threads : /\ failed[t] = <<>> /\ cited[t] = NoDigest
                          /\ pc[t] \notin {"queue", "append", "advance"}

KInv == TypeOK /\ Locals /\ (HeadsOnly => NoCommits /\ Heads)

----------------------------------------------------------------------------
(* Types.                                                                   *)

LEMMA CustodyFacts ==
  /\ MaxEpoch \in Nat \ {0} /\ AnchorN \in Nat \ {0} /\ MaxGap \in Nat /\ MaxRecords \in Nat
  /\ NoDigest \notin Digests /\ Loop \in Threads /\ Gates \subseteq Threads
  BY CustodyAssumption DEF Threads

LEMMA TypeInit == Init => TypeOK /\ Locals
  <1> SUFFICES ASSUME Init PROVE TypeOK /\ Locals
    OBVIOUS
  <1>1. chain = <<>> /\ Len(chain) = 0 /\ queue = <<>>
    BY DEF Init
  <1>2. TypeOK
    BY <1>1, CustodyFacts DEF Init, TypeOK, Items
  <1>3. Locals
    BY CustodyFacts DEF Init, Locals
  <1>. QED
    BY <1>2, <1>3

\* A file that was written under its own epoch.
LEMMA WrittenFiles ==
  ASSUME TypeOK, Locals, NEW a, a.epoch \in 1..MaxEpoch
  PROVE  /\ Written(a) = [e \in 1..MaxEpoch |-> IF e = a.epoch THEN a ELSE files[e]]
         /\ \A e \in 1..MaxEpoch : Written(a)[e] = NoFile \/ Written(a)[e].epoch = e
  <1>1. files = [e \in 1..MaxEpoch |-> files[e]]
    BY DEF Locals
  <1>2. Written(a) = [e \in 1..MaxEpoch |-> IF e = a.epoch THEN a ELSE files[e]]
    BY <1>1 DEF Written
  <1>. QED
    BY <1>2 DEF TypeOK

LEMMA HeadAnchorFields ==
  /\ HeadAnchor = [kind |-> "head", epoch |-> st.epoch + 1, chain_length |-> Len(chain),
                   head_hash |-> chain, prev |-> st.anchor_hash, gap |-> st.gap,
                   anchor_hash |-> compute_hash(HeadAnchor)]
  /\ compute_hash(HeadAnchor) = Append(st.anchor_hash, <<st.epoch + 1, Len(chain), chain, st.gap>>)
  <1> DEFINE a == [kind |-> "head", epoch |-> st.epoch + 1, chain_length |-> Len(chain),
                   head_hash |-> chain, prev |-> st.anchor_hash, gap |-> st.gap,
                   anchor_hash |-> GENESIS_ANCHOR_HASH]
             h == Append(st.anchor_hash, <<st.epoch + 1, Len(chain), chain, st.gap>>)
  <1>1. compute_hash(a) = h
    BY DEF compute_hash
  <1>2. HeadAnchor = [a EXCEPT !.anchor_hash = h]
    BY <1>1 DEF HeadAnchor, Anchor
  <1> HIDE DEF h
  <1>3. HeadAnchor = [kind |-> "head", epoch |-> st.epoch + 1, chain_length |-> Len(chain),
                      head_hash |-> chain, prev |-> st.anchor_hash, gap |-> st.gap,
                      anchor_hash |-> h]
    BY <1>2
  <1>4. compute_hash(HeadAnchor) = h
    BY <1>3 DEF compute_hash, h
  <1>. QED
    BY <1>3, <1>4 DEF h

\* What the steps of a sink that refuses do, whether sinks may refuse or not.
LEMMA EmitFailsDoes ==
  ASSUME EmitFails
  PROVE  /\ pc[Loop] = "heads" /\ Due /\ st.epoch < MaxEpoch /\ st.gap < MaxGap
         /\ files' \in {files, Written(HeadAnchor)}
         /\ st' = [st EXCEPT !.gap = @ + 1]
         /\ pc' = [pc EXCEPT ![Loop] = "idle"]
         /\ UNCHANGED <<chain, policy, pst, queue, last, cited, popped, failed, restarts>>
  BY Zenon DEF EmitFails, Goto

LEMMA AppendCommitFailsDoes ==
  ASSUME NEW t \in Threads, AppendCommitFails(t)
  PROVE  /\ pc[t] = "append"
         /\ files' \in {files, Written(popped[t])}
         /\ failed' = [failed EXCEPT ![t] =
               Append(@, [digest |-> popped[t].digest, canonical |-> popped[t].canonical])]
         /\ popped' = [popped EXCEPT ![t] = NoCommit]
         /\ pc' = [pc EXCEPT ![t] = "drain"]
         /\ UNCHANGED <<chain, policy, manager, cited, restarts>>
  BY Zenon DEF AppendCommitFails, Goto

LEMMA PolicyCommitFields ==
  ASSUME NEW e, NEW item \in Items
  PROVE  /\ PolicyCommit(e, item).epoch = e
         /\ [digest |-> PolicyCommit(e, item).digest, canonical |-> PolicyCommit(e, item).canonical] = item
         /\ PolicyCommit(e, item).kind = "policy_commit"
  BY DEF PolicyCommit, Items

LEMMA NextEpoch ==
  ASSUME TypeOK, st.epoch < MaxEpoch
  PROVE  HeadAnchor.epoch = st.epoch + 1 /\ st.epoch + 1 \in 1..MaxEpoch
  <1>1. HeadAnchor.epoch = st.epoch + 1
    BY HeadAnchorFields
  <1>2. st.epoch + 1 \in 1..MaxEpoch
    BY CustodyFacts DEF TypeOK
  <1>. QED
    BY <1>1, <1>2

LEMMA TypeStep ==
  ASSUME TypeOK, Locals, [Next]_vars
  PROVE  TypeOK' /\ Locals'
  <1> USE CustodyFacts
  <1>1. CASE UNCHANGED vars
    BY <1>1 DEF vars, manager, threads, TypeOK, Locals
  <1>2. CASE ChangePolicy
    BY <1>2 DEF ChangePolicy, manager, threads, TypeOK, Locals
  <1>3. CASE Tick
    BY <1>3 DEF Tick, Goto, manager, TypeOK, Locals
  <1>4. CASE NotDue
    BY <1>4 DEF NotDue, Goto, manager, TypeOK, Locals
  <1>5. CASE Restart
    <2>1. Len(chain) \in Nat /\ <<>> \in Seq(Items)
      BY DEF TypeOK
    <2>. QED
      BY <1>5, <2>1 DEF Restart, FreshManager, TypeOK, Locals
  <1>6. CASE Emit
    <2>1. HeadAnchor.epoch = st.epoch + 1 /\ st.epoch + 1 \in 1..MaxEpoch
      BY <1>6, NextEpoch DEF Emit
    <2>2. /\ files' = [e \in 1..MaxEpoch |-> IF e = HeadAnchor.epoch THEN HeadAnchor ELSE files[e]]
          /\ \A e \in 1..MaxEpoch : files'[e] = NoFile \/ files'[e].epoch = e
      BY <1>6, <2>1, WrittenFiles DEF Emit
    <2>3. /\ UNCHANGED <<chain, policy, pst, queue, last, cited, popped, failed, restarts>>
          /\ st' = [epoch |-> st.epoch + 1, length |-> Len(chain),
                    anchor_hash |-> HeadAnchor.anchor_hash, gap |-> 0]
          /\ pc' = [pc EXCEPT ![Loop] = "idle"]
      BY <1>6, <2>1 DEF Emit, Goto
    <2>. QED
      BY <2>1, <2>2, <2>3 DEF TypeOK, Locals
  <1>7. CASE EmitFails
    <2>1. HeadAnchor.epoch = st.epoch + 1 /\ st.epoch + 1 \in 1..MaxEpoch
      BY <1>7, EmitFailsDoes, NextEpoch
    <2>2. /\ files' = [e \in 1..MaxEpoch |-> files'[e]]
          /\ \A e \in 1..MaxEpoch : files'[e] = NoFile \/ files'[e].epoch = e
      <3>1. CASE files' = files
        BY <3>1 DEF TypeOK, Locals
      <3>2. CASE files' = Written(HeadAnchor)
        BY <2>1, <3>2, WrittenFiles
      <3>. QED
        BY <1>7, <3>1, <3>2, EmitFailsDoes
    <2>3. /\ UNCHANGED <<chain, policy, pst, queue, last, cited, popped, failed, restarts>>
          /\ st' = [epoch |-> st.epoch, length |-> st.length,
                    anchor_hash |-> st.anchor_hash, gap |-> st.gap + 1]
          /\ st.gap + 1 \in 0..MaxGap
          /\ pc' = [pc EXCEPT ![Loop] = "idle"]
      <3>1. st = [epoch |-> st.epoch, length |-> st.length, anchor_hash |-> st.anchor_hash, gap |-> st.gap]
        BY DEF Locals
      <3>2. st' = [st EXCEPT !.gap = @ + 1]
        BY <1>7, EmitFailsDoes
      <3>3. st' = [epoch |-> st.epoch, length |-> st.length,
                   anchor_hash |-> st.anchor_hash, gap |-> st.gap + 1]
        BY <3>1, <3>2
      <3>4. st.gap + 1 \in 0..MaxGap
        BY <1>7, EmitFailsDoes DEF TypeOK
      <3>. QED
        BY <1>7, <3>3, <3>4, EmitFailsDoes
    <2>. QED
      BY <2>1, <2>2, <2>3 DEF TypeOK, Locals
  <1>8. ASSUME NEW g \in Gates, EvaluateAction(g)
        PROVE  TypeOK' /\ Locals'
    BY <1>8 DEF EvaluateAction, Goto, manager, TypeOK, Locals
  <1>9. ASSUME NEW g \in Gates, AnchorPolicyCommit(g)
        PROVE  TypeOK' /\ Locals'
    <2>1. [digest |-> cited[g], canonical |-> policy] \in Items
      BY <1>9 DEF AnchorPolicyCommit, Items, TypeOK, Locals
    <2>2. queue' \in Seq(Items)
      BY <1>9, <2>1 DEF AnchorPolicyCommit, TypeOK
    <2>. QED
      BY <1>9, <2>2 DEF AnchorPolicyCommit, Goto, TypeOK, Locals
  <1>10. ASSUME NEW g \in Gates, Record(g)
         PROVE  TypeOK' /\ Locals'
    <2>1. /\ chain' \in Seq({Honest(d) : d \in Digests \cup {NoDigest}})
          /\ Len(chain') = Len(chain) + 1 /\ Len(chain) \in Nat
      <3>1. Honest(cited[g]) \in {Honest(d) : d \in Digests \cup {NoDigest}}
        BY DEF TypeOK
      <3>. QED
        BY <1>10, <3>1 DEF Record, TypeOK
    <2>2. st.length \in 0..Len(chain')
      BY <2>1 DEF TypeOK
    <2>. QED
      BY <1>10, <2>1, <2>2 DEF Record, Goto, manager, TypeOK, Locals
  <1>11. ASSUME NEW t \in Threads, Pop(t)
         PROVE  TypeOK' /\ Locals'
    <2>1. Head(queue) \in Items /\ Tail(queue) \in Seq(Items) /\ pst + 1 \in 1..MaxEpoch
      BY <1>11 DEF Pop, TypeOK
    <2>. QED
      BY <1>11, <2>1 DEF Pop, Goto, TypeOK, Locals
  <1>12. ASSUME NEW t \in Threads, AppendCommit(t)
         PROVE  TypeOK' /\ Locals'
    <2>1. popped[t].epoch \in 1..MaxEpoch
      BY <1>12, PolicyCommitFields DEF AppendCommit, Locals
    <2>2. /\ files' = [e \in 1..MaxEpoch |-> files'[e]]
          /\ \A e \in 1..MaxEpoch : files'[e] = NoFile \/ files'[e].epoch = e
      BY <1>12, <2>1, WrittenFiles DEF AppendCommit
    <2>. QED
      BY <1>12, <2>2 DEF AppendCommit, Goto, manager, TypeOK, Locals
  <1>13. ASSUME NEW t \in Threads, AppendCommitFails(t)
         PROVE  TypeOK' /\ Locals'
    <2>1. PICK e \in 1..MaxEpoch, item \in Items : popped[t] = PolicyCommit(e, item)
      BY <1>13, AppendCommitFailsDoes DEF Locals
    <2>2. popped[t].epoch \in 1..MaxEpoch
      BY <2>1, PolicyCommitFields
    <2>3. /\ files' = [d \in 1..MaxEpoch |-> files'[d]]
          /\ \A d \in 1..MaxEpoch : files'[d] = NoFile \/ files'[d].epoch = d
      <3>1. CASE files' = files
        BY <3>1 DEF TypeOK, Locals
      <3>2. CASE files' = Written(popped[t])
        BY <2>2, <3>2, WrittenFiles
      <3>. QED
        BY <1>13, <3>1, <3>2, AppendCommitFailsDoes
    <2>4. failed' = [failed EXCEPT ![t] = Append(@, item)]
      BY <1>13, <2>1, AppendCommitFailsDoes, PolicyCommitFields
    <2>5. failed' \in [Threads -> Seq(Items)]
      BY <2>4 DEF TypeOK
    <2>6. /\ popped' = [popped EXCEPT ![t] = NoCommit]
          /\ pc' = [pc EXCEPT ![t] = "drain"]
          /\ UNCHANGED <<chain, policy, st, pst, queue, last, cited, restarts>>
      BY <1>13, AppendCommitFailsDoes DEF manager
    <2>7. TypeOK'
      BY <2>3, <2>5, <2>6 DEF TypeOK
    <2>8. Locals'
      BY <2>3, <2>6 DEF TypeOK, Locals
    <2>. QED
      BY <2>7, <2>8
  <1>14. ASSUME NEW t \in Threads, Advance(t)
         PROVE  TypeOK' /\ Locals'
    <2>1. TypeOK'
      BY <1>14 DEF Advance, Goto, TypeOK
    <2>2. Locals'
      BY <1>14 DEF Advance, Goto, TypeOK, Locals
    <2>. QED
      BY <2>1, <2>2
  <1>15. ASSUME NEW t \in Threads, DrainEnds(t)
         PROVE  TypeOK' /\ Locals'
    <2>1. queue' \in Seq(Items) /\ failed' \in [Threads -> Seq(Items)]
      <3>1. <<>> \in Seq(Items)
        OBVIOUS
      <3>. QED
        BY <1>15, <3>1 DEF DrainEnds, TypeOK
    <2>. QED
      BY <1>15, <2>1 DEF DrainEnds, Goto, TypeOK, Locals
  <1>. QED
    BY <1>1, <1>2, <1>3, <1>4, <1>5, <1>6, <1>7, <1>8, <1>9, <1>10, <1>11, <1>12, <1>13,
       <1>14, <1>15 DEF Next

----------------------------------------------------------------------------
(* The anchors.                                                             *)

LEMMA ChainFacts ==
  ASSUME TypeOK
  PROVE  /\ chain \in Seq({Honest(d) : d \in Digests \cup {NoDigest}}) /\ Len(chain) \in Nat
         /\ st.epoch \in Nat /\ st.length \in Nat /\ st.length <= Len(chain) /\ st.epoch <= MaxEpoch
  BY CustodyFacts DEF TypeOK

\* An anchored prefix stays one while the chain grows.
LEMMA PrefixStays ==
  ASSUME NEW S, NEW s \in Seq(S), NEW x \in S, NEW k \in 1..Len(s)
  PROVE  k \in 1..Len(Append(s, x)) /\ SubSeq(Append(s, x), 1, k) = SubSeq(s, 1, k)
  <1> DEFINE t == Append(s, x)
  <1>1. t \in Seq(S) /\ Len(t) = Len(s) + 1 /\ \A i \in 1..Len(s) : t[i] = s[i]
    OBVIOUS
  <1>2. k \in 1..Len(t) /\ Len(s) \in Nat
    BY <1>1
  <1> HIDE DEF t
  <1>3. /\ SubSeq(t, 1, k) \in Seq(S) /\ SubSeq(s, 1, k) \in Seq(S)
        /\ Len(SubSeq(t, 1, k)) = k /\ Len(SubSeq(s, 1, k)) = k
        /\ \A i \in 1..k : SubSeq(t, 1, k)[i] = t[i] /\ SubSeq(s, 1, k)[i] = s[i]
    BY <1>1, <1>2
  <1>4. \A i \in 1..k : SubSeq(t, 1, k)[i] = SubSeq(s, 1, k)[i]
    BY <1>1, <1>2, <1>3
  <1>5. SubSeq(t, 1, k) = SubSeq(s, 1, k)
    BY <1>3, <1>4, SeqEqual
  <1>. QED
    BY <1>2, <1>5 DEF t

\* The files and the manager's state are what they were, and the chain may have grown.
LEMMA HeadsStay ==
  ASSUME TypeOK, Heads, UNCHANGED files,
         st'.epoch = st.epoch, st'.length = st.length, st'.anchor_hash = st.anchor_hash,
         \/ chain' = chain
         \/ \E d \in Digests \cup {NoDigest} : chain' = Append(chain, Honest(d))
  PROVE  Heads'
  <1> DEFINE H == {Honest(d) : d \in Digests \cup {NoDigest}}
  <1>0. chain \in Seq(H)
    BY DEF TypeOK
  <1>1. ASSUME NEW k \in 1..Len(chain)
        PROVE  k \in 1..Len(chain') /\ SubSeq(chain', 1, k) = SubSeq(chain, 1, k)
    <2>1. CASE chain' = chain
      BY <2>1
    <2>2. ASSUME NEW d \in Digests \cup {NoDigest}, chain' = Append(chain, Honest(d))
          PROVE  k \in 1..Len(chain') /\ SubSeq(chain', 1, k) = SubSeq(chain, 1, k)
      <3>1. Honest(d) \in H
        OBVIOUS
      <3>. QED
        BY <1>0, <2>2, <3>1, PrefixStays
    <2>. QED
      BY <2>1, <2>2
  <1>2. ASSUME NEW e \in 1..MaxEpoch, Anchored(files, chain, e)
        PROVE  Anchored(files', chain', e)
    <2>1. /\ files[e].kind = "head" /\ files[e].epoch = e
          /\ files[e].prev = IF e = 1 THEN GENESIS_ANCHOR_HASH ELSE files[e - 1].anchor_hash
          /\ files[e].anchor_hash = compute_hash(files[e])
          /\ files[e].chain_length \in 1..Len(chain)
          /\ files[e].head_hash = SubSeq(chain, 1, files[e].chain_length)
      BY <1>2 DEF Anchored
    <2>2. /\ files[e].chain_length \in 1..Len(chain')
          /\ files[e].head_hash = SubSeq(chain', 1, files[e].chain_length)
      BY <1>1, <2>1
    <2>. QED
      BY <2>1, <2>2 DEF Anchored
  <1>. QED
    BY <1>2 DEF Heads

\* The next anchor is written, and counted or not.
LEMMA HeadWritten ==
  ASSUME TypeOK, Locals, Heads, Due, st.epoch < MaxEpoch,
         files' = Written(HeadAnchor), UNCHANGED chain
  PROVE  /\ \A e \in 1..MaxEpoch :
             /\ e <= st.epoch + 1 => Anchored(files', chain', e)
             /\ e > st.epoch + 1 => files'[e] = NoFile
         /\ \A e \in 1..MaxEpoch : e <= st.epoch => files'[e] = files[e]
         /\ files'[st.epoch + 1].anchor_hash = HeadAnchor.anchor_hash
         /\ files'[st.epoch + 1].chain_length = Len(chain)
  <1> DEFINE n == st.epoch + 1
  <1>1. HeadAnchor.epoch = n /\ n \in 1..MaxEpoch /\ st.epoch \in Nat /\ MaxEpoch \in Nat
    BY NextEpoch, ChainFacts, CustodyFacts
  <1>2. /\ files'[n] = HeadAnchor
        /\ \A e \in 1..MaxEpoch : e # n => files'[e] = files[e]
    BY <1>1, WrittenFiles
  <1>3. Len(chain) \in Nat /\ Len(chain) >= 1 /\ Len(chain) \in 1..Len(chain)
    BY ChainFacts, CustodyFacts DEF Due
  <1>4. SubSeq(chain, 1, Len(chain)) = chain
    BY ChainFacts
  <1>5. /\ HeadAnchor.kind = "head" /\ HeadAnchor.prev = st.anchor_hash
        /\ HeadAnchor.chain_length = Len(chain) /\ HeadAnchor.head_hash = chain
        /\ HeadAnchor.anchor_hash = compute_hash(HeadAnchor)
    <2> DEFINE h == compute_hash(HeadAnchor)
    <2>1. HeadAnchor = [kind |-> "head", epoch |-> st.epoch + 1, chain_length |-> Len(chain),
                        head_hash |-> chain, prev |-> st.anchor_hash, gap |-> st.gap, anchor_hash |-> h]
      BY HeadAnchorFields
    <2> HIDE DEF h
    <2>2. HeadAnchor.anchor_hash = h
      BY <2>1
    <2>. QED
      BY <2>1, <2>2 DEF h
  <1>6. st.anchor_hash = IF n = 1 THEN GENESIS_ANCHOR_HASH ELSE files'[n - 1].anchor_hash
    <2>1. CASE n = 1
      BY <1>1, <2>1 DEF Heads
    <2>2. CASE n # 1
      <3>1. n - 1 = st.epoch /\ st.epoch \in 1..MaxEpoch /\ st.epoch # n /\ st.epoch # 0
        BY <1>1, <2>2
      <3>2. st.anchor_hash = files[st.epoch].anchor_hash
        BY <3>1 DEF Heads
      <3>. QED
        BY <1>2, <2>2, <3>1, <3>2
    <2>. QED
      BY <2>1, <2>2
  <1> HIDE DEF n
  <1>7. Anchored(files', chain', n)
    BY <1>1, <1>2, <1>3, <1>4, <1>5, <1>6 DEF Anchored
  <1>8. ASSUME NEW e \in 1..MaxEpoch, e <= st.epoch
        PROVE  Anchored(files', chain', e) /\ files'[e] = files[e]
    <2>1. e # n /\ (e # 1 => e - 1 \in 1..MaxEpoch /\ e - 1 # n)
      BY <1>1, <1>8 DEF n
    <2>2. Anchored(files, chain, e)
      BY <1>8 DEF Heads
    <2>3. files'[e] = files[e] /\ (e # 1 => files'[e - 1] = files[e - 1])
      BY <1>2, <2>1
    <2>. QED
      BY <2>2, <2>3 DEF Anchored
  <1>9. ASSUME NEW e \in 1..MaxEpoch, e > n
        PROVE  files'[e] = NoFile
    <2>1. files[e] = NoFile
      BY <1>9 DEF Heads, n
    <2>. QED
      BY <1>1, <1>2, <1>9, <2>1
  <1>10. \A e \in 1..MaxEpoch : e <= n => e = n \/ e <= st.epoch
    BY <1>1 DEF n
  <1>11. \A e \in 1..MaxEpoch : e <= n => Anchored(files', chain', e)
    BY <1>7, <1>8, <1>10
  <1>. QED
    BY <1>2, <1>5, <1>8, <1>9, <1>11 DEF n

\* No step leads back to a manager that never met a policy set or a restart.
LEMMA HeadsOnlyBefore ==
  ASSUME TypeOK, Locals, [Next]_vars, HeadsOnly'
  PROVE  HeadsOnly /\ policy = NoDigest /\ restarts = 0 /\ ~Restart /\ ~ChangePolicy
  <1>1. policy' = NoDigest /\ restarts' = 0
    BY DEF HeadsOnly
  <1>2. ~ChangePolicy
    BY <1>1, CustodyFacts DEF ChangePolicy
  <1>3. ~Restart
    <2> SUFFICES ASSUME Restart PROVE FALSE
      OBVIOUS
    <2>1. restarts' = restarts + 1 /\ restarts \in Nat
      BY DEF Restart, Locals
    <2>. QED
      BY <1>1, <2>1
  <1>4. UNCHANGED <<policy, restarts>>
    BY <1>2, <1>3 DEF Next, vars, Tick, NotDue, Emit, EmitFails, EvaluateAction,
       AnchorPolicyCommit, Record, Pop, AppendCommit, AppendCommitFails, Advance, DrainEnds
  <1>. QED
    BY <1>1, <1>2, <1>3, <1>4 DEF HeadsOnly

LEMMA HeadsStep ==
  ASSUME KInv, [Next]_vars, HeadsOnly'
  PROVE  NoCommits' /\ Heads'
  <1>0. TypeOK /\ Locals /\ NoCommits /\ Heads /\ policy = NoDigest /\ ~Restart /\ ~ChangePolicy
    BY HeadsOnlyBefore DEF KInv
  <1>1. CASE UNCHANGED vars
    <2>1. Heads'
      BY <1>0, <1>1, HeadsStay DEF vars, manager
    <2>. QED
      BY <1>0, <1>1, <2>1 DEF vars, manager, threads, NoCommits
  <1>2. CASE Tick \/ NotDue
    <2>1. /\ UNCHANGED <<chain, st, queue, cited, failed, files>>
          /\ pc' = [pc EXCEPT ![Loop] = "drain"] \/ pc' = [pc EXCEPT ![Loop] = "idle"]
      BY <1>2 DEF Tick, NotDue, Goto, manager
    <2>2. Heads'
      BY <1>0, <2>1, HeadsStay
    <2>. QED
      BY <1>0, <2>1, <2>2, CustodyFacts DEF NoCommits, TypeOK
  <1>3. CASE Emit
    <2>1. /\ Due /\ st.epoch < MaxEpoch /\ files' = Written(HeadAnchor)
          /\ st' = [epoch |-> HeadAnchor.epoch, length |-> Len(chain),
                    anchor_hash |-> HeadAnchor.anchor_hash, gap |-> 0]
          /\ pc' = [pc EXCEPT ![Loop] = "idle"]
          /\ UNCHANGED <<chain, queue, cited, failed>>
      BY <1>3 DEF Emit, Goto
    <2>2. HeadAnchor.epoch = st.epoch + 1 /\ st.epoch \in Nat /\ st.epoch + 1 \in 1..MaxEpoch
      BY <1>0, <2>1, NextEpoch, ChainFacts
    <2>3. /\ st'.epoch = st.epoch + 1 /\ st'.length = Len(chain)
          /\ st'.anchor_hash = HeadAnchor.anchor_hash
      BY <2>1, <2>2
    <2>4. /\ \A e \in 1..MaxEpoch :
              /\ e <= st'.epoch => Anchored(files', chain', e)
              /\ e > st'.epoch => files'[e] = NoFile
          /\ files'[st'.epoch].anchor_hash = st'.anchor_hash
          /\ files'[st'.epoch].chain_length = st'.length
      BY <1>0, <2>1, <2>3, HeadWritten
    <2>5. st'.epoch # 0 /\ \A e \in 1..MaxEpoch : e >= st'.epoch + 1 => e > st'.epoch
      BY <2>2, <2>3
    <2>6. \A e \in 1..MaxEpoch : (e = st'.epoch + 1 \/ e > st'.epoch + 1) => e > st'.epoch
      BY <2>2, <2>3
    <2>7. Heads'
      BY <2>4, <2>5, <2>6 DEF Heads
    <2>. QED
      BY <1>0, <2>1, <2>7, CustodyFacts DEF NoCommits, TypeOK
  <1>4. CASE EmitFails
    <2>1. /\ Due /\ st.epoch < MaxEpoch
          /\ files' \in {files, Written(HeadAnchor)}
          /\ st' = [st EXCEPT !.gap = @ + 1]
          /\ pc' = [pc EXCEPT ![Loop] = "idle"]
          /\ UNCHANGED <<chain, queue, cited, failed>>
      BY <1>4, EmitFailsDoes
    <2>2. st'.epoch = st.epoch /\ st'.length = st.length /\ st'.anchor_hash = st.anchor_hash
      <3>1. st = [epoch |-> st.epoch, length |-> st.length, anchor_hash |-> st.anchor_hash, gap |-> st.gap]
        BY <1>0 DEF Locals
      <3>. QED
        BY <2>1, <3>1
    <2>3. Heads'
      <3>1. CASE files' = files
        BY <1>0, <2>1, <2>2, <3>1, HeadsStay
      <3>2. CASE files' = Written(HeadAnchor)
        <4>1. /\ \A e \in 1..MaxEpoch :
                  /\ e <= st.epoch + 1 => Anchored(files', chain', e)
                  /\ e > st.epoch + 1 => files'[e] = NoFile
              /\ \A e \in 1..MaxEpoch : e <= st.epoch => files'[e] = files[e]
          BY <1>0, <2>1, <3>2, HeadWritten
        <4>2. st.epoch \in Nat /\ st.epoch <= MaxEpoch /\ MaxEpoch \in Nat
          BY <1>0, ChainFacts, CustodyFacts
        <4>3. st.epoch # 0 => files'[st.epoch] = files[st.epoch]
          BY <4>1, <4>2
        <4>4. \A e \in 1..MaxEpoch : e <= st.epoch \/ e = st.epoch + 1 => e <= st.epoch + 1
          BY <4>2
        <4>. QED
          BY <1>0, <2>2, <4>1, <4>3, <4>4 DEF Heads
      <3>. QED
        BY <2>1, <3>1, <3>2
    <2>. QED
      BY <1>0, <2>1, <2>3, CustodyFacts DEF NoCommits, TypeOK
  <1>5. ASSUME NEW g \in Gates, EvaluateAction(g)
        PROVE  NoCommits' /\ Heads'
    <2>1. /\ UNCHANGED <<chain, st, queue, failed, files>>
          /\ cited' = [cited EXCEPT ![g] = NoDigest]
          /\ pc' = [pc EXCEPT ![g] = "record"]
      BY <1>0, <1>5 DEF EvaluateAction, Goto, manager
    <2>2. Heads'
      BY <1>0, <2>1, HeadsStay
    <2>. QED
      BY <1>0, <2>1, <2>2, CustodyFacts DEF NoCommits, TypeOK
  <1>6. ASSUME NEW g \in Gates, Record(g)
        PROVE  NoCommits' /\ Heads'
    <2>1. cited[g] = NoDigest
      BY <1>0, CustodyFacts DEF NoCommits
    <2>2. /\ UNCHANGED <<st, queue, failed, files>>
          /\ chain' = Append(chain, Honest(NoDigest))
          /\ cited' = [cited EXCEPT ![g] = NoDigest]
          /\ pc' = [pc EXCEPT ![g] = "idle"]
      BY <1>6, <2>1 DEF Record, Goto, manager
    <2>3. Heads'
      BY <1>0, <2>2, HeadsStay
    <2>4. \A i \in DOMAIN chain' : chain'[i] = Honest(NoDigest)
      <3>1. \A i \in DOMAIN chain : chain[i] = Honest(NoDigest)
        BY <1>0 DEF NoCommits
      <3>2. chain \in Seq({Honest(d) : d \in Digests \cup {NoDigest}})
        BY <1>0, ChainFacts
      <3>3. /\ DOMAIN chain = 1..Len(chain) /\ DOMAIN chain' = 1..(Len(chain) + 1) /\ Len(chain) \in Nat
            /\ \A i \in 1..Len(chain) : chain'[i] = chain[i]
            /\ chain'[Len(chain) + 1] = Honest(NoDigest)
        BY <2>2, <3>2
      <3>. QED
        BY <3>1, <3>3
    <2>. QED
      BY <1>0, <2>2, <2>3, <2>4, CustodyFacts DEF NoCommits, TypeOK
  <1>7. ASSUME NEW g \in Gates, AnchorPolicyCommit(g)
        PROVE  FALSE
    BY <1>0, <1>7, CustodyFacts DEF AnchorPolicyCommit, NoCommits
  <1>8. ASSUME NEW t \in Threads, Pop(t) \/ AppendCommit(t) \/ AppendCommitFails(t) \/ Advance(t)
        PROVE  FALSE
    <2>1. pc[t] \in {"append", "advance"} \/ queue # <<>>
      BY <1>8, AppendCommitFailsDoes DEF Pop, AppendCommit, Advance
    <2>. QED
      BY <1>0, <2>1 DEF NoCommits
  <1>9. ASSUME NEW t \in Threads, DrainEnds(t)
        PROVE  NoCommits' /\ Heads'
    <2>1. failed[t] = <<>>
      BY <1>0 DEF NoCommits
    <2>2. /\ UNCHANGED <<chain, st, cited, files>>
          /\ queue' = <<>>
          /\ failed' = [failed EXCEPT ![t] = <<>>]
          /\ pc' = [pc EXCEPT ![t] = "heads"] \/ pc' = [pc EXCEPT ![t] = "record"]
      BY <1>9, <2>1 DEF DrainEnds, Goto
    <2>3. Heads'
      BY <1>0, <2>2, HeadsStay
    <2>. QED
      BY <1>0, <2>2, <2>3 DEF NoCommits, TypeOK
  <1>. QED
    BY <1>0, <1>1, <1>2, <1>3, <1>4, <1>5, <1>6, <1>7, <1>8, <1>9 DEF Next

LEMMA CustodyInvariant == Spec => []KInv
  <1>1. Init => KInv
    <2> SUFFICES ASSUME Init PROVE KInv
      OBVIOUS
    <2>1. /\ st.epoch = 0 /\ st.length = 0 /\ st.anchor_hash = GENESIS_ANCHOR_HASH
          /\ \A e \in 1..MaxEpoch : files[e] = NoFile
      BY DEF Init
    <2>2. \A e \in 1..MaxEpoch : ~(e <= st.epoch)
      BY <2>1, CustodyFacts
    <2>3. Heads
      BY <2>1, <2>2 DEF Heads
    <2>4. NoCommits
      BY DEF Init, NoCommits
    <2>. QED
      BY <2>3, <2>4, TypeInit DEF KInv
  <1>2. KInv /\ [Next]_vars => KInv'
    BY TypeStep, HeadsStep DEF KInv
  <1>. QED
    BY <1>1, <1>2, PTL DEF Spec

----------------------------------------------------------------------------
(* The re-walk.                                                             *)

\* The log that the re-walk loads: an unbroken run of anchors from the first epoch on,
\* with every epoch that the manager has counted.
LEMMA LoadedHeads ==
  ASSUME KInv, HeadsOnly
  PROVE  \E n \in 0..MaxEpoch :
            /\ st.epoch <= n
            /\ DOMAIN load_anchors = 1..n
            /\ \A e \in 1..n : load_anchors[e] = files[e] /\ Anchored(files, chain, e)
            /\ Kind("policy_commit") = {}
  <1>0. TypeOK /\ Locals /\ Heads
    BY DEF KInv
  <1>1. MaxEpoch \in Nat /\ st.epoch \in Nat /\ st.epoch <= MaxEpoch
    BY <1>0, ChainFacts, CustodyFacts
  <1>2. DOMAIN files = 1..MaxEpoch
    BY <1>0 DEF Locals
  <1>3. NoFile.kind # "head" /\ NoFile.kind # "policy_commit"
    BY DEF NoFile
  <1>4. \A e \in 1..MaxEpoch : Anchored(files, chain, e) => files[e].kind = "head"
    BY DEF Anchored
  <1> DEFINE next == st.epoch + 1 \in 1..MaxEpoch /\ files[st.epoch + 1] # NoFile
             n == IF next THEN st.epoch + 1 ELSE st.epoch
  <1>5. n \in 0..MaxEpoch /\ st.epoch <= n
    BY <1>1
  <1>6. ASSUME NEW e \in 1..MaxEpoch
        PROVE  IF e <= n THEN Anchored(files, chain, e) ELSE files[e] = NoFile
    <2>1. CASE e <= st.epoch
      BY <1>0, <1>1, <2>1 DEF Heads
    <2>2. CASE e = st.epoch + 1
      BY <1>0, <1>1, <2>2 DEF Heads
    <2>3. CASE e > st.epoch + 1
      BY <1>0, <1>1, <2>3 DEF Heads
    <2>. QED
      BY <1>1, <2>1, <2>2, <2>3
  <1> HIDE DEF n
  <1>7. Kind("head") = 1..n /\ Kind("policy_commit") = {}
    BY <1>1, <1>2, <1>3, <1>4, <1>5, <1>6 DEF Kind
  <1>8. /\ DOMAIN load_anchors = 1..n
        /\ \A e \in 1..n : load_anchors[e] = files[e]
    BY <1>7 DEF load_anchors
  <1>9. \A e \in 1..n : Anchored(files, chain, e)
    BY <1>1, <1>5, <1>6
  <1>. QED
    BY <1>5, <1>7, <1>8, <1>9

\* The greatest number before another one.
LEMMA MaxBefore ==
  ASSUME NEW n \in Nat, NEW e \in 1..n
  PROVE  LET before == {d \in 1..n : d < e}
         IN  IF e = 1 THEN before = {} ELSE before # {} /\ Max(before) = e - 1
  <1> DEFINE before == {d \in 1..n : d < e}
  <1>1. CASE e = 1
    BY <1>1
  <1>2. CASE e # 1
    <2>1. e - 1 \in before /\ \A d \in before : d <= e - 1 /\ d \in Nat
      BY <1>2
    <2>2. \A x \in before : (\A y \in before : x >= y) => x = e - 1
      BY <2>1
    <2> HIDE DEF before
    <2>3. Max(before) = CHOOSE x \in before : \A y \in before : x >= y
      BY DEF Max
    <2>4. \E x \in before : \A y \in before : x >= y
      BY <2>1
    <2>5. Max(before) = e - 1
      BY <2>2, <2>3, <2>4
    <2>. QED
      BY <1>2, <2>1, <2>5 DEF before
  <1>. QED
    BY <1>1, <1>2

LEMMA VerdictsDiffer ==
  ESTABLISHED # CONTRADICTION /\ CANNOT_ESTABLISH # CONTRADICTION
  BY DEF ESTABLISHED, CONTRADICTION, CANNOT_ESTABLISH

LEMMA HonestWalk ==
  ASSUME KInv, HeadsOnly
  PROVE  verify_custody(chain, load_anchors) # CONTRADICTION
  <1> DEFINE log == load_anchors
  <1>1. PICK n \in 0..MaxEpoch :
            /\ DOMAIN log = 1..n
            /\ \A e \in 1..n : log[e] = files[e] /\ Anchored(files, chain, e)
            /\ Kind("policy_commit") = {}
    BY LoadedHeads
  <1>2. n \in Nat /\ Len(chain) \in Nat
    BY CustodyFacts, ChainFacts DEF KInv
  <1> HIDE DEF log
  <1>3. P2(chain, log) # CONTRADICTION
    BY <1>1, VerdictsDiffer DEF P2, Verdict, Anchored
  <1>4. P4(chain, log) # CONTRADICTION
    <2>1. \A e \in DOMAIN log : log[e].chain_length <= Len(chain)
      BY <1>1, <1>2 DEF Anchored
    <2>. QED
      BY <2>1, VerdictsDiffer DEF P4, Verdict
  <1>5. P3(log) # CONTRADICTION
    <2>1. ASSUME NEW e \in DOMAIN log
          PROVE  LET before == {d \in DOMAIN log : d < e}
                 IN  /\ log[e].epoch > (IF before = {} THEN 0 ELSE log[Max(before)].epoch)
                     /\ log[e].prev = IF before = {} THEN GENESIS_ANCHOR_HASH
                                                    ELSE log[Max(before)].anchor_hash
                     /\ log[e].anchor_hash = compute_hash(log[e])
      <3> DEFINE before == {d \in 1..n : d < e}
      <3>1. e \in 1..n /\ DOMAIN log = 1..n
        BY <1>1
      <3>2. IF e = 1 THEN before = {} ELSE before # {} /\ Max(before) = e - 1
        BY <1>2, <3>1, MaxBefore
      <3> HIDE DEF before
      <3>3. /\ log[e] = files[e] /\ files[e].epoch = e
            /\ files[e].prev = IF e = 1 THEN GENESIS_ANCHOR_HASH ELSE files[e - 1].anchor_hash
            /\ files[e].anchor_hash = compute_hash(files[e])
        BY <1>1, <3>1 DEF Anchored
      <3>4. e # 1 => e - 1 \in 1..n /\ log[e - 1] = files[e - 1] /\ files[e - 1].epoch = e - 1
        <4> SUFFICES ASSUME e # 1
                     PROVE  e - 1 \in 1..n /\ log[e - 1] = files[e - 1] /\ files[e - 1].epoch = e - 1
          OBVIOUS
        <4>1. e - 1 \in 1..n
          BY <1>2, <3>1
        <4>. QED
          BY <1>1, <4>1 DEF Anchored
      <3>5. /\ log[e].epoch > (IF before = {} THEN 0 ELSE log[Max(before)].epoch)
            /\ log[e].prev = IF before = {} THEN GENESIS_ANCHOR_HASH ELSE log[Max(before)].anchor_hash
            /\ log[e].anchor_hash = compute_hash(log[e])
        <4>1. CASE e = 1
          BY <1>2, <3>1, <3>2, <3>3, <4>1
        <4>2. CASE e # 1
          BY <1>2, <3>1, <3>2, <3>3, <3>4, <4>2
        <4>. QED
          BY <4>1, <4>2
      <3>. QED
        BY <3>1, <3>5 DEF before
    <2>. QED
      BY <2>1, VerdictsDiffer DEF P3, Verdict
  <1>6. P5 # CONTRADICTION
    BY <1>1, VerdictsDiffer DEF P5
  <1>7. P6(chain) # CONTRADICTION
    <2>1. \A i \in DOMAIN chain : chain[i].policy_digest = NoDigest
      BY DEF KInv, NoCommits, Honest
    <2>. QED
      BY <2>1, VerdictsDiffer DEF P6
  <1>8. CONTRADICTION \notin {P2(chain, log), P3(log), P4(chain, log), P5, P6(chain)}
    BY <1>3, <1>4, <1>5, <1>6, <1>7
  <1>9. verify_custody(chain, log) # CONTRADICTION
    BY <1>8, VerdictsDiffer DEF verify_custody
  <1>. QED
    BY <1>9 DEF log

\* A copy that differs in what the manager holds as anchored fails P2 at its last anchor.
LEMMA TamperedWalk ==
  ASSUME KInv, HeadsOnly, NEW S, NEW copy \in Seq(S),
         Len(copy) < st.length \/ SubSeq(copy, 1, st.length) # SubSeq(chain, 1, st.length)
  PROVE  verify_custody(copy, load_anchors) = CONTRADICTION
  <1> DEFINE log == load_anchors
             e == st.epoch
  <1>0. TypeOK /\ Heads
    BY DEF KInv
  <1>1. PICK n \in 0..MaxEpoch :
            /\ st.epoch <= n /\ DOMAIN log = 1..n
            /\ \A d \in 1..n : log[d] = files[d] /\ Anchored(files, chain, d)
    BY LoadedHeads
  <1> HIDE DEF log
  <1>2. n \in Nat /\ e \in Nat /\ Len(copy) \in Nat /\ st.length \in Nat
    BY <1>0, CustodyFacts, ChainFacts
  <1>3. e # 0
    <2> SUFFICES ASSUME e = 0 PROVE FALSE
      OBVIOUS
    <2>1. st.length = 0
      BY <1>0 DEF Heads
    <2>2. SubSeq(copy, 1, 0) = <<>> /\ SubSeq(chain, 1, 0) = <<>>
      BY <1>0, ChainFacts
    <2>. QED
      BY <1>2, <2>1, <2>2
  <1>4. e \in DOMAIN log /\ e \in 1..n
    BY <1>1, <1>2, <1>3
  <1>5. /\ log[e].chain_length = st.length
        /\ log[e].head_hash = SubSeq(chain, 1, st.length)
    BY <1>0, <1>1, <1>3, <1>4 DEF Heads, Anchored
  <1> HIDE DEF e
  <1>6. ~(log[e].chain_length \in 1..Len(copy) /\ log[e].head_hash = SubSeq(copy, 1, log[e].chain_length))
    BY <1>2, <1>5
  <1>7. P2(copy, log) = CONTRADICTION
    BY <1>4, <1>6 DEF P2, Verdict
  <1>8. verify_custody(copy, log) = CONTRADICTION
    BY <1>7 DEF verify_custody
  <1>. QED
    BY <1>8 DEF log

\* For every number of threads, records, epochs and refusals, the re-walk of an
\* untouched store is never contradicted while the tenant has no policy set and the
\* manager has not been built anew.
THEOREM HonestStoresAreNeverContradicted == Spec => []HonestIsNeverContradicted
  <1>1. KInv => HonestIsNeverContradicted
    BY HonestWalk DEF HonestIsNeverContradicted
  <1>. QED
    BY <1>1, CustodyInvariant, PTL

\* For every length of the chain and every copy of the store, one that lost or rewrote
\* an anchored record is contradicted, under the same condition.
THEOREM TamperedStoresAreContradicted == Spec => []TamperingShows
  <1>1. KInv => TamperingShows
    <2> SUFFICES ASSUME KInv, HeadsOnly, NEW n \in 0..MaxRecords,
                        NEW copy \in [1..n -> {Honest(NoDigest), Forged}],
                        n < st.length \/ SubSeq(copy, 1, st.length) # SubSeq(chain, 1, st.length)
                 PROVE  verify_custody(copy, load_anchors) = CONTRADICTION
      BY DEF TamperingShows
    <2>1. copy \in Seq({Honest(NoDigest), Forged}) /\ Len(copy) = n
      BY CustodyFacts
    <2>. QED
      BY <2>1, TamperedWalk
  <1>. QED
    BY <1>1, CustodyInvariant, PTL

\* Every variable of the manager, the gate and the sink keeps its type; what waits to be
\* anchored is always digests and their bytes, whichever thread took it from the queue.
THEOREM CustodyIsTyped == Spec => []TypeOK
  <1>1. KInv => TypeOK
    BY DEF KInv
  <1>. QED
    BY <1>1, CustodyInvariant, PTL
============================================================================
