-------------------------- MODULE EnforcementProofs --------------------------
(***************************************************************************)
(* Proofs about TenantPolicies and Enforcement, for every set of tenants,  *)
(* rules and tools and every policy: what the table, the lists and the     *)
(* engines of a process hold of what an administrator was told, what the   *)
(* action gate cites, and which way an added rule moves a decision.        *)
(***************************************************************************)
EXTENDS Enforcement, FiniteSetTheorems, TLAPS

----------------------------------------------------------------------------
(* The inductive invariant, in parts.                                       *)

\* With one process on the table, a rule that was acknowledged is also in the list
\* the process will save next.
AckedRuleIsListed ==
    Cardinality(Processes) = 1 =>
        \A p \in up : \A a \in acked : a.rule \in Elements(custom[p][a.tenant])

Points == {"rules", "memo", "fill", "key", "lookup", "keep"}

IsCitation(c) ==
    /\ c = Citation(c.at, c.tenant, c.tools, c.rules, c.digest, c.own)
    /\ c.at \in Points /\ c.tenant \in Tenants
    /\ c.own # NoEngine => c.own = [rules |-> c.own.rules, memo |-> c.own.memo]

\* f has a row for every process and in it an entry for every one of Q.
Table(f, Q) == \E S : f \in [Processes -> [Q -> S]]

GateTyped ==
    /\ policy \in Policies
    /\ Table(allowlists, Tenants) /\ Table(cache, Tenants) /\ Table(memo, Tenants) /\ Table(citing, Threads)
    /\ clearing \in [Processes -> SUBSET Tenants] /\ raced \in [Processes -> SUBSET Tenants]
    /\ \A p \in Processes, i \in Threads : citing[p][i] = Idle \/ IsCitation(citing[p][i])

\* What is cached is what its own key says: the rules are in the key of a regex
\* engine, and a policy that is not pinned has no digest to go stale.
CacheIsOfItsKey ==
    \A p \in Processes, t \in Tenants : cache[p][t] # NoCache =>
        LET c == cache[p][t]
        IN  /\ policy.kind = "regex" /\ t \notin raced[p] =>
                 c.digest = [tools |-> c.key.tools, rules |-> c.key.rules.rules]
            /\ policy.kind # "regex" /\ policy.pin = NoPin => c.digest = NoDigest

\* What an engine keeps is the digest of its rules.
MemoIsOfItsRules ==
    policy.kind = "regex" =>
        \A p \in Processes : \A t \in tenants[p] \ (raced[p] \cup clearing[p]) :
            memo[p][t] \in {NoDigest, rules_canonical_digest(RulesOf(p, t))}

\* What a citation has read so far agrees with the engine it reads, whose rules do
\* not change under it.
CitationHolds(p, c) ==
    LET digest == rules_canonical_digest(EngineRules(p, c))
    IN  /\ c.own = NoEngine => c.tenant \in tenants[p] \ clearing[p]
        /\ c.at # "rules" => c.rules = EngineRules(p, c)
        /\ EngineMemo(p, c) \in {NoDigest, digest}
        /\ c.at \in {"fill", "lookup", "keep"} => c.digest = digest
        /\ c.at = "key" => EngineMemo(p, c) = digest

CitationsHold ==
    policy.kind = "regex" =>
        \A p \in Processes, i \in Threads :
            citing[p][i] # Idle /\ citing[p][i].tenant \notin raced[p] =>
                CitationHolds(p, citing[p][i])

----------------------------------------------------------------------------
(* Lists and tables of lists.                                               *)

\* An append adds one element and no more.
LEMMA AppendElements ==
  ASSUME NEW s \in Seq(Rules), NEW r \in Rules
  PROVE  /\ Append(s, r) \in Seq(Rules)
         /\ Elements(Append(s, r)) = Elements(s) \cup {r}
  <1>1. /\ Append(s, r) \in Seq(Rules) /\ DOMAIN Append(s, r) = 1..(Len(s) + 1)
        /\ Append(s, r)[Len(s) + 1] = r /\ \A i \in 1..Len(s) : Append(s, r)[i] = s[i]
    OBVIOUS
  <1>2. DOMAIN s = 1..Len(s) /\ Len(s) \in Nat
    OBVIOUS
  <1>3. Elements(Append(s, r)) \subseteq Elements(s) \cup {r}
    <2> SUFFICES ASSUME NEW i \in 1..(Len(s) + 1)
                 PROVE  Append(s, r)[i] \in Elements(s) \cup {r}
      BY <1>1 DEF Elements
    <2>1. CASE i = Len(s) + 1
      BY <1>1, <2>1
    <2>2. CASE i \in 1..Len(s)
      BY <1>1, <1>2, <2>2 DEF Elements
    <2>. QED
      BY <1>2, <2>1, <2>2
  <1>4. Elements(s) \subseteq Elements(Append(s, r)) /\ r \in Elements(Append(s, r))
    <2>1. \A i \in 1..Len(s) : i \in 1..(Len(s) + 1)
      BY <1>2
    <2>2. Len(s) + 1 \in 1..(Len(s) + 1)
      BY <1>2
    <2>. QED
      BY <1>1, <1>2, <2>1, <2>2 DEF Elements
  <1>. QED
    BY <1>1, <1>3, <1>4

LEMMA EmptyIsLists == Empty \in Lists /\ \A t \in Tenants : Empty[t] = << >>
  BY DEF Empty, Lists

\* Where one process has the table, every process is that one.
LEMMA OneProcess ==
  ASSUME Cardinality(Processes) = 1
  PROVE  \A p, q \in Processes : p = q
  <1>1. \E x : Processes = {x}
    BY ProcessesAssumption, FS_Singleton
  <1>. QED
    BY <1>1

----------------------------------------------------------------------------
(* The policy store.                                                        *)

\* What AddInMemory does to the two lists.
LEMMA AddFacts ==
  ASSUME TypeOK, NEW p \in Processes, NEW t \in Tenants, NEW r \in Rules, AddInMemory(p, t, r)
  PROVE  /\ p \in up /\ UNCHANGED <<up, tenants>> /\ get_or_default(p, t) \in tenants[p]
         /\ engine' \in [Processes -> Lists] /\ custom' \in [Processes -> Lists]
         /\ custom'[p][t] = Append(custom[p][t], r)
         /\ engine'[p][get_or_default(p, t)] = Append(engine[p][get_or_default(p, t)], r)
         /\ \A q \in Processes, u \in Tenants : q # p \/ u # t => custom'[q][u] = custom[q][u]
         /\ \A q \in Processes, u \in Tenants :
               q # p \/ u # get_or_default(p, t) => engine'[q][u] = engine[q][u]
         /\ custom'[p][t] \in Seq(Rules) /\ custom[p][t] \in Seq(Rules)
         /\ engine[p][get_or_default(p, t)] \in Seq(Rules)
  <1> DEFINE d == get_or_default(p, t)
  <1>1. p \in up /\ UNCHANGED <<up, tenants>> /\ d \in tenants[p] /\ d \in Tenants
    BY DEF TypeOK, AddInMemory, get_or_default
  <1>2. custom[p][t] \in Seq(Rules) /\ engine[p][d] \in Seq(Rules)
    BY <1>1 DEF TypeOK, Lists
  <1>3. Append(custom[p][t], r) \in Seq(Rules) /\ Append(engine[p][d], r) \in Seq(Rules)
    BY <1>2, AppendElements
  <1>4. /\ custom' = [custom EXCEPT ![p][t] = Append(custom[p][t], r)]
        /\ engine' = [engine EXCEPT ![p][d] = Append(engine[p][d], r)]
    BY DEF AddInMemory
  <1> HIDE DEF d
  <1>5. /\ custom' \in [Processes -> Lists] /\ custom'[p][t] = Append(custom[p][t], r)
        /\ \A q \in Processes, u \in Tenants : q # p \/ u # t => custom'[q][u] = custom[q][u]
    BY <1>3, <1>4 DEF TypeOK, Lists
  <1>6. /\ engine' \in [Processes -> Lists] /\ engine'[p][d] = Append(engine[p][d], r)
        /\ \A q \in Processes, u \in Tenants : q # p \/ u # d => engine'[q][u] = engine[q][u]
    BY <1>1, <1>3, <1>4 DEF TypeOK, Lists
  <1>. QED
    BY <1>1, <1>2, <1>3, <1>5, <1>6 DEF d

PInv == TypeOK /\ PartOnlyOverFailures /\ AckedRuleIsStored /\ AckedRuleIsListed /\ AckedRuleIsInForce

\* No list loses a rule when one is added.
LEMMA AddKeeps ==
  ASSUME TypeOK, NEW p \in Processes, NEW t \in Tenants, NEW r \in Rules, AddInMemory(p, t, r)
  PROVE  /\ r \in Elements(custom'[p][t])
         /\ t \in tenants[p] => r \in Elements(engine'[p][t])
         /\ \A q \in Processes, u \in Tenants : Elements(custom[q][u]) \subseteq Elements(custom'[q][u])
         /\ \A q \in Processes, u \in Tenants : Elements(engine[q][u]) \subseteq Elements(engine'[q][u])
  <1> DEFINE d == get_or_default(p, t)
  <1>1. d \in Tenants /\ (t \in tenants[p] => d = t)
    BY DEF get_or_default, TypeOK, AddInMemory
  <1>2. Elements(custom'[p][t]) = Elements(custom[p][t]) \cup {r}
    <2>1. custom'[p][t] = Append(custom[p][t], r) /\ custom[p][t] \in Seq(Rules)
      BY AddFacts
    <2>. QED
      BY <2>1, AppendElements
  <1>3. Elements(engine'[p][d]) = Elements(engine[p][d]) \cup {r}
    <2>1. engine'[p][d] = Append(engine[p][d], r) /\ engine[p][d] \in Seq(Rules)
      BY AddFacts
    <2>. QED
      BY <2>1, AppendElements
  <1> HIDE DEF d
  <1>4. ASSUME NEW q \in Processes, NEW u \in Tenants
        PROVE  Elements(custom[q][u]) \subseteq Elements(custom'[q][u])
    <2>1. CASE q = p /\ u = t
      BY <1>2, <2>1
    <2>2. CASE q # p \/ u # t
      BY <2>2, AddFacts
    <2>. QED
      BY <2>1, <2>2
  <1>5. ASSUME NEW q \in Processes, NEW u \in Tenants
        PROVE  Elements(engine[q][u]) \subseteq Elements(engine'[q][u])
    <2>1. CASE q = p /\ u = d
      BY <1>3, <2>1
    <2>2. CASE q # p \/ u # d
      BY <2>2, AddFacts DEF d
    <2>. QED
      BY <2>1, <2>2
  <1>. QED
    BY <1>1, <1>2, <1>3, <1>4, <1>5

\* A rule is added and saved.
LEMMA AddStep ==
  ASSUME PInv, NEW p \in Processes, NEW t \in Tenants, NEW r \in Rules, add_policy_rule(p, t, r)
  PROVE  PInv'
  <1> USE DEF PInv
  <1>0. AddInMemory(p, t, r) /\ p \in up /\ UNCHANGED <<up, tenants>> /\ custom'[p][t] \in Seq(Rules)
    BY AddFacts DEF add_policy_rule
  <1>1. /\ db' = [db EXCEPT ![t] = custom'[p][t]]
        /\ acked' = acked \cup {Ack(p, t, r)}
        /\ behind' = [behind EXCEPT ![p] = behind[p] \ {t}]
    BY DEF add_policy_rule
  <1>2. Ack(p, t, r).tenant = t /\ Ack(p, t, r).rule = r /\ (Ack(p, t, r).registered <=> t \in tenants[p])
    BY DEF Ack
  <1>3. db' \in Lists /\ db'[t] = custom'[p][t] /\ \A u \in Tenants \ {t} : db'[u] = db[u]
    BY <1>0, <1>1 DEF TypeOK, Lists
  <1>4. TypeOK'
    <2>1. Ack(p, t, r) \in [tenant : Tenants, rule : Rules, registered : BOOLEAN]
      BY DEF Ack
    <2>2. behind' \in [Processes -> SUBSET Tenants]
      BY <1>1 DEF TypeOK
    <2>. QED
      BY <1>0, <1>1, <1>3, <2>1, <2>2, AddFacts DEF TypeOK
  <1>5. \A a \in acked' : a \in acked \/ a = Ack(p, t, r)
    BY <1>1
  <1>6. \A a \in acked : a.tenant \in Tenants
    BY DEF TypeOK
  <1>7. ASSUME Cardinality(Processes) = 1
        PROVE  PartOnlyOverFailures' /\ AckedRuleIsStored' /\ AckedRuleIsListed' /\ AckedRuleIsInForce'
    <2>0. \A q \in Processes : q = p
      BY <1>7, OneProcess
    <2>1. PartOnlyOverFailures'
      <3> SUFFICES ASSUME NEW q \in up', NEW u \in Tenants, custom'[q][u] # db'[u]
                   PROVE  u \in behind'[q] \/ ~Unique(custom'[q][u])
        BY <1>7 DEF PartOnlyOverFailures, Unique
      <3>1. q = p /\ u # t /\ custom'[q][u] = custom[q][u] /\ db'[u] = db[u]
        BY <1>0, <1>3, <2>0, AddFacts DEF TypeOK
      <3>2. u \in behind[p] => u \in behind'[p]
        BY <1>1, <3>1 DEF TypeOK
      <3>. QED
        BY <1>0, <1>7, <3>1, <3>2 DEF PartOnlyOverFailures
    <2>2. AckedRuleIsListed'
      <3> SUFFICES ASSUME NEW q \in up', NEW a \in acked' PROVE a.rule \in Elements(custom'[q][a.tenant])
        BY DEF AckedRuleIsListed, Elements
      <3>1. CASE a = Ack(p, t, r)
        <4>1. q = p /\ a.tenant = t /\ a.rule = r /\ (a.registered => t \in tenants'[p])
          BY <1>0, <1>2, <2>0, <3>1 DEF TypeOK
        <4>. QED
          BY <1>0, <4>1, AddKeeps
      <3>2. CASE a \in acked
        <4>1. q \in Processes /\ a.tenant \in Tenants /\ a.rule \in Elements(custom[q][a.tenant])
          BY <1>0, <1>6, <1>7, <3>2 DEF AckedRuleIsListed, TypeOK
        <4>. QED
          BY <1>0, <4>1, AddKeeps
      <3>. QED
        BY <1>5, <3>1, <3>2
    <2>3. AckedRuleIsStored'
      <3> SUFFICES ASSUME NEW a \in acked' PROVE a.rule \in Elements(db'[a.tenant])
        BY DEF AckedRuleIsStored, Elements
      <3>1. CASE a.tenant = t
        BY <1>0, <1>3, <1>7, <2>2, <3>1 DEF AckedRuleIsListed, Elements
      <3>2. CASE a.tenant # t
        BY <1>2, <1>3, <1>5, <1>6, <1>7, <3>2 DEF AckedRuleIsStored
      <3>. QED
        BY <3>1, <3>2
    <2>4. AckedRuleIsInForce'
      <3> SUFFICES ASSUME NEW q \in up', NEW a \in acked', a.registered
                   PROVE  a.tenant \in tenants'[q] /\ a.rule \in Elements(engine'[q][a.tenant])
        BY DEF AckedRuleIsInForce, Elements
      <3>1. CASE a = Ack(p, t, r)
        <4>1. q = p /\ a.tenant = t /\ a.rule = r /\ (a.registered => t \in tenants'[p])
          BY <1>0, <1>2, <2>0, <3>1 DEF TypeOK
        <4>. QED
          BY <1>0, <4>1, AddKeeps
      <3>2. CASE a \in acked
        <4>1. /\ q \in Processes /\ a.tenant \in Tenants
              /\ a.tenant \in tenants'[q] /\ a.rule \in Elements(engine[q][a.tenant])
          BY <1>0, <1>6, <1>7, <3>2 DEF AckedRuleIsInForce, TypeOK
        <4>. QED
          BY <1>0, <4>1, AddKeeps
      <3>. QED
        BY <1>5, <3>1, <3>2
    <2>. QED
      BY <2>1, <2>2, <2>3, <2>4
  <1>8. PartOnlyOverFailures' /\ AckedRuleIsStored' /\ AckedRuleIsListed' /\ AckedRuleIsInForce'
    BY <1>7 DEF PartOnlyOverFailures, AckedRuleIsStored, AckedRuleIsListed, AckedRuleIsInForce
  <1>. QED
    BY <1>4, <1>8

\* A rule is added in memory and its save is refused or fails: no acknowledgement.
LEMMA AddFailsStep ==
  ASSUME PInv, NEW p \in Processes, NEW t \in Tenants, NEW r \in Rules,
         AddRefused(p, t, r) \/ AddFails(p, t, r)
  PROVE  PInv'
  <1> USE DEF PInv
  <1>0. AddInMemory(p, t, r) /\ p \in up /\ UNCHANGED <<up, tenants, db, acked>>
    BY AddFacts DEF AddRefused, AddFails
  <1>1. \/ behind' = behind /\ ~Unique(custom'[p][t])
        \/ behind' = [behind EXCEPT ![p] = behind[p] \cup {t}]
    BY DEF AddRefused, AddFails
  <1>2. TypeOK'
    <2>1. behind' \in [Processes -> SUBSET Tenants]
      BY <1>1 DEF TypeOK
    <2>. QED
      BY <1>0, <2>1, AddFacts DEF TypeOK
  <1>3. \A a \in acked : a.tenant \in Tenants
    BY DEF TypeOK
  <1>4. PartOnlyOverFailures'
    <2> SUFFICES ASSUME Cardinality(Processes) = 1, NEW q \in up', NEW u \in Tenants, custom'[q][u] # db'[u]
                 PROVE  u \in behind'[q] \/ ~Unique(custom'[q][u])
      BY DEF PartOnlyOverFailures, Unique
    <2>0. q = p
      BY <1>0, OneProcess DEF TypeOK
    <2>1. CASE u = t
      BY <1>1, <2>0, <2>1 DEF TypeOK
    <2>2. CASE u # t
      <3>1. custom'[q][u] = custom[q][u] /\ (u \in behind[q] => u \in behind'[q])
        BY <1>0, <1>1, <2>0, <2>2, AddFacts DEF TypeOK
      <3>. QED
        BY <1>0, <2>0, <3>1 DEF PartOnlyOverFailures
    <2>. QED
      BY <2>1, <2>2
  <1>5. AckedRuleIsListed'
    <2> SUFFICES ASSUME Cardinality(Processes) = 1, NEW q \in up', NEW a \in acked'
                 PROVE  a.rule \in Elements(custom'[q][a.tenant])
      BY DEF AckedRuleIsListed, Elements
    <2>1. q \in Processes /\ a.tenant \in Tenants /\ a.rule \in Elements(custom[q][a.tenant])
      BY <1>0, <1>3 DEF AckedRuleIsListed, TypeOK
    <2>. QED
      BY <1>0, <2>1, AddKeeps
  <1>6. AckedRuleIsInForce'
    <2> SUFFICES ASSUME Cardinality(Processes) = 1, NEW q \in up', NEW a \in acked', a.registered
                 PROVE  a.tenant \in tenants'[q] /\ a.rule \in Elements(engine'[q][a.tenant])
      BY DEF AckedRuleIsInForce, Elements
    <2>1. /\ q \in Processes /\ a.tenant \in Tenants
          /\ a.tenant \in tenants'[q] /\ a.rule \in Elements(engine[q][a.tenant])
      BY <1>0, <1>3 DEF AckedRuleIsInForce, TypeOK
    <2>. QED
      BY <1>0, <2>1, AddKeeps
  <1>7. AckedRuleIsStored'
    BY <1>0 DEF AckedRuleIsStored, Elements
  <1>. QED
    BY <1>2, <1>4, <1>5, <1>6, <1>7

\* A tenant is registered and gets what the table has of it, or it is deleted, and what
\* was acknowledged of it is no longer asked for.
LEMMA TenantStep ==
  ASSUME PInv, NEW p \in Processes, NEW t \in Tenants,
         register(p, t) \/ unregister(p, t) \/ UnregisterFails(p, t)
  PROVE  PInv'
  <1> USE DEF PInv
  <1>0. p \in up /\ UNCHANGED up
    BY DEF register, unregister, UnregisterFails, RemoveInMemory
  <1>1. PICK x \in Seq(Rules) :
          custom' = [custom EXCEPT ![p][t] = x] /\ engine' = [engine EXCEPT ![p][t] = x]
    <2>1. << >> \in Seq(Rules) /\ db[t] \in Seq(Rules)
      BY DEF TypeOK, Lists
    <2>2. CASE register(p, t)
      BY <2>1, <2>2 DEF register
    <2>3. CASE unregister(p, t) \/ UnregisterFails(p, t)
      BY <2>1, <2>3 DEF unregister, UnregisterFails, RemoveInMemory
    <2>. QED
      BY <2>2, <2>3
  <1>2. /\ engine' \in [Processes -> Lists] /\ custom' \in [Processes -> Lists]
        /\ custom'[p][t] = x /\ engine'[p][t] = x
        /\ \A q \in Processes, u \in Tenants :
              q # p \/ u # t => custom'[q][u] = custom[q][u] /\ engine'[q][u] = engine[q][u]
    <2>1. /\ custom' \in [Processes -> Lists] /\ custom'[p][t] = x
          /\ \A q \in Processes, u \in Tenants : q # p \/ u # t => custom'[q][u] = custom[q][u]
      BY <1>1 DEF TypeOK, Lists
    <2>2. /\ engine' \in [Processes -> Lists] /\ engine'[p][t] = x
          /\ \A q \in Processes, u \in Tenants : q # p \/ u # t => engine'[q][u] = engine[q][u]
      BY <1>1 DEF TypeOK, Lists
    <2>. QED
      BY <2>1, <2>2
  <1>3. /\ acked' \subseteq acked /\ \A a \in acked : a.tenant \in Tenants
        /\ db' \in Lists /\ behind' \in [Processes -> SUBSET Tenants]
        /\ tenants' \in [Processes -> SUBSET Tenants]
        /\ Default \in tenants'[p] /\ \A q \in up \ {p} : Default \in tenants'[q]
        /\ \A u \in Tenants \ {t} : /\ db'[u] = db[u]
                                    /\ u \in behind[p] => u \in behind'[p]
                                    /\ u \in tenants[p] => u \in tenants'[p]
    <2>1. CASE register(p, t)
      BY <2>1 DEF register, TypeOK
    <2>2. CASE unregister(p, t)
      BY <1>0, <2>2 DEF unregister, RemoveInMemory, TypeOK, Lists
    <2>3. CASE UnregisterFails(p, t)
      BY <1>0, <2>3 DEF UnregisterFails, RemoveInMemory, TypeOK
    <2>. QED
      BY <2>1, <2>2, <2>3
  <1>4. \/ x = db[t] /\ db'[t] = db[t] /\ t \in tenants'[p]
        \/ /\ \A a \in acked' : a.tenant # t
           /\ x = db'[t] \/ t \in behind'[p]
    <2>1. CASE register(p, t)
      BY <1>2, <2>1 DEF register, TypeOK, Lists
    <2>2. CASE unregister(p, t)
      BY <1>2, <2>2 DEF unregister, RemoveInMemory, TypeOK, Lists
    <2>3. CASE UnregisterFails(p, t)
      BY <2>3 DEF UnregisterFails, TypeOK
    <2>. QED
      BY <2>1, <2>2, <2>3
  <1>5. TypeOK'
    BY <1>0, <1>2, <1>3 DEF TypeOK
  <1>6. ASSUME Cardinality(Processes) = 1
        PROVE  PartOnlyOverFailures' /\ AckedRuleIsStored' /\ AckedRuleIsListed' /\ AckedRuleIsInForce'
    <2>0. \A q \in up' : q = p /\ q \in Processes
      BY <1>0, <1>6, OneProcess DEF TypeOK
    <2>1. PartOnlyOverFailures'
      <3> SUFFICES ASSUME NEW u \in Tenants, custom'[p][u] # db'[u]
                   PROVE  u \in behind'[p] \/ ~Unique(custom'[p][u])
        BY <2>0 DEF PartOnlyOverFailures, Unique
      <3>1. CASE u = t
        BY <1>2, <1>4, <3>1
      <3>2. CASE u # t
        BY <1>0, <1>2, <1>3, <1>6, <3>2 DEF PartOnlyOverFailures
      <3>. QED
        BY <3>1, <3>2
    <2>2. ASSUME NEW a \in acked'
          PROVE  /\ a.rule \in Elements(db'[a.tenant]) /\ a.rule \in Elements(custom'[p][a.tenant])
                 /\ a.registered => a.tenant \in tenants'[p] /\ a.rule \in Elements(engine'[p][a.tenant])
      <3>0. /\ a \in acked /\ a.tenant \in Tenants /\ a.rule \in Elements(db[a.tenant])
            /\ a.rule \in Elements(custom[p][a.tenant])
            /\ a.registered => a.tenant \in tenants[p] /\ a.rule \in Elements(engine[p][a.tenant])
        BY <1>0, <1>3, <1>6 DEF AckedRuleIsStored, AckedRuleIsListed, AckedRuleIsInForce
      <3>1. CASE a.tenant = t
        BY <1>2, <1>4, <3>0, <3>1
      <3>2. CASE a.tenant # t
        BY <1>2, <1>3, <3>0, <3>2
      <3>. QED
        BY <3>1, <3>2
    <2>3. AckedRuleIsStored'
      BY <2>2 DEF AckedRuleIsStored, Elements
    <2>4. AckedRuleIsListed'
      BY <2>0, <2>2 DEF AckedRuleIsListed, Elements
    <2>5. AckedRuleIsInForce'
      BY <2>0, <2>2 DEF AckedRuleIsInForce, Elements
    <2>. QED
      BY <2>1, <2>3, <2>4, <2>5
  <1>7. PartOnlyOverFailures' /\ AckedRuleIsStored' /\ AckedRuleIsListed' /\ AckedRuleIsInForce'
    BY <1>6 DEF PartOnlyOverFailures, AckedRuleIsStored, AckedRuleIsListed, AckedRuleIsInForce
  <1>. QED
    BY <1>5, <1>7

\* A process starts from the table, or ends.
LEMMA StartStopStep ==
  ASSUME PInv, NEW p \in Processes, Start(p) \/ Stop(p)
  PROVE  PInv'
  <1> USE DEF PInv
  <1>1. CASE Start(p)
    <2>0. /\ up' = up \cup {p} /\ p \notin up /\ UNCHANGED <<db, acked, behind>>
          /\ custom' = [custom EXCEPT ![p] = db] /\ engine' = [engine EXCEPT ![p] = db]
          /\ tenants' = [tenants EXCEPT ![p] = {Default} \cup {t \in Tenants : db[t] # << >>}]
      BY <1>1 DEF Start
    <2>1. custom'[p] = db /\ engine'[p] = db /\ tenants'[p] = {Default} \cup {t \in Tenants : db[t] # << >>}
      BY <2>0 DEF TypeOK
    <2>2. TypeOK'
      <3>1. custom' \in [Processes -> Lists] /\ engine' \in [Processes -> Lists]
        BY <2>0 DEF TypeOK
      <3>2. tenants' \in [Processes -> SUBSET Tenants] /\ \A q \in up' : Default \in tenants'[q]
        BY <2>0, TenantsAssumption DEF TypeOK
      <3>. QED
        BY <2>0, <3>1, <3>2 DEF TypeOK
    <2>3. ASSUME Cardinality(Processes) = 1
          PROVE  PartOnlyOverFailures' /\ AckedRuleIsStored' /\ AckedRuleIsListed' /\ AckedRuleIsInForce'
      <3>0. \A q \in up' : q = p
        BY <2>0, <2>3, OneProcess DEF TypeOK
      <3>1. PartOnlyOverFailures'
        BY <2>0, <2>1, <3>0 DEF PartOnlyOverFailures
      <3>2. ASSUME NEW a \in acked'
            PROVE  a.rule \in Elements(db[a.tenant]) /\ a.tenant \in tenants'[p]
        <4>1. a.rule \in Elements(db[a.tenant]) /\ a.tenant \in Tenants
          BY <2>0, <2>3 DEF AckedRuleIsStored, TypeOK
        <4>2. db[a.tenant] # << >>
          BY <4>1 DEF Elements
        <4>. QED
          BY <2>1, <4>1, <4>2
      <3>3. AckedRuleIsStored'
        BY <2>0, <3>2 DEF AckedRuleIsStored, Elements
      <3>4. AckedRuleIsListed'
        BY <2>1, <3>0, <3>2 DEF AckedRuleIsListed, Elements
      <3>5. AckedRuleIsInForce'
        BY <2>1, <3>0, <3>2 DEF AckedRuleIsInForce, Elements
      <3>. QED
        BY <3>1, <3>3, <3>4, <3>5
    <2>4. PartOnlyOverFailures' /\ AckedRuleIsStored' /\ AckedRuleIsListed' /\ AckedRuleIsInForce'
      BY <2>3 DEF PartOnlyOverFailures, AckedRuleIsStored, AckedRuleIsListed, AckedRuleIsInForce
    <2>. QED
      BY <2>2, <2>4
  <1>2. CASE Stop(p)
    <2>0. /\ up' = up \ {p} /\ UNCHANGED <<db, acked>>
          /\ custom' = [custom EXCEPT ![p] = Empty] /\ engine' = [engine EXCEPT ![p] = Empty]
          /\ tenants' = [tenants EXCEPT ![p] = {}] /\ behind' = [behind EXCEPT ![p] = {}]
      BY <1>2 DEF Stop
    <2>1. TypeOK'
      BY <2>0, EmptyIsLists DEF TypeOK
    <2>2. Cardinality(Processes) = 1 => up' = {}
      BY <2>0, OneProcess DEF TypeOK
    <2>3. PartOnlyOverFailures' /\ AckedRuleIsListed' /\ AckedRuleIsInForce'
      BY <2>2 DEF PartOnlyOverFailures, AckedRuleIsListed, AckedRuleIsInForce
    <2>4. AckedRuleIsStored'
      BY <2>0 DEF AckedRuleIsStored, Elements
    <2>. QED
      BY <2>1, <2>3, <2>4
  <1>. QED
    BY <1>1, <1>2

LEMMA PolicyStoreStep ==
  ASSUME PInv, Next \/ UNCHANGED vars
  PROVE  PInv'
  <1>1. CASE UNCHANGED vars
    BY <1>1 DEF vars, PInv, TypeOK, PartOnlyOverFailures, AckedRuleIsStored, AckedRuleIsListed,
                AckedRuleIsInForce, Elements, Unique
  <1>2. CASE Next
    BY <1>2, AddStep, AddFailsStep, TenantStep, StartStopStep DEF Next, Administer
  <1>. QED
    BY <1>1, <1>2

----------------------------------------------------------------------------
(* The action gate.                                                         *)

GInv == GateTyped /\ CacheIsOfItsKey /\ MemoIsOfItsRules /\ CitationsHold

\* The bytes of a regex policy are its tools and its canonical rules; without a pin
\* there is nothing to cite of another one.
LEMMA DigestOfRules ==
  ASSUME NEW tools, NEW rules
  PROVE  /\ policy.kind = "regex" =>
              engine_policy_digest(tools, rules, policy.kind, policy.pin)
                 = [tools |-> tools, rules |-> rules_canonical_digest(rules).rules]
         /\ policy.kind # "regex" /\ policy.pin = NoPin =>
              engine_policy_digest(tools, rules, policy.kind, policy.pin) = NoDigest
  BY DEF engine_policy_digest, engine_citation_bytes, rules_canonical_digest

LEMMA CitedIsInForce ==
  ASSUME GInv, NEW p \in Processes, NEW t \in Tenants, t \in tenants[p] \ (raced[p] \cup clearing[p]),
         policy.kind = "regex" \/ policy.pin = NoPin
  PROVE  CitedPolicyDigest(p, t) = InForce(p, t, allowlists[p][t])
  <1> DEFINE rules == IF policy.kind # "regex" \/ memo[p][t] # NoDigest THEN memo[p][t]
                      ELSE rules_canonical_digest(RulesOf(p, t))
             key == CacheKey(allowlists[p][t], rules)
  <1>1. CASE ~Cached(p, t, key)
    BY <1>1 DEF CitedPolicyDigest
  <1>2. CASE Cached(p, t, key)
    <2>1. CitedPolicyDigest(p, t) = cache[p][t].digest /\ cache[p][t] # NoCache /\ cache[p][t].key = key
      BY <1>2 DEF CitedPolicyDigest, Cached
    <2>2. key.tools = allowlists[p][t] /\ key.rules = rules
      BY DEF CacheKey
    <2>3. CASE policy.kind = "regex"
      <3>1. rules = rules_canonical_digest(RulesOf(p, t))
        BY <2>3 DEF GInv, MemoIsOfItsRules
      <3>2. cache[p][t].digest = [tools |-> key.tools, rules |-> key.rules.rules]
        BY <2>1, <2>3 DEF GInv, CacheIsOfItsKey
      <3>. QED
        BY <2>1, <2>2, <2>3, <3>1, <3>2, DigestOfRules DEF InForce
    <2>4. CASE policy.kind # "regex"
      BY <2>1, <2>4, DigestOfRules DEF GInv, CacheIsOfItsKey, InForce
    <2>. QED
      BY <2>3, <2>4
  <1>. QED
    BY <1>1, <1>2

\* An administrative step of a process concerns that process, and what its registered
\* tenants enforce.
LEMMA AdministerFacts ==
  ASSUME TypeOK, NEW p \in Processes, Administer(p) \/ Stop(p)
  PROVE  \A q \in Processes \ {p} : engine'[q] = engine[q] /\ tenants'[q] = tenants[q]
  <1>1. ASSUME NEW t \in Tenants, NEW r \in Rules, AddInMemory(p, t, r)
        PROVE  \A q \in Processes \ {p} : engine'[q] = engine[q] /\ tenants'[q] = tenants[q]
    BY <1>1 DEF AddInMemory, TypeOK
  <1>2. ASSUME NEW t \in Tenants, register(p, t) \/ RemoveInMemory(p, t)
        PROVE  \A q \in Processes \ {p} : engine'[q] = engine[q] /\ tenants'[q] = tenants[q]
    BY <1>2 DEF register, RemoveInMemory, TypeOK
  <1>3. ASSUME Start(p) \/ Stop(p)
        PROVE  \A q \in Processes \ {p} : engine'[q] = engine[q] /\ tenants'[q] = tenants[q]
    BY <1>3 DEF Start, Stop, TypeOK
  <1>. QED
    BY <1>1, <1>2, <1>3
       DEF Administer, add_policy_rule, AddRefused, AddFails, unregister, UnregisterFails

\* What is not touched stays as it is.
LEMMA SameCitation ==
  ASSUME NEW p, NEW c, CitationHolds(p, c), c.own # NoEngine \/
            /\ engine'[p][c.tenant] = engine[p][c.tenant] /\ memo'[p][c.tenant] = memo[p][c.tenant]
            /\ c.tenant \in tenants'[p] \ clearing'[p],
         UNCHANGED policy
  PROVE  CitationHolds(p, c)'
  BY DEF CitationHolds, EngineRules, EngineMemo, RulesOf, create_policy_engine

LEMMA AdministeredStep ==
  ASSUME TypeOK, TypeOK', GInv, NEW p \in Processes, Administered(p)
  PROVE  GInv'
  <1> DEFINE kept == tenants[p] \cap tenants'[p]
             grown == {t \in kept : engine'[p][t] # engine[p][t]}
             gone(i) == \E t \in tenants[p] \ kept : i \in CitingNow(p, t)
  <1>1. /\ clearing[p] = {} /\ Administer(p) /\ UNCHANGED <<policy, allowlists, cache>>
        /\ clearing' = [clearing EXCEPT ![p] = grown]
        /\ memo' = [memo EXCEPT ![p] = [t \in Tenants |-> IF t \in kept THEN memo[p][t] ELSE NoDigest]]
        /\ citing' = [citing EXCEPT ![p] = [i \in Threads |->
                         IF gone(i) THEN Left(p, citing[p][i]) ELSE citing[p][i]]]
        /\ raced' = [raced EXCEPT ![p] = raced[p] \cup {t \in grown : CitingNow(p, t) # {}}]
    BY DEF Administered
  <1>2. grown \subseteq Tenants /\ kept \subseteq Tenants
    BY DEF TypeOK
  <1>3. /\ clearing'[p] = grown /\ \A q \in Processes \ {p} : clearing'[q] = clearing[q]
        /\ raced'[p] = raced[p] \cup {t \in grown : CitingNow(p, t) # {}}
        /\ \A q \in Processes \ {p} : raced'[q] = raced[q]
        /\ clearing' \in [Processes -> SUBSET Tenants] /\ raced' \in [Processes -> SUBSET Tenants]
    BY <1>1, <1>2 DEF GInv, GateTyped
  <1>4. /\ \A t \in Tenants : memo'[p][t] = IF t \in kept THEN memo[p][t] ELSE NoDigest
        /\ \A q \in Processes \ {p} : memo'[q] = memo[q]
        /\ Table(memo', Tenants)
    <2>1. PICK S : memo \in [Processes -> [Tenants -> S]]
      BY DEF GInv, GateTyped, Table
    <2>2. memo' \in [Processes -> [Tenants -> S \cup {NoDigest}]]
      BY <1>1, <2>1
    <2>. QED
      BY <1>1, <2>1, <2>2 DEF Table
  <1>5. /\ \A i \in Threads : citing'[p][i] = IF gone(i) THEN Left(p, citing[p][i]) ELSE citing[p][i]
        /\ \A q \in Processes \ {p} : citing'[q] = citing[q]
        /\ Table(citing', Threads)
    <2>1. PICK S : citing \in [Processes -> [Threads -> S]]
      BY DEF GInv, GateTyped, Table
    <2>2. citing' \in [Processes -> [Threads -> S \cup {Left(p, citing[p][i]) : i \in Threads}]]
      BY <1>1, <2>1
    <2>. QED
      BY <1>1, <2>1, <2>2 DEF Table
  <1>6. \A q \in Processes \ {p} : engine'[q] = engine[q] /\ tenants'[q] = tenants[q]
    BY <1>1, AdministerFacts
  <1>7. ASSUME NEW i \in Threads, gone(i)
        PROVE  LET c == citing[p][i]
               IN  /\ c # Idle /\ IsCitation(c) /\ c.own = NoEngine /\ c.tenant \in tenants[p]
                   /\ Left(p, c) = Citation(c.at, c.tenant, c.tools, c.rules, c.digest,
                          [rules |-> RulesOf(p, c.tenant), memo |-> memo[p][c.tenant]])
    <2>1. citing[p][i] # Idle /\ citing[p][i].own = NoEngine /\ citing[p][i].tenant \in tenants[p]
      BY <1>7 DEF CitingNow
    <2>2. IsCitation(citing[p][i])
      BY <2>1 DEF GInv, GateTyped
    <2>. QED
      BY <2>1, <2>2 DEF Left, IsCitation, Citation
  <1> HIDE DEF kept, grown, gone
  <1>8. GateTyped'
    <2> SUFFICES ASSUME NEW q \in Processes, NEW i \in Threads
                 PROVE  citing'[q][i] = Idle \/ IsCitation(citing'[q][i])
      BY <1>1, <1>3, <1>4, <1>5 DEF GInv, GateTyped, Table, IsCitation
    <2>1. CASE q = p /\ gone(i)
      <3>1. citing'[q][i] = Left(p, citing[p][i])
        BY <1>5, <2>1
      <3>. QED
        <4> DEFINE c == citing[p][i]
                   own == [rules |-> RulesOf(p, c.tenant), memo |-> memo[p][c.tenant]]
        <4>1. /\ citing'[q][i] = Citation(c.at, c.tenant, c.tools, c.rules, c.digest, own)
              /\ c.at \in Points /\ c.tenant \in Tenants
          BY <1>7, <2>1, <3>1 DEF IsCitation
        <4>2. own = [rules |-> own.rules, memo |-> own.memo]
          OBVIOUS
        <4> HIDE DEF own, c
        <4>. QED
          BY <4>1, <4>2 DEF IsCitation, Citation
    <2>2. CASE ~(q = p /\ gone(i))
      <3>1. citing'[q][i] = citing[q][i]
        BY <1>5, <2>2
      <3>. QED
        BY <3>1 DEF GInv, GateTyped
    <2>. QED
      BY <2>1, <2>2
  <1>9. CacheIsOfItsKey'
    <2>1. \A q \in Processes : raced[q] \subseteq raced'[q]
      BY <1>3
    <2>. QED
      BY <1>1, <2>1 DEF GInv, CacheIsOfItsKey
  <1>10. MemoIsOfItsRules'
    <2> SUFFICES ASSUME policy.kind = "regex", NEW q \in Processes,
                        NEW t \in tenants'[q] \ (raced'[q] \cup clearing'[q])
                 PROVE  memo'[q][t] \in {NoDigest, rules_canonical_digest(RulesOf(q, t)')}
      BY <1>1 DEF MemoIsOfItsRules, rules_canonical_digest
    <2>0. t \in Tenants
      BY DEF TypeOK
    <2>1. ASSUME engine'[q][t] = engine[q][t] PROVE RulesOf(q, t)' = RulesOf(q, t)
      BY <1>1, <2>1 DEF RulesOf, create_policy_engine
    <2>2. CASE q # p
      BY <1>3, <1>4, <1>6, <2>1, <2>2 DEF GInv, MemoIsOfItsRules
    <2>3. CASE q = p /\ t \in kept
      <3>1. engine'[q][t] = engine[q][t] /\ t \in tenants[q] \ (raced[q] \cup clearing[q])
        BY <1>1, <1>3, <2>3 DEF grown, kept
      <3>. QED
        BY <1>4, <2>0, <2>1, <2>3, <3>1 DEF GInv, MemoIsOfItsRules
    <2>4. CASE q = p /\ t \notin kept
      BY <1>4, <2>0, <2>4
    <2>. QED
      BY <2>2, <2>3, <2>4
  <1>11. CitationsHold'
    <2> SUFFICES ASSUME policy.kind = "regex", NEW q \in Processes, NEW i \in Threads,
                        citing'[q][i] # Idle, citing'[q][i].tenant \notin raced'[q]
                 PROVE  CitationHolds(q, citing[q][i])'
      BY <1>1 DEF CitationsHold
    <2> DEFINE c == citing[q][i]
    <2>1. CASE q = p /\ gone(i)
      <3> DEFINE own == [rules |-> RulesOf(p, c.tenant), memo |-> memo[p][c.tenant]]
                 d == Citation(c.at, c.tenant, c.tools, c.rules, c.digest, own)
      <3>1. citing'[q][i] = d /\ c # Idle /\ c.own = NoEngine
        BY <1>5, <1>7, <2>1
      <3>2. c.tenant \notin raced[q]
        <4>1. d.tenant = c.tenant
          BY DEF Citation
        <4>. QED
          BY <1>3, <2>1, <3>1, <4>1
      <3>3. CitationHolds(p, c)
        BY <2>1, <3>1, <3>2 DEF GInv, CitationsHold
      <3>4. /\ d.own = own /\ own # NoEngine /\ d.at = c.at /\ d.rules = c.rules /\ d.digest = c.digest
            /\ own.rules = EngineRules(p, c) /\ own.memo = EngineMemo(p, c)
        BY <3>1 DEF Citation, NoEngine, EngineRules, EngineMemo
      <3> HIDE DEF d, own
      <3>. QED
        BY <2>1, <3>1, <3>3, <3>4 DEF CitationHolds, EngineRules, EngineMemo
    <2>2. CASE ~(q = p /\ gone(i))
      <3>1. citing'[q][i] = c /\ c # Idle /\ c.tenant \notin raced[q]
        BY <1>3, <1>5, <2>2
      <3>2. CitationHolds(q, c)
        BY <3>1 DEF GInv, CitationsHold
      <3>3. CASE q # p
        <4>1. UNCHANGED policy /\ engine'[q] = engine[q] /\ memo'[q] = memo[q] /\ tenants'[q] = tenants[q]
              /\ clearing'[q] = clearing[q]
          BY <1>1, <1>3, <1>4, <1>6, <3>3
        <4>2. c.own # NoEngine \/ c.tenant \in tenants'[q] \ clearing'[q]
          BY <3>2, <4>1 DEF CitationHolds
        <4>. QED
          BY <3>1, <3>2, <4>1, <4>2, SameCitation
      <3>4. CASE q = p /\ c.own # NoEngine
        BY <1>1, <3>1, <3>2, <3>4, SameCitation
      <3>5. CASE q = p /\ c.own = NoEngine
        <4>1. c.tenant \in tenants[p] /\ i \in CitingNow(p, c.tenant)
          BY <3>1, <3>2, <3>5 DEF CitationHolds, CitingNow
        <4>2. c.tenant \in kept /\ c.tenant \in Tenants
          BY <1>2, <2>2, <3>5, <4>1 DEF gone, TypeOK
        <4>3. c.tenant \notin grown
          BY <1>3, <3>1, <3>5, <4>1
        <4>. QED
          BY <1>1, <1>3, <1>4, <3>1, <3>2, <3>5, <4>2, <4>3, SameCitation DEF kept, grown
      <3>. QED
        BY <3>3, <3>4, <3>5
    <2>. QED
      BY <2>1, <2>2
  <1>. QED
    BY <1>8, <1>9, <1>10, <1>11 DEF GInv

\* The steps that no citation takes part in.
LEMMA AloneStep ==
  ASSUME TypeOK, TypeOK', GInv, NEW p \in Processes,
         \/ ClearMemo(p) \/ GateEnds(p)
         \/ \E t \in GateTenants, tools \in SUBSET Tools : register_tools(p, t, tools)
  PROVE  GInv'
  <1>1. CASE ClearMemo(p)
    <2>1. /\ memo' = [memo EXCEPT ![p] = [t \in Tenants |-> IF t \in clearing[p] THEN NoDigest ELSE memo[p][t]]]
          /\ clearing' = [clearing EXCEPT ![p] = {}]
          /\ UNCHANGED <<engine, tenants, policy, allowlists, cache, citing, raced>>
      BY <1>1 DEF ClearMemo, vars
    <2>2. /\ \A t \in Tenants : memo'[p][t] = IF t \in clearing[p] THEN NoDigest ELSE memo[p][t]
          /\ \A q \in Processes \ {p} : memo'[q] = memo[q] /\ clearing'[q] = clearing[q]
          /\ clearing'[p] = {} /\ Table(memo', Tenants)
      <3>1. PICK S : memo \in [Processes -> [Tenants -> S]]
        BY DEF GInv, GateTyped, Table
      <3>2. memo' \in [Processes -> [Tenants -> S \cup {NoDigest}]]
        BY <2>1, <3>1
      <3>. QED
        BY <2>1, <3>1, <3>2 DEF GInv, GateTyped, Table
    <2>3. GateTyped'
      <3>1. \A q \in Processes, i \in Threads : citing'[q][i] = Idle \/ IsCitation(citing'[q][i])
        BY <2>1 DEF GInv, GateTyped
      <3>2. clearing' \in [Processes -> SUBSET Tenants]
        BY <2>1 DEF GInv, GateTyped
      <3>. QED
        BY <2>1, <2>2, <3>1, <3>2 DEF GInv, GateTyped, Table, IsCitation
    <2>4. CacheIsOfItsKey'
      BY <2>1 DEF GInv, CacheIsOfItsKey
    <2>5. MemoIsOfItsRules'
      <3> SUFFICES ASSUME policy.kind = "regex", NEW q \in Processes, NEW t \in tenants[q] \ raced[q],
                          t \notin clearing'[q]
                   PROVE  memo'[q][t] \in {NoDigest, rules_canonical_digest(RulesOf(q, t))}
        BY <2>1 DEF MemoIsOfItsRules, RulesOf, create_policy_engine, rules_canonical_digest
      <3>1. t \in Tenants
        BY DEF TypeOK
      <3>. QED
        BY <2>2, <3>1 DEF GInv, MemoIsOfItsRules
    <2>6. CitationsHold'
      <3> SUFFICES ASSUME policy.kind = "regex", NEW q \in Processes, NEW i \in Threads,
                          citing[q][i] # Idle, citing[q][i].tenant \notin raced[q]
                   PROVE  CitationHolds(q, citing[q][i])'
        BY <2>1 DEF CitationsHold
      <3>1. CitationHolds(q, citing[q][i])
        BY DEF GInv, CitationsHold
      <3>2. citing[q][i].tenant \in Tenants
        BY DEF GInv, GateTyped, IsCitation
      <3>3. PICK c : c = citing[q][i]
        OBVIOUS
      <3>4. CASE c.own = NoEngine
        <4>1. c.tenant \in tenants[q] \ clearing[q]
          BY <3>1, <3>3, <3>4 DEF CitationHolds
        <4>2. memo'[q][c.tenant] = memo[q][c.tenant] /\ c.tenant \notin clearing'[q]
          BY <2>2, <3>2, <3>3, <4>1
        <4>. QED
          BY <2>1, <3>1, <3>3, <4>1, <4>2, SameCitation
      <3>5. CASE c.own # NoEngine
        BY <2>1, <3>1, <3>3, <3>5, SameCitation
      <3>. QED
        BY <3>4, <3>5
    <2>. QED
      BY <2>3, <2>4, <2>5, <2>6 DEF GInv
  <1>2. CASE GateEnds(p)
    <2>1. /\ Stop(p) /\ policy' = policy
          /\ allowlists' = [allowlists EXCEPT ![p] = [t \in Tenants |-> {}]]
          /\ cache' = [cache EXCEPT ![p] = [t \in Tenants |-> NoCache]]
          /\ memo' = [memo EXCEPT ![p] = [t \in Tenants |-> NoDigest]]
          /\ clearing' = [clearing EXCEPT ![p] = {}]
          /\ citing' = [citing EXCEPT ![p] = [i \in Threads |-> Idle]]
          /\ raced' = [raced EXCEPT ![p] = {}]
      BY <1>2 DEF GateEnds
    <2>2. /\ \A q \in Processes \ {p} : /\ cache'[q] = cache[q] /\ memo'[q] = memo[q]
                                        /\ clearing'[q] = clearing[q] /\ citing'[q] = citing[q]
                                        /\ raced'[q] = raced[q]
          /\ \A t \in Tenants : cache'[p][t] = NoCache /\ memo'[p][t] = NoDigest
          /\ \A i \in Threads : citing'[p][i] = Idle
          /\ Table(allowlists', Tenants) /\ Table(cache', Tenants) /\ Table(memo', Tenants)
          /\ Table(citing', Threads)
      <3>1. PICK S : /\ allowlists \in [Processes -> [Tenants -> S]] /\ cache \in [Processes -> [Tenants -> S]]
                     /\ memo \in [Processes -> [Tenants -> S]] /\ citing \in [Processes -> [Threads -> S]]
        <4>1. PICK A : allowlists \in [Processes -> [Tenants -> A]]
          BY DEF GInv, GateTyped, Table
        <4>2. PICK C : cache \in [Processes -> [Tenants -> C]]
          BY DEF GInv, GateTyped, Table
        <4>3. PICK M : memo \in [Processes -> [Tenants -> M]]
          BY DEF GInv, GateTyped, Table
        <4>4. PICK T : citing \in [Processes -> [Threads -> T]]
          BY DEF GInv, GateTyped, Table
        <4> WITNESS A \cup C \cup M \cup T
        <4>. QED
          BY <4>1, <4>2, <4>3, <4>4
      <3>2. /\ allowlists' \in [Processes -> [Tenants -> S \cup {{}}]]
            /\ cache' \in [Processes -> [Tenants -> S \cup {NoCache}]]
            /\ memo' \in [Processes -> [Tenants -> S \cup {NoDigest}]]
            /\ citing' \in [Processes -> [Threads -> S \cup {Idle}]]
        BY <2>1, <3>1
      <3>3. Table(allowlists', Tenants) /\ Table(cache', Tenants) /\ Table(memo', Tenants) /\ Table(citing', Threads)
        BY <3>2 DEF Table
      <3>. QED
        BY <2>1, <3>1, <3>3 DEF GInv, GateTyped
    <2>3. \A q \in Processes \ {p} : engine'[q] = engine[q] /\ tenants'[q] = tenants[q]
      BY <2>1, AdministerFacts
    <2>4. GateTyped'
      <3>1. ASSUME NEW q \in Processes, NEW i \in Threads
            PROVE  citing'[q][i] = Idle \/ IsCitation(citing'[q][i])
        BY <2>2 DEF GInv, GateTyped
      <3>2. clearing' \in [Processes -> SUBSET Tenants] /\ raced' \in [Processes -> SUBSET Tenants]
        BY <2>1 DEF GInv, GateTyped
      <3>. QED
        BY <2>1, <2>2, <3>1, <3>2 DEF GInv, GateTyped, Table, IsCitation
    <2>5. CacheIsOfItsKey'
      BY <2>1, <2>2 DEF GInv, CacheIsOfItsKey
    <2>6. MemoIsOfItsRules'
      <3> SUFFICES ASSUME policy.kind = "regex", NEW q \in Processes,
                          NEW t \in tenants'[q] \ (raced'[q] \cup clearing'[q])
                   PROVE  memo'[q][t] \in {NoDigest, rules_canonical_digest(RulesOf(q, t)')}
        BY <2>1 DEF MemoIsOfItsRules, rules_canonical_digest
      <3>1. CASE q = p
        BY <2>2, <3>1 DEF TypeOK
      <3>2. CASE q # p
        <4>1. RulesOf(q, t)' = RulesOf(q, t)
          BY <2>1, <2>3, <3>2 DEF RulesOf, create_policy_engine
        <4>. QED
          BY <2>2, <2>3, <3>2, <4>1 DEF GInv, MemoIsOfItsRules
      <3>. QED
        BY <3>1, <3>2
    <2>7. CitationsHold'
      <3> SUFFICES ASSUME policy.kind = "regex", NEW q \in Processes, NEW i \in Threads,
                          citing'[q][i] # Idle, citing'[q][i].tenant \notin raced'[q]
                   PROVE  CitationHolds(q, citing[q][i])'
        BY <2>1 DEF CitationsHold
      <3>1. q # p /\ citing'[q][i] = citing[q][i] /\ raced'[q] = raced[q]
        BY <2>2
      <3>2. CitationHolds(q, citing[q][i])
        BY <3>1 DEF GInv, CitationsHold
      <3>3. ASSUME NEW c, CitationHolds(q, c) PROVE CitationHolds(q, c)'
        BY <2>1, <2>2, <2>3, <3>1, <3>3, SameCitation DEF CitationHolds
      <3>. QED
        BY <3>1, <3>2, <3>3
    <2>. QED
      BY <2>4, <2>5, <2>6, <2>7 DEF GInv
  <1>3. ASSUME NEW t \in GateTenants, NEW tools, register_tools(p, t, tools)
        PROVE  GInv'
    <2>1. /\ UNCHANGED <<engine, tenants, policy, memo, clearing, citing, raced>>
          /\ allowlists' = [allowlists EXCEPT ![p][t] = tools]
          /\ cache' = [cache EXCEPT ![p][t] = NoCache]
      BY <1>3 DEF register_tools, vars
    <2>2. /\ \A q \in Processes, u \in Tenants : cache'[q][u] = NoCache \/ cache'[q][u] = cache[q][u]
          /\ Table(cache', Tenants) /\ Table(allowlists', Tenants)
      <3>0. t \in Tenants
        BY GateTenantsAssumption
      <3>1. PICK A : allowlists \in [Processes -> [Tenants -> A]]
        BY DEF GInv, GateTyped, Table
      <3>2. PICK C : cache \in [Processes -> [Tenants -> C]]
        BY DEF GInv, GateTyped, Table
      <3>3. /\ allowlists' \in [Processes -> [Tenants -> A \cup {tools}]]
            /\ cache' \in [Processes -> [Tenants -> C \cup {NoCache}]]
        BY <2>1, <3>0, <3>1, <3>2
      <3>. QED
        BY <2>1, <3>0, <3>2, <3>3 DEF Table
    <2>3. GateTyped'
      <3>1. \A q \in Processes, i \in Threads : citing'[q][i] = Idle \/ IsCitation(citing'[q][i])
        BY <2>1 DEF GInv, GateTyped
      <3>2. clearing' \in [Processes -> SUBSET Tenants]
        BY <2>1 DEF GInv, GateTyped
      <3>. QED
        BY <2>1, <2>2, <3>1, <3>2 DEF GInv, GateTyped, Table, IsCitation
    <2>4. CacheIsOfItsKey'
      BY <2>1, <2>2 DEF GInv, CacheIsOfItsKey
    <2>5. MemoIsOfItsRules' /\ CitationsHold'
      BY <2>1 DEF GInv, MemoIsOfItsRules, CitationsHold, CitationHolds, RulesOf, create_policy_engine,
                  EngineRules, EngineMemo, rules_canonical_digest
    <2>. QED
      BY <2>3, <2>4, <2>5 DEF GInv
  <1>. QED
    BY <1>1, <1>2, <1>3

\* A thread goes on with a citation that holds, whatever it caches and keeps is what
\* the key and the rules say, and nothing else changes.
LEMMA ThreadStep ==
  ASSUME TypeOK, GInv, NEW p \in Processes, NEW i \in Threads, NEW d, Goes(p, i, d),
         d = Idle \/ IsCitation(d),
         d # Idle /\ policy.kind = "regex" /\ d.tenant \notin raced'[p] => CitationHolds(p, d)',
         raced' \in [Processes -> SUBSET Tenants], \A q \in Processes : raced[q] \subseteq raced'[q],
         NEW t \in Tenants, NEW e, cache' = cache \/ cache' = [cache EXCEPT ![p][t] = e],
         cache' # cache =>
            /\ policy.kind = "regex" /\ t \notin raced[p] =>
                  e.digest = [tools |-> e.key.tools, rules |-> e.key.rules.rules]
            /\ policy.kind # "regex" /\ policy.pin = NoPin => e.digest = NoDigest,
         NEW m, memo' = memo \/ memo' = [memo EXCEPT ![p][t] = m],
         memo' # memo /\ policy.kind = "regex" /\ t \notin raced[p] =>
            m = rules_canonical_digest(RulesOf(p, t))
  PROVE  GInv'
  <1>1. UNCHANGED <<engine, tenants, policy, allowlists, clearing>> /\ citing' = [citing EXCEPT ![p][i] = d]
    BY DEF Goes, vars
  <1>0. Table(citing, Threads) /\ Table(cache, Tenants) /\ Table(memo, Tenants)
    BY DEF GInv, GateTyped
  <1>2. /\ citing'[p][i] = d
        /\ \A q \in Processes, j \in Threads : q # p \/ j # i => citing'[q][j] = citing[q][j]
        /\ Table(citing', Threads)
    <2>1. PICK S : citing \in [Processes -> [Threads -> S]]
      BY <1>0 DEF Table
    <2>2. citing' \in [Processes -> [Threads -> S \cup {d}]]
      BY <1>1, <2>1
    <2>. QED
      BY <1>1, <2>1, <2>2 DEF Table
  <1>3. /\ \A q \in Processes, u \in Tenants : cache'[q][u] = cache[q][u] \/ (q = p /\ u = t /\ cache'[q][u] = e)
        /\ Table(cache', Tenants)
    <2>1. CASE cache' = cache
      BY <1>0, <2>1
    <2>2. CASE cache' = [cache EXCEPT ![p][t] = e]
      <3>1. PICK S : cache \in [Processes -> [Tenants -> S]]
        BY <1>0 DEF Table
      <3>2. cache' \in [Processes -> [Tenants -> S \cup {e}]]
        BY <2>2, <3>1
      <3>. QED
        BY <2>2, <3>1, <3>2 DEF Table
    <2>. QED
      BY <2>1, <2>2
  <1>4. /\ \A q \in Processes, u \in Tenants : memo'[q][u] = memo[q][u] \/ (q = p /\ u = t /\ memo'[q][u] = m)
        /\ Table(memo', Tenants)
    <2>1. CASE memo' = memo
      BY <1>0, <2>1
    <2>2. CASE memo' = [memo EXCEPT ![p][t] = m]
      <3>1. PICK S : memo \in [Processes -> [Tenants -> S]]
        BY <1>0 DEF Table
      <3>2. memo' \in [Processes -> [Tenants -> S \cup {m}]]
        BY <2>2, <3>1
      <3>. QED
        BY <2>2, <3>1, <3>2 DEF Table
    <2>. QED
      BY <2>1, <2>2
  <1>5. GateTyped'
    <2>1. ASSUME NEW q \in Processes, NEW j \in Threads
          PROVE  citing'[q][j] = Idle \/ IsCitation(citing'[q][j])
      BY <1>2 DEF GInv, GateTyped
    <2>. QED
      BY <1>1, <1>2, <1>3, <1>4, <2>1 DEF GInv, GateTyped, Table, IsCitation
  <1>6. CacheIsOfItsKey'
    BY <1>1, <1>3 DEF GInv, CacheIsOfItsKey
  <1>7. MemoIsOfItsRules'
    <2> SUFFICES ASSUME policy.kind = "regex", NEW q \in Processes,
                        NEW u \in tenants[q] \ (raced[q] \cup clearing[q])
                 PROVE  memo'[q][u] \in {NoDigest, rules_canonical_digest(RulesOf(q, u))}
      BY <1>1 DEF MemoIsOfItsRules, RulesOf, create_policy_engine, rules_canonical_digest
    <2>1. u \in Tenants /\ memo[q][u] \in {NoDigest, rules_canonical_digest(RulesOf(q, u))}
      BY DEF TypeOK, GInv, MemoIsOfItsRules
    <2>. QED
      BY <1>4, <2>1
  <1>8. CitationsHold'
    <2> SUFFICES ASSUME policy.kind = "regex", NEW q \in Processes, NEW j \in Threads,
                        citing'[q][j] # Idle, citing'[q][j].tenant \notin raced'[q]
                 PROVE  CitationHolds(q, citing[q][j])'
      BY <1>1 DEF CitationsHold
    <2>1. CASE q = p /\ j = i
      BY <1>2, <2>1
    <2>2. CASE q # p \/ j # i
      <3>1. PICK c : c = citing[q][j]
        OBVIOUS
      <3>2. citing'[q][j] = c /\ c # Idle /\ c.tenant \notin raced[q] /\ c.tenant \in Tenants
        <4>1. citing'[q][j] = c /\ c # Idle
          BY <1>2, <2>2, <3>1
        <4>2. IsCitation(c)
          BY <3>1, <4>1 DEF GInv, GateTyped
        <4>. QED
          BY <4>1, <4>2 DEF IsCitation
      <3>3. CitationHolds(q, c)
        BY <3>1, <3>2 DEF GInv, CitationsHold
      <3>4. CASE c.own # NoEngine \/ memo'[q][c.tenant] = memo[q][c.tenant]
        BY <1>1, <3>2, <3>3, <3>4, SameCitation DEF CitationHolds
      <3>5. CASE c.own = NoEngine /\ memo'[q][c.tenant] # memo[q][c.tenant]
        <4>1. q = p /\ c.tenant = t /\ memo'[q][c.tenant] = rules_canonical_digest(RulesOf(p, t))
          BY <1>4, <3>2, <3>5
        <4>2. EngineRules(q, c)' = RulesOf(p, t) /\ EngineRules(q, c) = RulesOf(p, t)
          BY <1>1, <3>5, <4>1 DEF EngineRules, RulesOf, create_policy_engine
        <4>3. EngineMemo(q, c)' = rules_canonical_digest(RulesOf(p, t))
          BY <3>5, <4>1 DEF EngineMemo
        <4>4. rules_canonical_digest(EngineRules(q, c))' = rules_canonical_digest(RulesOf(p, t))
          BY <4>2 DEF rules_canonical_digest
        <4>5. CitationHolds(q, c)'
          BY <1>1, <3>3, <3>5, <4>1, <4>2, <4>3, <4>4 DEF CitationHolds
        <4>. QED
          BY <3>2, <4>5
      <3>. QED
        BY <3>4, <3>5
    <2>. QED
      BY <2>1, <2>2
  <1>. QED
    BY <1>5, <1>6, <1>7, <1>8 DEF GInv

\* Each step of a citation is one that ThreadStep allows.
LEMMA CiteStep ==
  ASSUME TypeOK, GInv, NEW p \in Processes, NEW i \in Threads, Cite(p, i)
  PROVE  GInv'
  <1>0. ASSUME citing[p][i] # Idle
        PROVE  /\ IsCitation(citing[p][i])
               /\ policy.kind = "regex" /\ citing[p][i].tenant \notin raced[p] =>
                     CitationHolds(p, citing[p][i])
    BY <1>0 DEF GInv, GateTyped, CitationsHold
  <1>1. \A point : point # "idle" /\ At(p, i, point) => citing[p][i] # Idle
    BY DEF At, Idle
  <1>2. raced \in [Processes -> SUBSET Tenants]
    BY DEF GInv, GateTyped
  <1>3. ASSUME NEW t \in GateTenants, CiteTools(p, i, t)
        PROVE  GInv'
    <2>1. PICK d : d = Citation("rules", t, allowlists[p][t], << >>, NoDigest, NoEngine)
      OBVIOUS
    <2>2. /\ Goes(p, i, d) /\ t \in tenants[p] /\ t \in Tenants /\ cache' = cache /\ memo' = memo
          /\ raced' = [raced EXCEPT ![p] = raced[p] \cup ({t} \cap clearing[p])]
      BY <1>3, <2>1, GateTenantsAssumption DEF CiteTools
    <2>3. /\ d.tenant = t /\ d.at = "rules" /\ d.own = NoEngine /\ IsCitation(d)
      BY <2>1, <2>2 DEF Citation, IsCitation, Points
    <2>4. /\ raced' \in [Processes -> SUBSET Tenants] /\ \A q \in Processes : raced[q] \subseteq raced'[q]
          /\ t \notin raced'[p] => t \notin clearing[p] /\ t \notin raced[p]
      BY <1>2, <2>2
    <2>5. ASSUME policy.kind = "regex", t \notin raced'[p]
          PROVE  CitationHolds(p, d)'
      <3>1. memo[p][t] \in {NoDigest, rules_canonical_digest(RulesOf(p, t))}
        BY <2>2, <2>4, <2>5 DEF GInv, MemoIsOfItsRules
      <3>2. UNCHANGED <<engine, tenants, policy, clearing, memo>>
        BY <2>2 DEF Goes, vars
      <3>3. CitationHolds(p, d)
        BY <2>2, <2>3, <2>4, <2>5, <3>1 DEF CitationHolds, EngineRules, EngineMemo
      <3>. QED
        BY <2>2, <2>3, <2>4, <2>5, <3>2, <3>3, SameCitation
    <2>. QED
      BY <2>2, <2>3, <2>4, <2>5, ThreadStep
  <1>4. ASSUME CiteRules(p, i) \/ MemoRead(p, i) \/ MemoReturn(p, i)
        PROVE  GInv'
    <2>1. PICK c : c = citing[p][i]
      OBVIOUS
    <2>2. c # Idle /\ IsCitation(c)
      BY <1>0, <1>1, <1>4, <2>1 DEF CiteRules, MemoRead, MemoReturn
    <2>3. PICK d : /\ Goes(p, i, d)
                   /\ \/ /\ c.at = "rules"
                         /\ d = [c EXCEPT !.rules = EngineRules(p, c),
                                          !.at = IF policy.kind = "regex" THEN "memo" ELSE "lookup"]
                      \/ c.at = "memo" /\ EngineMemo(p, c) # NoDigest /\ d = [c EXCEPT !.at = "key"]
                      \/ /\ c.at = "memo"
                         /\ d = [c EXCEPT !.at = "fill", !.digest = rules_canonical_digest(EngineRules(p, c))]
                      \/ c.at = "key" /\ d = [c EXCEPT !.at = "lookup", !.digest = EngineMemo(p, c)]
      BY <1>4, <2>1 DEF CiteRules, MemoRead, MemoReturn, At
    <2>4. /\ IsCitation(d) /\ d.tenant = c.tenant /\ d.own = c.own
          /\ \/ c.at = "rules" /\ d.rules = EngineRules(p, c) /\ d.at = (IF policy.kind = "regex" THEN "memo" ELSE "lookup")
             \/ c.at = "memo" /\ EngineMemo(p, c) # NoDigest /\ d.rules = c.rules /\ d.at = "key"
             \/ /\ c.at = "memo" /\ d.rules = c.rules /\ d.at = "fill"
                /\ d.digest = rules_canonical_digest(EngineRules(p, c))
             \/ c.at = "key" /\ d.rules = c.rules /\ d.at = "lookup" /\ d.digest = EngineMemo(p, c)
      <3>1. c = Citation(c.at, c.tenant, c.tools, c.rules, c.digest, c.own)
        BY <2>2 DEF IsCitation
      <3>. QED
        BY <2>2, <2>3, <3>1 DEF Citation, IsCitation, Points
    <2>5. UNCHANGED <<engine, tenants, policy, clearing, memo, cache, raced>>
      BY <1>4 DEF CiteRules, MemoRead, MemoReturn, Goes, vars
    <2>6. ASSUME policy.kind = "regex", d.tenant \notin raced[p]
          PROVE  CitationHolds(p, d)'
      <3>1. CitationHolds(p, c)
        BY <1>0, <2>1, <2>2, <2>4, <2>6
      <3>2. EngineRules(p, d) = EngineRules(p, c) /\ EngineMemo(p, d) = EngineMemo(p, c)
        BY <2>4 DEF EngineRules, EngineMemo
      <3>3. CitationHolds(p, d)
        BY <2>4, <2>6, <3>1, <3>2 DEF CitationHolds
      <3>. QED
        BY <2>4, <2>5, <3>1, <3>3, SameCitation DEF CitationHolds
    <2>7. c.tenant \in Tenants
      BY <2>2 DEF IsCitation
    <2>. QED
      BY <1>2, <2>3, <2>4, <2>5, <2>6, <2>7, ThreadStep
  <1>5. ASSUME MemoFill(p, i)
        PROVE  GInv'
    <2>1. PICK c : c = citing[p][i]
      OBVIOUS
    <2>2. c # Idle /\ IsCitation(c) /\ c.at = "fill" /\ c.tenant \in Tenants
      BY <1>0, <1>1, <1>5, <2>1 DEF MemoFill, At, IsCitation
    <2>3. c = Citation(c.at, c.tenant, c.tools, c.rules, c.digest, c.own)
      BY <2>2 DEF IsCitation
    <2>4. cache' = cache /\ raced' = raced
      BY <1>5 DEF MemoFill
    <2>5. CASE c.own = NoEngine
      <3>1. PICK d : d = [c EXCEPT !.at = "key"]
        OBVIOUS
      <3>2. Goes(p, i, d) /\ memo' = [memo EXCEPT ![p][c.tenant] = c.digest]
        BY <1>5, <2>1, <2>5, <3>1 DEF MemoFill
      <3>3. IsCitation(d) /\ d.tenant = c.tenant /\ d.own = NoEngine /\ d.rules = c.rules /\ d.at = "key"
        BY <2>2, <2>3, <2>5, <3>1 DEF Citation, IsCitation, Points
      <3>4. memo'[p][c.tenant] = c.digest
        <4>1. PICK S : memo \in [Processes -> [Tenants -> S]]
          BY DEF GInv, GateTyped, Table
        <4>. QED
          BY <2>2, <3>2, <4>1
      <3>5. ASSUME policy.kind = "regex", c.tenant \notin raced[p]
            PROVE  /\ c.digest = rules_canonical_digest(RulesOf(p, c.tenant))
                   /\ CitationHolds(p, d)'
        <4>1. CitationHolds(p, c)
          BY <1>0, <2>1, <2>2, <3>5
        <4>2. c.digest = rules_canonical_digest(RulesOf(p, c.tenant))
          BY <2>2, <2>5, <4>1 DEF CitationHolds, EngineRules
        <4>3. UNCHANGED <<engine, tenants, policy, clearing>>
          BY <3>2 DEF Goes, vars
        <4>4. EngineRules(p, d)' = RulesOf(p, c.tenant) /\ EngineMemo(p, d)' = c.digest
          BY <3>3, <3>4, <4>3 DEF EngineRules, EngineMemo, RulesOf, create_policy_engine
        <4>5. rules_canonical_digest(EngineRules(p, d))' = rules_canonical_digest(RulesOf(p, c.tenant))
          BY <4>4 DEF rules_canonical_digest
        <4>6. d.rules = RulesOf(p, c.tenant) /\ c.tenant \in tenants'[p] \ clearing'[p]
          BY <2>2, <2>5, <3>3, <4>1, <4>3 DEF CitationHolds, EngineRules
        <4>. QED
          BY <3>3, <4>2, <4>4, <4>5, <4>6 DEF CitationHolds
      <3>. QED
        BY <1>2, <2>2, <2>4, <3>2, <3>3, <3>5, ThreadStep
    <2>6. CASE c.own # NoEngine
      <3>1. PICK d : d = [c EXCEPT !.at = "key", !.own.memo = c.digest]
        OBVIOUS
      <3>2. Goes(p, i, d) /\ memo' = memo
        BY <1>5, <2>1, <2>6, <3>1 DEF MemoFill
      <3>3. c.own = [rules |-> c.own.rules, memo |-> c.own.memo]
        BY <2>2, <2>6 DEF IsCitation
      <3>4. d = Citation("key", c.tenant, c.tools, c.rules, c.digest, [rules |-> c.own.rules, memo |-> c.digest])
        BY <2>3, <3>1, <3>3 DEF Citation
      <3>5. /\ IsCitation(d) /\ d.tenant = c.tenant /\ d.own # NoEngine /\ d.rules = c.rules /\ d.at = "key"
            /\ d.own.rules = c.own.rules /\ d.own.memo = c.digest
        BY <2>2, <3>4 DEF Citation, IsCitation, Points, NoEngine
      <3>6. ASSUME policy.kind = "regex", c.tenant \notin raced[p]
            PROVE  CitationHolds(p, d)'
        <4>1. CitationHolds(p, c)
          BY <1>0, <2>1, <2>2, <3>6
        <4>2. CitationHolds(p, d)
          BY <2>2, <2>6, <3>5, <4>1 DEF CitationHolds, EngineRules, EngineMemo
        <4>3. UNCHANGED policy
          BY <3>2 DEF Goes
        <4>. QED
          BY <3>5, <4>2, <4>3, SameCitation
      <3>. QED
        BY <1>2, <2>2, <2>4, <3>2, <3>5, <3>6, ThreadStep
    <2>. QED
      BY <2>5, <2>6
  <1>6. ASSUME CiteLookup(p, i) \/ CiteKeep(p, i)
        PROVE  GInv'
    <2>1. PICK c : c = citing[p][i]
      OBVIOUS
    <2>2. c # Idle /\ IsCitation(c) /\ c.at \in {"lookup", "keep"} /\ c.tenant \in Tenants
      BY <1>0, <1>1, <1>6, <2>1 DEF CiteLookup, CiteKeep, At, IsCitation
    <2>3. PICK e : e = [key |-> CacheKey(c.tools, c.digest),
                        digest |-> engine_policy_digest(c.tools, c.rules, policy.kind, policy.pin)]
      OBVIOUS
    <2>4. UNCHANGED <<memo, raced>> /\ (cache' = cache \/ cache' = [cache EXCEPT ![p][c.tenant] = e])
      BY <1>6, <2>1, <2>3 DEF CiteLookup, CiteKeep
    <2>5. PICK d : Goes(p, i, d) /\ (d = Idle \/ d = [c EXCEPT !.at = "keep"])
      BY <1>6, <2>1 DEF CiteLookup, CiteKeep
    <2>6. d # Idle => /\ IsCitation(d) /\ d.tenant = c.tenant /\ d.own = c.own /\ d.rules = c.rules
                      /\ d.digest = c.digest /\ d.at = "keep"
      <3>1. c = Citation(c.at, c.tenant, c.tools, c.rules, c.digest, c.own)
        BY <2>2 DEF IsCitation
      <3>. QED
        BY <2>2, <2>5, <3>1 DEF Citation, IsCitation, Points
    <2>7. ASSUME policy.kind = "regex", c.tenant \notin raced[p]
          PROVE  c.digest = rules_canonical_digest(c.rules) /\ (d # Idle => CitationHolds(p, d)')
      <3>1. CitationHolds(p, c)
        BY <1>0, <2>1, <2>2, <2>7
      <3>2. d # Idle => CitationHolds(p, d)
        BY <2>2, <2>6, <3>1 DEF CitationHolds, EngineRules, EngineMemo
      <3>3. UNCHANGED <<engine, tenants, policy, clearing, memo>>
        BY <2>4, <2>5 DEF Goes, vars
      <3>4. c.digest = rules_canonical_digest(c.rules)
        BY <2>2, <3>1 DEF CitationHolds
      <3>5. d # Idle => CitationHolds(p, d)'
        BY <3>2, <3>3, SameCitation DEF CitationHolds
      <3>. QED
        BY <3>4, <3>5
    <2>8. /\ e.key.tools = c.tools /\ e.key.rules = c.digest
          /\ e.digest = engine_policy_digest(c.tools, c.rules, policy.kind, policy.pin)
      BY <2>3 DEF CacheKey
    <2>9. /\ policy.kind = "regex" /\ c.tenant \notin raced[p] =>
                e.digest = [tools |-> e.key.tools, rules |-> e.key.rules.rules]
          /\ policy.kind # "regex" /\ policy.pin = NoPin => e.digest = NoDigest
      BY <2>7, <2>8, DigestOfRules
    <2>. QED
      BY <1>2, <2>2, <2>4, <2>5, <2>6, <2>7, <2>9, ThreadStep
  <1>. QED
    BY <1>3, <1>4, <1>5, <1>6 DEF Cite

LEMMA GateStep ==
  ASSUME TypeOK, TypeOK', GInv, [EnforcementNext]_enforcementVars
  PROVE  GInv'
  <1>1. CASE UNCHANGED enforcementVars
    <2>1. UNCHANGED <<engine, tenants, policy, allowlists, cache, memo, clearing, citing, raced>>
      BY <1>1 DEF enforcementVars, vars, gate
    <2>2. GateTyped'
      BY <2>1 DEF GInv, GateTyped, Table, IsCitation
    <2>3. CacheIsOfItsKey'
      BY <2>1 DEF GInv, CacheIsOfItsKey
    <2>4. MemoIsOfItsRules' /\ CitationsHold'
      BY <2>1 DEF GInv, MemoIsOfItsRules, CitationsHold, CitationHolds, RulesOf, create_policy_engine,
                  EngineRules, EngineMemo, rules_canonical_digest
    <2>. QED
      BY <2>2, <2>3, <2>4 DEF GInv
  <1>2. CASE EnforcementNext
    BY <1>2, AdministeredStep, AloneStep, CiteStep DEF EnforcementNext
  <1>. QED
    BY <1>1, <1>2

----------------------------------------------------------------------------
(* An added rule and the decisions.                                         *)

\* The three outcomes of the rules alone.
LEMMA EvaluateAction ==
  ASSUME NEW rules, NEW content
  PROVE  evaluate(rules, content).action =
            IF Hit(rules, content, "deny") # {} THEN "deny"
            ELSE IF Hit(rules, content, "audit") # {} THEN "audit" ELSE "allow"
  BY DEF evaluate, PolicyResult

\* What the rules hit they still hit when one more follows them.
LEMMA AppendHits ==
  ASSUME NEW S, NEW rules \in Seq(S), NEW r \in S, NEW content, NEW action
  PROVE  Hit(rules, content, action) \subseteq Hit(Append(rules, r), content, action)
  <1>1. \A i \in DOMAIN rules : i \in DOMAIN Append(rules, r) /\ Append(rules, r)[i] = rules[i]
    OBVIOUS
  <1>. QED
    BY <1>1 DEF Hit

\* A stricter result of the rules stays a stricter result of each engine, whatever OPA
\* answers.
LEMMA EnginesKeepOrder ==
  ASSUME NEW kind \in Kinds, NEW was, NEW is, NEW a \in OpaAnswers,
         was.action \in Actions, is.action \in Actions, Severity[was.action] <= Severity[is.action]
  PROVE  /\ Severity[Decided(kind, was, a).action] <= Severity[Decided(kind, is, a).action]
         /\ Severity[DecidedWithMetadata(kind, was, a).action]
               <= Severity[DecidedWithMetadata(kind, is, a).action]
  <1>0. Severity["allow"] = 0 /\ Severity["audit"] = 1 /\ Severity["deny"] = 2
    BY DEF Severity
  <1>1. \A x : OpaDenial(a).action = "deny" /\ PolicyResult("audit", x).action = "audit"
    BY DEF OpaDenial, PolicyResult
  <1>2. CASE kind = "regex"
    BY <1>2 DEF Decided, DecidedWithMetadata
  <1>3. CASE kind = "opa"
    <2>1. Severity[opa_evaluate(was, a).action] <= Severity[opa_evaluate(is, a).action]
      BY <1>0, <1>1 DEF opa_evaluate, Actions
    <2>2. Severity[opa_evaluate_with_metadata(was, a).action]
             <= Severity[opa_evaluate_with_metadata(is, a).action]
      BY <1>0, <1>1 DEF opa_evaluate_with_metadata, Actions
    <2>. QED
      BY <1>3, <2>1, <2>2 DEF Decided, DecidedWithMetadata
  <1>4. CASE kind = "hybrid"
    <2>1. Severity[hybrid_evaluate(was, a).action] <= Severity[hybrid_evaluate(is, a).action]
      BY <1>0, <1>1 DEF hybrid_evaluate, Actions
    <2> DEFINE opa == opa_evaluate_with_metadata(PolicyResult("allow", NoRule), a)
    <2>2. opa.action \in {"deny", "allow"}
      BY <1>1 DEF opa_evaluate_with_metadata, PolicyResult
    <2> HIDE DEF opa
    <2>4. ASSUME NEW x
          PROVE  hybrid_evaluate_with_metadata(x, a) =
                    IF \/ x.action = "deny" \/ opa.rule = "opa_unavailable"
                       \/ x.action = "audit" /\ opa.action # "deny"
                    THEN x ELSE opa
      BY DEF hybrid_evaluate_with_metadata, opa
    <2>5. Severity[hybrid_evaluate_with_metadata(was, a).action]
             <= Severity[hybrid_evaluate_with_metadata(is, a).action]
      BY <1>0, <2>2, <2>4 DEF Actions
    <2>. QED
      BY <1>4, <2>1, <2>5 DEF Decided, DecidedWithMetadata
  <1>. QED
    BY <1>2, <1>3, <1>4 DEF Kinds

LEMMA AppendTightens ==
  ASSUME NEW S, NEW rules \in Seq(S), NEW r \in S, NEW kind \in Kinds
  PROVE  Tightens(kind, rules, Append(rules, r))
  <1> SUFFICES ASSUME NEW c \in EvaluatedContents
               PROVE  LET was == evaluate(rules, c)
                          is == evaluate(Append(rules, r), c)
                      IN  /\ Severity[was.action] <= Severity[is.action]
                          /\ \A a \in OpaAnswers :
                               /\ Severity[Decided(kind, was, a).action] <= Severity[Decided(kind, is, a).action]
                               /\ Severity[DecidedWithMetadata(kind, was, a).action]
                                     <= Severity[DecidedWithMetadata(kind, is, a).action]
    BY DEF Tightens, diff
  <1> DEFINE was == evaluate(rules, c)
             is == evaluate(Append(rules, r), c)
  <1>1. /\ Hit(rules, c, "deny") \subseteq Hit(Append(rules, r), c, "deny")
        /\ Hit(rules, c, "audit") \subseteq Hit(Append(rules, r), c, "audit")
    BY AppendHits
  <1>2. /\ was.action \in Actions /\ is.action \in Actions
        /\ was.action = "deny" => is.action = "deny"
        /\ was.action = "audit" => is.action \in {"audit", "deny"}
    BY <1>1, EvaluateAction DEF Actions
  <1> HIDE DEF was, is
  <1>3. Severity[was.action] <= Severity[is.action]
    BY <1>2 DEF Severity, Actions
  <1>4. \A a \in OpaAnswers :
           /\ Severity[Decided(kind, was, a).action] <= Severity[Decided(kind, is, a).action]
           /\ Severity[DecidedWithMetadata(kind, was, a).action]
                 <= Severity[DecidedWithMetadata(kind, is, a).action]
    BY <1>2, <1>3, EnginesKeepOrder
  <1>. QED
    BY <1>3, <1>4 DEF was, is

\* A step of the whole is a step of TenantPolicies or leaves its state alone.
LEMMA NextOrCite ==
  ASSUME [EnforcementNext]_enforcementVars
  PROVE  (Next \/ UNCHANGED vars) /\ UNCHANGED policy
  <1>1. \A p, i : Cite(p, i) => UNCHANGED <<vars, policy>>
    BY DEF Cite, CiteTools, CiteRules, MemoRead, MemoFill, MemoReturn, CiteLookup, CiteKeep, Goes
  <1>. QED
    BY <1>1 DEF EnforcementNext, enforcementVars, Administered, ClearMemo, GateEnds, register_tools, Next

\* While a process runs and a tenant stays registered, its engine changes only by a rule
\* at the end.
LEMMA EngineOnlyGrows ==
  ASSUME TypeOK, EnforcementNext, NEW p \in up \cap up', NEW t \in tenants[p] \cap tenants'[p],
         engine'[p][t] # engine[p][t]
  PROVE  \E r \in Rules : engine'[p][t] = Append(engine[p][t], r)
  <1>0. p \in Processes /\ t \in Tenants
    BY DEF TypeOK
  <1>1. ASSUME NEW q \in Processes, NEW u \in Tenants, NEW r \in Rules, AddInMemory(q, u, r)
        PROVE  engine'[p][t] = Append(engine[p][t], r)
    <2>1. q = p /\ t = get_or_default(q, u)
      BY <1>0, <1>1, AddFacts
    <2>2. engine'[q][get_or_default(q, u)] = Append(engine[q][get_or_default(q, u)], r)
      BY <1>1, AddFacts
    <2>. QED
      BY <2>1, <2>2
  <1>2. ASSUME NEW q \in Processes, NEW u \in Tenants, register(q, u) \/ RemoveInMemory(q, u)
        PROVE  FALSE
    <2>1. PICK x : engine' = [engine EXCEPT ![q][u] = x]
      BY <1>2 DEF register, RemoveInMemory
    <2>2. q = p /\ u = t
      BY <1>0, <2>1 DEF TypeOK, Lists
    <2>. QED
      BY <1>0, <1>2, <2>2 DEF register, RemoveInMemory, TypeOK
  <1>3. ASSUME NEW q \in Processes, Start(q) \/ Stop(q)
        PROVE  FALSE
    <2>1. PICK x : engine' = [engine EXCEPT ![q] = x]
      BY <1>3 DEF Start, Stop
    <2>2. q = p
      BY <1>0, <2>1 DEF TypeOK
    <2>. QED
      BY <1>3, <2>2 DEF Start, Stop
  <1>4. ASSUME UNCHANGED vars
        PROVE  FALSE
    BY <1>4 DEF vars
  <1>5. Next \/ UNCHANGED vars
    BY NextOrCite
  <1>. QED
    BY <1>1, <1>2, <1>3, <1>4, <1>5
       DEF Next, Administer, add_policy_rule, AddRefused, AddFails, unregister, UnregisterFails

\* The rules of the engine are then the ones of before and one more.
LEMMA RulesOfGrow ==
  ASSUME GateTyped, UNCHANGED policy, NEW p, NEW t, NEW r \in Rules, engine[p][t] \in Seq(Rules),
         engine'[p][t] = Append(engine[p][t], r)
  PROVE  Tightens(policy.kind, RulesOf(p, t), RulesOf(p, t)')
  <1> DEFINE first == create_policy_engine(policy.kind)
             S == {DEFAULT_RULES[i] : i \in DOMAIN DEFAULT_RULES} \cup Rules
  <1>1. policy.kind \in Kinds
    BY PoliciesAssumption DEF GateTyped
  <1>2. first \in Seq(S)
    <2>1. DEFAULT_RULES \in Seq(S) /\ << >> \in Seq(S)
      BY DefaultRulesAssumption
    <2>. QED
      BY <2>1 DEF create_policy_engine
  <1>3. engine[p][t] \in Seq(S) /\ r \in S
    OBVIOUS
  <1>4. RulesOf(p, t) = first \o engine[p][t] /\ RulesOf(p, t)' = first \o Append(engine[p][t], r)
    BY DEF RulesOf, create_policy_engine
  <1> HIDE DEF first, S
  <1>5. \A x, y \in Seq(S) : x \o Append(y, r) = Append(x \o y, r) /\ x \o y \in Seq(S)
    BY <1>3
  <1>6. RulesOf(p, t)' = Append(RulesOf(p, t), r) /\ RulesOf(p, t) \in Seq(S)
    BY <1>2, <1>3, <1>4, <1>5
  <1>. QED
    BY <1>1, <1>3, <1>6, AppendTightens

----------------------------------------------------------------------------
(* The theorems.                                                            *)

LEMMA EnforcementInvariant == EnforcementSpec => [](PInv /\ GInv)
  <1>1. EnforcementInit => PInv /\ GInv
    <2> SUFFICES ASSUME EnforcementInit PROVE PInv /\ GInv
      OBVIOUS
    <2> USE DEF EnforcementInit, Init
    <2>1. TypeOK
      BY EmptyIsLists DEF TypeOK
    <2>2. PartOnlyOverFailures /\ AckedRuleIsStored /\ AckedRuleIsListed /\ AckedRuleIsInForce
      BY DEF PartOnlyOverFailures, AckedRuleIsStored, AckedRuleIsListed, AckedRuleIsInForce
    <2>3. GInv
      BY DEF GInv, GateTyped, Table, CacheIsOfItsKey, MemoIsOfItsRules, CitationsHold
    <2>. QED
      BY <2>1, <2>2, <2>3 DEF PInv
  <1>2. PInv /\ GInv /\ [EnforcementNext]_enforcementVars => (PInv /\ GInv)'
    <2>1. ASSUME [EnforcementNext]_enforcementVars PROVE Next \/ UNCHANGED vars
      BY <2>1, NextOrCite
    <2>. QED
      BY <2>1, PolicyStoreStep, GateStep DEF PInv
  <1>. QED
    BY <1>1, <1>2, PTL DEF EnforcementSpec

\* The table, the lists, the engines and what was acknowledged keep their types, and
\* get_or_default always finds the default tenant.
THEOREM TenantsTypeCorrect == EnforcementSpec => []TypeOK
  <1>1. PInv /\ GInv => TypeOK
    BY DEF PInv
  <1>. QED
    BY <1>1, EnforcementInvariant, PTL

\* With one process on the table, a rule an administrator was told is added stays in
\* the table until its tenant is deleted, whatever fails and however often the process
\* starts again: the list that replaces the rows always has it.
THEOREM AckedRulesAreStored == EnforcementSpec => []AckedRuleIsStored
  <1>1. PInv /\ GInv => AckedRuleIsStored
    BY DEF PInv
  <1>. QED
    BY <1>1, EnforcementInvariant, PTL

\* With one process on the table, memory and table part only over a save the store
\* failed or a name used twice (add_policy_rule, unregister).
THEOREM ListsPartOnlyOverFailures == EnforcementSpec => []PartOnlyOverFailures
  <1>1. PInv /\ GInv => PartOnlyOverFailures
    BY DEF PInv
  <1>. QED
    BY <1>1, EnforcementInvariant, PTL

\* With one process on the table, a rule acknowledged for a registered tenant is in
\* that tenant's engine, now and after every restart.
THEOREM AckedRulesAreInForce == EnforcementSpec => []AckedRuleIsInForce
  <1>1. PInv /\ GInv => AckedRuleIsInForce
    BY DEF PInv
  <1>. QED
    BY <1>1, EnforcementInvariant, PTL

\* For any number of processes and of threads that cite: under the regex engine a
\* tenant no rule of which was added during a citation is cited with the digest of the
\* tools and rules in force, however citations interleave with each other, with
\* registered tools and with the deletion of the tenant.  What is kept is the digest of
\* the rules, and what is cached is what its key says.
THEOREM CitationsAreExact == EnforcementSpec => []CitationIsExact
  <1>1. PInv /\ GInv => CitationIsExact
    BY CitedIsInForce DEF CitationIsExact, Cites, PInv, TypeOK
  <1>. QED
    BY <1>1, EnforcementInvariant, PTL

\* No step makes a decision of a running process and a registered tenant more lenient,
\* for any content, any engine and any answer of OPA: an engine changes only by a rule
\* at its end, and what the earlier rules hit they still hit.
THEOREM RulesTighten == EnforcementSpec => RulesOnlyTighten
  <1> DEFINE Tighter == \A p \in up \cap up' :
                \A t \in {t \in tenants[p] \cap tenants'[p] : engine'[p][t] # engine[p][t]} :
                    Tightens(policy.kind, RulesOf(p, t), RulesOf(p, t)')
  <1>1. ASSUME PInv, GInv, EnforcementNext
        PROVE  Tighter
    <2>0. UNCHANGED policy
      BY <1>1, NextOrCite
    <2>1. ASSUME NEW p \in up \cap up', NEW t \in tenants[p] \cap tenants'[p],
                 engine'[p][t] # engine[p][t]
          PROVE  Tightens(policy.kind, RulesOf(p, t), RulesOf(p, t)')
      <3>1. PICK r \in Rules : engine'[p][t] = Append(engine[p][t], r)
        BY <1>1, <2>1, EngineOnlyGrows DEF PInv
      <3>2. engine[p][t] \in Seq(Rules)
        BY <1>1 DEF PInv, TypeOK, Lists
      <3>. QED
        BY <1>1, <2>0, <3>1, <3>2, RulesOfGrow DEF GInv
    <2>. QED
      BY <2>1
  <1>2. PInv /\ GInv /\ [EnforcementNext]_enforcementVars => [Tighter]_engine
    BY <1>1 DEF enforcementVars, vars
  <1>. QED
    BY <1>2, EnforcementInvariant, PTL DEF EnforcementSpec, RulesOnlyTighten
============================================================================
