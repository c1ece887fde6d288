--------------------------- MODULE FirewallProofs ---------------------------
(***************************************************************************)
(* Proofs about Firewall, for every number of threads and hosts and every  *)
(* failure threshold.                                                      *)
(***************************************************************************)
EXTENDS Firewall, FiniteSetTheorems, TLAPS

----------------------------------------------------------------------------
(* The inductive invariant, in parts.                                       *)

Typed ==
    /\ failures \in [Circuits -> Nat] /\ elapsed \in [Circuits -> BOOLEAN]
    /\ failed_requests \in [Hosts -> Nat] /\ late \in [Hosts -> Nat]
    /\ pc \in [Threads -> {"idle", "forward", "send", "wait", "audit"}]
    /\ host \in [Threads -> Hosts]
    /\ action \in [Threads -> {"none", "rate_limited", "deny", "forward_failed",
                               "circuit_open", "forwarded"}]
    /\ reached \in [Threads -> BOOLEAN]
    /\ chain = [t \in Threads |-> chain[t]] /\ result = [t \in Threads |-> result[t]]

\* The threads that passed the check of h's circuit and have not sent yet.
Sending(h) == {t \in Threads : pc[t] = "send" /\ host[t] = h}

\* While a circuit is open nobody joins the threads about to send; the one whose
\* failure opened it is not among them.
OpenBudget ==
    \A h \in Hosts : circuit_state(h) = "open" =>
        late[h] + Cardinality(Sending(h)) < Cardinality(Threads)

\* Who has come to the record has something to record.
Outcome == \A t \in Threads : pc[t] = "audit" => action[t] # "none"

IInv == Typed /\ OpenBudget /\ OpenStopsRequests /\ Outcome /\ EffectIsRecorded

----------------------------------------------------------------------------
(* Counting threads.                                                        *)

LEMMA ThreadsCount ==
  /\ Cardinality(Threads) \in Nat \ {0}
  /\ \A S \in SUBSET Threads : IsFiniteSet(S) /\ Cardinality(S) \in Nat
  <1>1. \A S \in SUBSET Threads : IsFiniteSet(S) /\ Cardinality(S) \in Nat
    BY FirewallAssumption, FS_Subset, FS_CardinalityType
  <1>2. Cardinality(Threads) # 0
    BY FirewallAssumption, FS_EmptySet
  <1>. QED
    BY <1>1, <1>2

\* A set of threads that one thread is not in is smaller than the whole.
LEMMA AllButOne ==
  ASSUME NEW S \in SUBSET Threads, NEW t \in Threads, t \notin S
  PROVE  Cardinality(S) < Cardinality(Threads)
  <1>1. Cardinality(S) <= Cardinality(Threads)
    BY FirewallAssumption, FS_Subset
  <1>2. Cardinality(S) = Cardinality(Threads) => S = Threads
    BY FirewallAssumption, FS_Subset
  <1>. QED
    BY <1>1, <1>2, ThreadsCount

\* One thread leaving takes one off the count.
LEMMA OneLeaves ==
  ASSUME NEW S \in SUBSET Threads, NEW t \in S
  PROVE  Cardinality(S \ {t}) = Cardinality(S) - 1
  BY ThreadsCount, FS_RemoveElement

----------------------------------------------------------------------------
(* The initial states and the steps.                                        *)

LEMMA InitIInv == FirewallInit => IInv
  <1> SUFFICES ASSUME FirewallInit PROVE IInv
    OBVIOUS
  <1>1. Typed
    BY FirewallAssumption DEF FirewallInit, Typed, Circuits
  <1>2. \A h \in Hosts : circuit_state(h) = "closed"
    BY FirewallAssumption DEF FirewallInit, circuit_state, Circuits
  <1>3. OpenBudget
    BY <1>2 DEF OpenBudget
  <1>4. OpenStopsRequests
    BY ThreadsCount DEF FirewallInit, OpenStopsRequests
  <1>5. Outcome /\ EffectIsRecorded
    BY DEF FirewallInit, Outcome, EffectIsRecorded
  <1>. QED
    BY <1>1, <1>3, <1>4, <1>5 DEF IInv

\* A step that leaves the circuits alone and lets nobody join the senders keeps
\* the budgets.
LEMMA CircuitsAlone ==
  ASSUME IInv, UNCHANGED circuits,
         \A h \in Hosts : circuit_state(h) = "open" => Sending(h)' \subseteq Sending(h)
  PROVE  OpenBudget' /\ OpenStopsRequests'
  <1>1. OpenStopsRequests'
    BY DEF IInv, OpenStopsRequests, circuits
  <1>2. ASSUME NEW h \in Hosts, circuit_state(h)' = "open"
        PROVE  (late[h] + Cardinality(Sending(h)) < Cardinality(Threads))'
    <2>1. circuit_state(h) = "open" /\ late'[h] = late[h]
      BY <1>2 DEF circuits, circuit_state
    <2>2. Sending(h)' \subseteq Sending(h) /\ Sending(h) \in SUBSET Threads
      BY <2>1 DEF Sending
    <2>3. Cardinality(Sending(h)') <= Cardinality(Sending(h))
      BY <2>2, ThreadsCount, FS_Subset
    <2>4. Cardinality(Sending(h)') \in Nat /\ Cardinality(Sending(h)) \in Nat
      BY <2>2, ThreadsCount
    <2>5. late[h] + Cardinality(Sending(h)) < Cardinality(Threads)
      BY <2>1 DEF IInv, OpenBudget
    <2>. QED
      BY <2>1, <2>3, <2>4, <2>5, ThreadsCount DEF IInv, Typed
  <1>. QED
    BY <1>1, <1>2 DEF OpenBudget

LEMMA ResetAllStep == IInv /\ ResetAll => IInv'
  <1> SUFFICES ASSUME IInv, ResetAll PROVE IInv'
    OBVIOUS
  <1>1. Typed'
    BY DEF IInv, Typed, ResetAll
  <1>2. \A h \in Hosts : circuit_state(h)' = "closed"
    BY FirewallAssumption DEF ResetAll, circuit_state, Circuits
  <1>3. OpenBudget'
    BY <1>2 DEF OpenBudget
  <1>4. (OpenStopsRequests /\ Outcome /\ EffectIsRecorded)'
    BY DEF IInv, ResetAll, OpenStopsRequests, Outcome, EffectIsRecorded
  <1>. QED
    BY <1>1, <1>3, <1>4 DEF IInv

LEMMA ResetElapsesStep ==
  ASSUME IInv, NEW h \in Hosts, ResetElapses(h)
  PROVE  IInv'
  <1>1. Typed'
    BY DEF IInv, Typed, ResetElapses, Circuits
  <1>2. \A g \in Hosts : circuit_state(g)' = "open" => circuit_state(g) = "open"
    BY DEF IInv, Typed, ResetElapses, circuit_state, Circuits
  <1>3. \A g \in Hosts : Sending(g)' = Sending(g)
    BY DEF ResetElapses, Sending
  <1>4. OpenBudget'
    BY <1>2, <1>3 DEF IInv, OpenBudget, ResetElapses
  <1>5. (OpenStopsRequests /\ Outcome /\ EffectIsRecorded)'
    BY DEF IInv, ResetElapses, OpenStopsRequests, Outcome, EffectIsRecorded
  <1>. QED
    BY <1>1, <1>4, <1>5 DEF IInv

\* The steps of enforce before a request is sent, and the record after it.
LEMMA QuietStep ==
  ASSUME IInv, NEW t \in Threads,
         \/ \E h \in Hosts : EnforceEnds(t, h) \/ EnforceRefuses(t, h) \/ EnforceAllows(t, h)
         \/ TargetRefused(t) \/ CircuitOpen(t) \/ Proceed(t) \/ Audit(t) \/ AuditRaises(t)
  PROVE  IInv'
  <1> USE DEF Call, ToAudit, Goto
  <1>a. UNCHANGED circuits
    BY DEF EnforceEnds, EnforceRefuses, EnforceAllows, TargetRefused, CircuitOpen, Proceed,
           Audit, AuditRaises
  <1>1. Typed'
    <2>1. ASSUME NEW h \in Hosts, EnforceEnds(t, h) \/ EnforceRefuses(t, h) \/ EnforceAllows(t, h)
          PROVE  Typed'
      <3>1. CASE EnforceEnds(t, h)
        BY <3>1 DEF IInv, Typed, circuits, EnforceEnds
      <3>2. CASE EnforceRefuses(t, h)
        BY <3>2 DEF IInv, Typed, circuits, EnforceRefuses
      <3>3. CASE EnforceAllows(t, h)
        BY <3>3 DEF IInv, Typed, circuits, EnforceAllows
      <3>. QED
        BY <2>1, <3>1, <3>2, <3>3
    <2>2. CASE TargetRefused(t) \/ CircuitOpen(t) \/ Proceed(t)
      BY <2>2 DEF IInv, Typed, circuits, TargetRefused, CircuitOpen, Proceed
    <2>3. CASE Audit(t) \/ AuditRaises(t)
      BY <2>3 DEF IInv, Typed, circuits, Audit, AuditRaises
    <2>. QED
      BY <2>1, <2>2, <2>3
  <1>2. \A h \in Hosts : circuit_state(h) = "open" => Sending(h)' \subseteq Sending(h)
    <2>1. ASSUME NEW g \in Hosts, EnforceEnds(t, g) \/ EnforceRefuses(t, g) \/ EnforceAllows(t, g)
          PROVE  \A h \in Hosts : Sending(h)' \subseteq Sending(h)
      BY <2>1 DEF IInv, Typed, Sending, EnforceEnds, EnforceRefuses, EnforceAllows
    <2>2. CASE TargetRefused(t) \/ CircuitOpen(t)
      BY <2>2 DEF IInv, Typed, Sending, TargetRefused, CircuitOpen
    <2>3. CASE Audit(t) \/ AuditRaises(t)
      BY <2>3 DEF IInv, Typed, Sending, Audit, AuditRaises
    <2>4. CASE Proceed(t)
      <3>1. circuit_state(host[t]) # "open"
        BY <2>4 DEF Proceed, can_request, can_proceed
      <3>. QED
        BY <2>4, <3>1 DEF IInv, Typed, Sending, Proceed
    <2>. QED
      BY <2>1, <2>2, <2>3, <2>4
  <1>3. OpenBudget' /\ OpenStopsRequests'
    BY <1>a, <1>2, CircuitsAlone
  <1>4. Outcome'
    <2>1. ASSUME NEW h \in Hosts, EnforceEnds(t, h) \/ EnforceRefuses(t, h) \/ EnforceAllows(t, h)
          PROVE  Outcome'
      BY <2>1 DEF IInv, Typed, Outcome, EnforceEnds, EnforceRefuses, EnforceAllows
    <2>2. CASE TargetRefused(t) \/ CircuitOpen(t) \/ Proceed(t)
      BY <2>2 DEF IInv, Typed, Outcome, TargetRefused, CircuitOpen, Proceed
    <2>3. CASE Audit(t) \/ AuditRaises(t)
      BY <2>3 DEF IInv, Typed, Outcome, Audit, AuditRaises
    <2>. QED
      BY <2>1, <2>2, <2>3
  <1>5. EffectIsRecorded'
    <2>1. ASSUME NEW h \in Hosts, EnforceEnds(t, h) \/ EnforceRefuses(t, h) \/ EnforceAllows(t, h)
          PROVE  EffectIsRecorded'
      BY <2>1 DEF IInv, Typed, EffectIsRecorded, EnforceEnds, EnforceRefuses, EnforceAllows
    <2>2. CASE TargetRefused(t) \/ CircuitOpen(t) \/ Proceed(t)
      BY <2>2 DEF IInv, Typed, EffectIsRecorded, TargetRefused, CircuitOpen, Proceed
    <2>3. CASE Audit(t)
      <3>1. action[t] # "none"
        BY <2>3 DEF IInv, Outcome, Audit
      <3>. QED
        BY <2>3, <3>1 DEF IInv, Typed, EffectIsRecorded, Audit
    <2>4. CASE AuditRaises(t)
      BY <2>4 DEF IInv, Typed, EffectIsRecorded, AuditRaises
    <2>. QED
      BY <2>1, <2>2, <2>3, <2>4
  <1>. QED
    BY <1>1, <1>3, <1>4, <1>5 DEF IInv

\* A request that leaves late moves one thread from those about to send to those
\* counted.
LEMMA SendStep ==
  ASSUME IInv, NEW t \in Threads, Send(t)
  PROVE  IInv'
  <1> USE DEF Goto
  <1>h. PICK h \in Hosts : h = host[t]
    BY DEF IInv, Typed
  <1>a. h \in Hosts /\ pc[t] = "send" /\ t \in Sending(h)
    BY <1>h DEF IInv, Typed, Send, Sending
  <1>b. /\ late' = [late EXCEPT ![h] = late[h] + IF circuit_state(h) = "open" THEN 1 ELSE 0]
        /\ late[h] \in Nat
    BY <1>a, <1>h DEF Send, IInv, Typed
  <1>1. Typed'
    <2>1. late' \in [Hosts -> Nat]
      BY <1>b DEF IInv, Typed
    <2>. QED
      BY <2>1 DEF IInv, Typed, Send
  <1>2. \A g \in Hosts : circuit_state(g)' = circuit_state(g)
    BY DEF Send, circuit_state
  <1>3. Sending(h)' = Sending(h) \ {t} /\ \A g \in Hosts \ {h} : Sending(g)' = Sending(g)
    BY <1>a, <1>h DEF IInv, Typed, Send, Sending
  <1>4. \A g \in Hosts \ {h} : late'[g] = late[g]
    BY <1>a, <1>b DEF IInv, Typed
  <1>5. Cardinality(Sending(h)') = Cardinality(Sending(h)) - 1
    <2>1. Sending(h) \in SUBSET Threads
      BY DEF Sending
    <2>. QED
      BY <1>a, <1>3, <2>1, OneLeaves
  <1>6. Cardinality(Sending(h)) \in Nat \ {0}
    <2>1. Sending(h) \in SUBSET Threads /\ Sending(h)' \in SUBSET Threads
      BY <1>3 DEF Sending
    <2>2. Cardinality(Sending(h)) \in Nat /\ Cardinality(Sending(h)') \in Nat
      BY <2>1, ThreadsCount
    <2>. QED
      BY <1>5, <2>2
  <1>7. ASSUME circuit_state(h) = "open" PROVE OpenBudget' /\ OpenStopsRequests'
    <2>1. late'[h] = late[h] + 1
      BY <1>a, <1>b, <1>7 DEF IInv, Typed
    <2>2. late[h] + Cardinality(Sending(h)) < Cardinality(Threads)
      BY <1>a, <1>7 DEF IInv, OpenBudget
    <2>3. late'[h] + Cardinality(Sending(h)') < Cardinality(Threads)
      BY <1>b, <1>5, <1>6, <2>1, <2>2, ThreadsCount
    <2>4. late'[h] < Cardinality(Threads)
      BY <1>b, <1>6, <2>1, <2>2, ThreadsCount
    <2>. QED
      BY <1>2, <1>3, <1>4, <2>3, <2>4 DEF IInv, OpenBudget, OpenStopsRequests
  <1>8. ASSUME circuit_state(h) # "open" PROVE OpenBudget' /\ OpenStopsRequests'
    <2>1. late'[h] = late[h]
      BY <1>a, <1>b, <1>8 DEF IInv, Typed
    <2>. QED
      BY <1>2, <1>3, <1>4, <1>8, <2>1 DEF IInv, OpenBudget, OpenStopsRequests
  <1>9. Outcome' /\ EffectIsRecorded'
    BY DEF IInv, Typed, Send, Outcome, EffectIsRecorded
  <1>. QED
    BY <1>1, <1>7, <1>8, <1>9 DEF IInv

LEMMA ResponseStep ==
  ASSUME IInv, NEW t \in Threads, Response(t)
  PROVE  IInv'
  <1> USE DEF Goto, ToAudit, record_success
  <1>1. Typed'
    BY DEF IInv, Typed, Response, Circuits
  <1>2. \A g \in Hosts : circuit_state(g)' = "open" => circuit_state(g) = "open"
    BY FirewallAssumption DEF IInv, Typed, Response, circuit_state, Circuits
  <1>3. \A g \in Hosts : Sending(g)' = Sending(g)
    BY DEF IInv, Typed, Response, Sending
  <1>4. OpenBudget' /\ OpenStopsRequests'
    BY <1>2, <1>3 DEF IInv, OpenBudget, OpenStopsRequests, Response
  <1>5. Outcome' /\ EffectIsRecorded'
    BY DEF IInv, Typed, Response, Outcome, EffectIsRecorded
  <1>. QED
    BY <1>1, <1>4, <1>5 DEF IInv

\* The failure that opens a circuit starts its count, and its thread is not about
\* to send.
LEMMA RequestFailsStep ==
  ASSUME IInv, NEW t \in Threads, RequestFails(t)
  PROVE  IInv'
  <1> USE DEF Goto, ToAudit, record_failure
  <1> DEFINE h == host[t]
  <1>a. h \in Hosts /\ h \in Circuits /\ pc[t] = "wait"
    BY DEF IInv, Typed, RequestFails, Circuits
  <1>b. PICK got \in BOOLEAN : reached' = [reached EXCEPT ![t] = got]
    BY DEF RequestFails
  <1>1. Typed'
    <2>1. failures' \in [Circuits -> Nat] /\ failed_requests' \in [Hosts -> Nat]
      BY <1>a DEF IInv, Typed, RequestFails
    <2>2. late' \in [Hosts -> Nat]
      BY <1>a DEF IInv, Typed, RequestFails
    <2>. QED
      BY <1>a, <1>b, <2>1, <2>2 DEF IInv, Typed, RequestFails
  <1>2. \A g \in Hosts \ {h} : circuit_state(g)' = circuit_state(g) /\ late'[g] = late[g]
    BY <1>a DEF IInv, Typed, RequestFails, circuit_state, Circuits
  <1>3. \A g \in Hosts : Sending(g)' = Sending(g)
    BY <1>a DEF IInv, Typed, RequestFails, Sending
  <1>4. late'[h] + Cardinality(Sending(h)) < Cardinality(Threads) /\ late'[h] < Cardinality(Threads)
    <2>1. CASE circuit_state(h) = "open"
      <3>1. late'[h] = late[h]
        BY <1>a, <2>1 DEF IInv, Typed, RequestFails
      <3>. QED
        BY <1>a, <2>1, <3>1 DEF IInv, OpenBudget, OpenStopsRequests
    <2>2. CASE circuit_state(h) # "open"
      <3>1. late'[h] = 0
        BY <1>a, <2>2 DEF IInv, Typed, RequestFails
      <3>2. t \notin Sending(h) /\ Sending(h) \in SUBSET Threads
        BY <1>a DEF Sending
      <3>3. Cardinality(Sending(h)) < Cardinality(Threads)
        BY <3>2, AllButOne
      <3>. QED
        BY <3>1, <3>2, <3>3, ThreadsCount
    <2>. QED
      BY <2>1, <2>2
  <1>5. OpenBudget' /\ OpenStopsRequests'
    BY <1>2, <1>3, <1>4 DEF IInv, OpenBudget, OpenStopsRequests
  <1>6. Outcome' /\ EffectIsRecorded'
    BY <1>a, <1>b DEF IInv, Typed, RequestFails, Outcome, EffectIsRecorded
  <1>. QED
    BY <1>1, <1>5, <1>6 DEF IInv

LEMMA NextIInv == IInv /\ [FirewallNext]_firewallVars => IInv'
  <1> SUFFICES ASSUME IInv, [FirewallNext]_firewallVars PROVE IInv'
    OBVIOUS
  <1>1. CASE ResetAll
    BY <1>1, ResetAllStep
  <1>2. ASSUME NEW h \in Hosts, ResetElapses(h) PROVE IInv'
    BY <1>2, ResetElapsesStep
  <1>3. ASSUME NEW t \in Threads,
               \/ \E h \in Hosts : EnforceEnds(t, h) \/ EnforceRefuses(t, h) \/ EnforceAllows(t, h)
               \/ TargetRefused(t) \/ CircuitOpen(t) \/ Proceed(t) \/ Audit(t) \/ AuditRaises(t)
        PROVE  IInv'
    BY <1>3, QuietStep
  <1>4. ASSUME NEW t \in Threads, Send(t) PROVE IInv'
    BY <1>4, SendStep
  <1>5. ASSUME NEW t \in Threads, Response(t) PROVE IInv'
    BY <1>5, ResponseStep
  <1>6. ASSUME NEW t \in Threads, RequestFails(t) PROVE IInv'
    BY <1>6, RequestFailsStep
  <1>7. CASE UNCHANGED firewallVars
    <2>1. \A h \in Hosts : circuit_state(h)' = circuit_state(h) /\ Sending(h)' = Sending(h)
      BY <1>7 DEF firewallVars, circuits, circuit_state, Sending
    <2>. QED
      BY <1>7, <2>1 DEF firewallVars, circuits, IInv, Typed, OpenBudget, OpenStopsRequests, Outcome,
                        EffectIsRecorded
  <1>. QED
    BY <1>1, <1>2, <1>3, <1>4, <1>5, <1>6, <1>7 DEF FirewallNext

----------------------------------------------------------------------------
(* The theorems.                                                            *)

LEMMA IInvHolds == FirewallSpec => []IInv
  BY InitIInv, NextIInv, PTL DEF FirewallSpec

\* However many threads share a circuit and however its resets, timeouts and late
\* answers interleave, the target of an open circuit gets at most one request from
\* each thread but the one whose failure opened it (HTTPExecutionAdapter.forward,
\* CircuitState).
THEOREM OpenCircuitsStopRequests == FirewallSpec => []OpenStopsRequests
  <1>1. IInv => OpenStopsRequests
    BY DEF IInv
  <1>. QED
    BY <1>1, IInvHolds, PTL

\* No caller of enforce gets a result for a request that may have reached its
\* target and is not in the chain (ExecutionFirewall.enforce).
THEOREM EffectsAreRecorded == FirewallSpec => []EffectIsRecorded
  <1>1. IInv => EffectIsRecorded
    BY DEF IInv
  <1>. QED
    BY <1>1, IInvHolds, PTL
============================================================================
