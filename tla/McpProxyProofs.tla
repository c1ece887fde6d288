--------------------------- MODULE McpProxyProofs ---------------------------
(***************************************************************************)
(* Proofs about McpProxy, for every set of calls, size of the pool, limit  *)
(* of timeouts and fault model.                                            *)
(***************************************************************************)
EXTENDS McpProxy, FiniteSetTheorems, TLAPS

----------------------------------------------------------------------------
(* The inductive invariant, in parts.                                       *)

\* TypeOK but for the bound on the count of timeouts.
Typed ==
    /\ consecutive \in Nat
    /\ open \in {"no", "cooling", "lapsed"} /\ probing \in BOOLEAN
    /\ inflight \subseteq Calls
    /\ call \in [Calls -> {"new", "waiting"} \cup Reconciling \cup Over]
    /\ probe \in [Calls -> BOOLEAN]
    /\ job \in [Calls -> {"none", "queued", "running", "allowing", "denying",
                          "allow", "deny", "raised"}]
    /\ chain \in [Calls -> SUBSET {"ALLOW", "DENY", "PROXY_DENY"}]
    /\ effects \subseteq Calls /\ faults \in FaultModels

\* The count passes the limit only by calls that were waiting when the breaker
\* opened, and each of them counts once.
Counted ==
    /\ open = "no" => consecutive < TimeoutLimit
    /\ consecutive + Cardinality(Waiting) <= TimeoutLimit + Cardinality(Calls)

\* What the chain of a call says goes with where the call and its job are.
Told ==
    \A c \in Calls :
        /\ "ALLOW" \in chain[c] <=> job[c] = "allow"
        /\ call[c] = "new" => job[c] = "none"
        /\ call[c] \in {"new", "waiting"} \cup Reconciling => "PROXY_DENY" \notin chain[c]
        /\ call[c] = "allowed" => job[c] = "allow" /\ "PROXY_DENY" \notin chain[c]
        /\ call[c] = "denied" => job[c] = "deny"
        /\ call[c] = "error" => job[c] = "raised"
        /\ c \in effects => call[c] = "allowed"
        /\ "store fails" \notin faults /\ call[c] \in {"timeout", "breaker"} =>
              "PROXY_DENY" \in chain[c]

\* From the opening of the breaker to the end of its probe no call is admitted
\* besides the probe, and those from before are over when the cooldown is.
Half ==
    ShortTimeout =>
        /\ open = "cooling" => Waiting \subseteq inflight
        /\ open = "lapsed" => Waiting = {}
        /\ probing => open = "no" /\ \A c, d \in Waiting : c = d
        /\ \A c \in Waiting : probe[c] => probing

IInv == Typed /\ Counted /\ Told /\ Half

----------------------------------------------------------------------------
(* Typing.                                                                  *)

USE DEF Over, Reconciling

\* One record more, or none, leaves a chain of records.
LEMMA MayRecordType ==
  ASSUME Typed, NEW c \in Calls, NEW r \in {"ALLOW", "DENY", "PROXY_DENY"}, MayRecord(c, r)
  PROVE  chain' \in [Calls -> SUBSET {"ALLOW", "DENY", "PROXY_DENY"}]
  <1>1. chain[c] \cup {r} \in SUBSET {"ALLOW", "DENY", "PROXY_DENY"}
    BY DEF Typed
  <1>. QED
    BY <1>1 DEF MayRecord, Typed

LEMMA TypedStep ==
  ASSUME Typed, [Next]_vars
  PROVE  Typed'
  <1> USE ProxyAssumption DEF Typed
  <1>1. CASE UNCHANGED vars
    BY <1>1 DEF vars, breaker
  <1>2. CASE CooldownLapses
    BY <1>2 DEF CooldownLapses
  <1>3. ASSUME NEW c \in Calls, CallDenied(c)
        PROVE  Typed'
    BY <1>3 DEF CallDenied, breaker
  <1>4. ASSUME NEW c \in Calls, CallAdmitted(c)
        PROVE  Typed'
    <2>0. TakeProbe
      BY <1>4 DEF CallAdmitted
    <2>1. consecutive' \in Nat /\ open' \in {"no", "cooling", "lapsed"}
          /\ probing' \in BOOLEAN /\ inflight' \subseteq Calls
      <3>1. TimeoutLimit - 1 \in Nat
        OBVIOUS
      <3>. QED
        BY <2>0, <3>1 DEF TakeProbe, breaker
    <2>2. probe' \in [Calls -> BOOLEAN]
      BY <1>4 DEF CallAdmitted
    <2>. QED
      BY <1>4, <2>1, <2>2 DEF CallAdmitted
  <1>5. ASSUME NEW c \in Calls, GateTimeout(c)
        PROVE  Typed'
    <2>2. TimedOut(c) /\ Waiting \ {c} \subseteq Calls
      BY <1>5 DEF GateTimeout, Waiting
    <2>3. consecutive' \in Nat /\ probing' = FALSE
      BY <2>2 DEF TimedOut
    <2>4. open' \in {"no", "cooling", "lapsed"} /\ inflight' \subseteq Calls
      BY <2>2 DEF TimedOut
    <2>. QED
      BY <1>5, <2>3, <2>4 DEF GateTimeout, Abandon
  <1>6. ASSUME NEW c \in Calls, GateError(c)
        PROVE  Typed'
    BY <1>6 DEF GateError, breaker
  <1>7. ASSUME NEW c \in Calls, GateAnswers(c)
        PROVE  Typed'
    BY <1>7 DEF GateAnswers, AnsweredInTime
  <1>8. ASSUME NEW c \in Calls, CallCancelled(c)
        PROVE  Typed'
    BY <1>8 DEF CallCancelled, Abandon, breaker
  <1>9. ASSUME NEW c \in Calls, NextRequest(c)
        PROVE  Typed'
    BY <1>9 DEF NextRequest, breaker
  <1>10. ASSUME NEW c \in Calls, GateStarts(c)
         PROVE  Typed'
    BY <1>10 DEF GateStarts, breaker
  <1>11. ASSUME NEW c \in Calls, GateAllows(c)
         PROVE  Typed'
    <2>1. chain[c] \cup {"ALLOW"} \in SUBSET {"ALLOW", "DENY", "PROXY_DENY"}
      OBVIOUS
    <2>2. chain' \in [Calls -> SUBSET {"ALLOW", "DENY", "PROXY_DENY"}]
      BY <1>11, <2>1 DEF GateAllows
    <2>. QED
      BY <1>11, <2>2 DEF GateAllows, breaker
  <1>12. ASSUME NEW c \in Calls, GateDenies(c)
         PROVE  Typed'
    BY <1>12, MayRecordType DEF GateDenies, breaker
  <1>13. ASSUME NEW c \in Calls, GateRaisesError(c)
         PROVE  Typed'
    BY <1>13 DEF GateRaisesError, breaker
  <1>14. ASSUME NEW c \in Calls, Reconciled(c)
         PROVE  Typed'
    <2>1. chain' \in [Calls -> SUBSET {"ALLOW", "DENY", "PROXY_DENY"}]
      BY <1>14, MayRecordType DEF Reconciled
    <2>. QED
      BY <1>14, <2>1 DEF Reconciled, breaker
  <1>15. ASSUME NEW c \in Calls, GateRecords(c)
         PROVE  Typed'
    BY <1>15 DEF GateRecords, breaker
  <1>. QED
    BY <1>1, <1>2, <1>3, <1>4, <1>5, <1>6, <1>7, <1>8, <1>9, <1>10, <1>11, <1>12,
       <1>13, <1>14, <1>15 DEF Next

----------------------------------------------------------------------------
(* What the chains say.                                                     *)

\* A record goes to the chain of its own call, and is missing only if the store
\* may fail.
LEMMA MayRecordEffect ==
  ASSUME Typed, NEW c \in Calls, NEW r \in {"ALLOW", "DENY", "PROXY_DENY"}, MayRecord(c, r)
  PROVE  /\ \A d \in Calls \ {c} : chain'[d] = chain[d]
         /\ "ALLOW" = r \/ ("ALLOW" \in chain'[c] <=> "ALLOW" \in chain[c])
         /\ "PROXY_DENY" = r \/ ("PROXY_DENY" \in chain'[c] <=> "PROXY_DENY" \in chain[c])
         /\ "store fails" \notin faults => r \in chain'[c]
  <1>1. CASE chain' = [chain EXCEPT ![c] = @ \cup {r}]
    BY <1>1 DEF Typed
  <1>2. CASE "store fails" \in faults /\ UNCHANGED chain
    BY <1>2
  <1>. QED
    BY <1>1, <1>2 DEF MayRecord

LEMMA ToldStep ==
  ASSUME Typed, Told, [Next]_vars
  PROVE  Told'
  <1> USE DEF Typed, Told
  <1>1. CASE UNCHANGED vars
    BY <1>1 DEF vars
  <1>2. CASE CooldownLapses
    BY <1>2 DEF CooldownLapses
  <1>3. ASSUME NEW c \in Calls, CallDenied(c)
        PROVE  Told'
    BY <1>3 DEF CallDenied
  <1>4. ASSUME NEW c \in Calls, CallAdmitted(c)
        PROVE  Told'
    BY <1>4 DEF CallAdmitted
  <1>5. ASSUME NEW c \in Calls, GateTimeout(c)
        PROVE  Told'
    BY <1>5 DEF GateTimeout, Abandon
  <1>6. ASSUME NEW c \in Calls, GateError(c)
        PROVE  Told'
    BY <1>6 DEF GateError
  <1>7. ASSUME NEW c \in Calls, GateAnswers(c)
        PROVE  Told'
    BY <1>7 DEF GateAnswers
  <1>8. ASSUME NEW c \in Calls, CallCancelled(c)
        PROVE  Told'
    BY <1>8 DEF CallCancelled, Abandon
  <1>9. ASSUME NEW c \in Calls, NextRequest(c)
        PROVE  Told'
    BY <1>9 DEF NextRequest
  <1>10. ASSUME NEW c \in Calls, GateStarts(c)
         PROVE  Told'
    BY <1>10 DEF GateStarts
  <1>11. ASSUME NEW c \in Calls, GateAllows(c)
         PROVE  Told'
    <2>1. CASE chain' = [chain EXCEPT ![c] = @ \cup {"ALLOW"}] /\ job' = [job EXCEPT ![c] = "allow"]
      <3>1. /\ \A d \in Calls \ {c} : chain'[d] = chain[d] /\ job'[d] = job[d]
            /\ "ALLOW" \in chain'[c] /\ job'[c] = "allow"
            /\ "PROXY_DENY" \in chain'[c] <=> "PROXY_DENY" \in chain[c]
        BY <2>1
      <3>. QED
        BY <1>11, <3>1 DEF GateAllows
    <2>2. CASE UNCHANGED chain /\ job' = [job EXCEPT ![c] = "deny"]
      BY <1>11, <2>2 DEF GateAllows
    <2>. QED
      BY <1>11, <2>1, <2>2 DEF GateAllows
  <1>12. ASSUME NEW c \in Calls, GateDenies(c)
         PROVE  Told'
    <2>1. /\ \A d \in Calls \ {c} : chain'[d] = chain[d]
          /\ "ALLOW" \in chain'[c] <=> "ALLOW" \in chain[c]
          /\ "PROXY_DENY" \in chain'[c] <=> "PROXY_DENY" \in chain[c]
      BY <1>12, MayRecordEffect DEF GateDenies
    <2>. QED
      BY <1>12, <2>1 DEF GateDenies
  <1>13. ASSUME NEW c \in Calls, GateRaisesError(c)
         PROVE  Told'
    BY <1>13 DEF GateRaisesError
  <1>14. ASSUME NEW c \in Calls, Reconciled(c)
         PROVE  Told'
    <2>1. /\ \A d \in Calls \ {c} : chain'[d] = chain[d]
          /\ "ALLOW" \in chain'[c] <=> "ALLOW" \in chain[c]
          /\ "store fails" \notin faults => "PROXY_DENY" \in chain'[c]
      BY <1>14, MayRecordEffect DEF Reconciled
    <2>2. /\ \A d \in Calls \ {c} : call'[d] = call[d]
          /\ call'[c] \in {"timeout", "breaker"} /\ c \notin effects
      BY <1>14 DEF Reconciled
    <2>. QED
      BY <1>14, <2>1, <2>2 DEF Reconciled
  <1>15. ASSUME NEW c \in Calls, GateRecords(c)
         PROVE  Told'
    BY <1>15 DEF GateRecords
  <1>. QED
    BY <1>1, <1>2, <1>3, <1>4, <1>5, <1>6, <1>7, <1>8, <1>9, <1>10, <1>11, <1>12,
       <1>13, <1>14, <1>15 DEF Next

----------------------------------------------------------------------------
(* The breaker.                                                             *)

LEMMA HalfStep ==
  ASSUME Typed, Half, Counted, [Next]_vars
  PROVE  Half'
  <1> SUFFICES ASSUME ShortTimeout PROVE Half'
    BY DEF Half
  <1> USE ProxyAssumption DEF Typed, Half, Waiting
  <1>1. CASE UNCHANGED vars
    BY <1>1 DEF vars, breaker
  <1>2. CASE CooldownLapses
    BY <1>2 DEF CooldownLapses
  <1>3. ASSUME NEW c \in Calls, CallDenied(c)
        PROVE  Half'
    BY <1>3 DEF CallDenied, breaker
  <1>4. ASSUME NEW c \in Calls, CallAdmitted(c)
        PROVE  Half'
    BY <1>4 DEF CallAdmitted, TakeProbe, _breaker_denies, breaker
  <1>5. ASSUME NEW c \in Calls, GateTimeout(c)
        PROVE  Half'
    BY <1>5 DEF GateTimeout, TimedOut, Counted
  <1>6. ASSUME NEW c \in Calls, GateError(c)
        PROVE  Half'
    BY <1>6 DEF GateError, breaker
  <1>7. ASSUME NEW c \in Calls, GateAnswers(c)
        PROVE  Half'
    BY <1>7 DEF GateAnswers, AnsweredInTime
  <1>8. ASSUME NEW c \in Calls, CallCancelled(c)
        PROVE  Half'
    BY <1>8 DEF CallCancelled, breaker
  <1>9. ASSUME NEW c \in Calls, NextRequest(c)
        PROVE  Half'
    BY <1>9 DEF NextRequest, breaker
  <1>10. ASSUME NEW c \in Calls,
                \/ GateStarts(c) \/ GateRecords(c) \/ GateAllows(c) \/ GateDenies(c)
                \/ GateRaisesError(c)
         PROVE  Half'
    BY <1>10 DEF GateStarts, GateRecords, GateAllows, GateDenies, GateRaisesError, breaker
  <1>11. ASSUME NEW c \in Calls, Reconciled(c)
         PROVE  Half'
    BY <1>11 DEF Reconciled, breaker
  <1>. QED
    BY <1>1, <1>2, <1>3, <1>4, <1>5, <1>6, <1>7, <1>8, <1>9, <1>10, <1>11 DEF Next

\* Counting the calls that wait.
LEMMA WaitingCount ==
  ASSUME NEW W \in SUBSET Calls
  PROVE  /\ Cardinality(W) \in Nat
         /\ Cardinality(Calls) \in Nat
         /\ Cardinality(W) <= Cardinality(Calls)
         /\ \A c \in W : Cardinality(W \ {c}) = Cardinality(W) - 1
  <1>1. IsFiniteSet(Calls)
    BY ProxyAssumption
  <1>2. IsFiniteSet(W) /\ Cardinality(W) <= Cardinality(Calls)
    BY <1>1, FS_Subset
  <1>3. Cardinality(W) \in Nat /\ Cardinality(Calls) \in Nat
    BY <1>1, <1>2, FS_CardinalityType
  <1>4. \A c \in W : Cardinality(W \ {c}) = Cardinality(W) - 1
    BY <1>2, FS_RemoveElement
  <1>. QED
    BY <1>2, <1>3, <1>4

LEMMA CountedStep ==
  ASSUME Typed, Typed', Counted, [Next]_vars
  PROVE  Counted'
  <1>1. /\ Cardinality(Waiting) \in Nat /\ Cardinality(Calls) \in Nat
        /\ \A c \in Waiting : Cardinality(Waiting \ {c}) = Cardinality(Waiting) - 1
        /\ Cardinality(Waiting') \in Nat /\ Cardinality(Waiting') <= Cardinality(Calls)
    <2>1. Waiting \in SUBSET Calls /\ Waiting' \in SUBSET Calls
      BY DEF Waiting
    <2>. QED
      BY <2>1, WaitingCount
  <1>2. consecutive \in Nat /\ consecutive' \in Nat /\ TimeoutLimit \in Nat \ {0}
    BY ProxyAssumption DEF Typed
  <1>3. ASSUME Waiting' = Waiting, UNCHANGED <<consecutive, open>>
        PROVE  Counted'
    BY <1>3 DEF Counted
  <1>4. ASSUME NEW c \in Waiting, Waiting' = Waiting \ {c}, UNCHANGED <<consecutive, open>>
        PROVE  Counted'
    BY <1>1, <1>2, <1>4 DEF Counted
  <1>5. CASE UNCHANGED vars
    BY <1>3, <1>5 DEF vars, breaker, Waiting
  <1>6. CASE CooldownLapses
    <2>1. Waiting' = Waiting
      BY <1>6 DEF CooldownLapses, Waiting
    <2>. QED
      BY <1>6, <2>1 DEF CooldownLapses, Counted
  <1>7. ASSUME NEW c \in Calls, CallDenied(c)
        PROVE  Counted'
    <2>1. Waiting' = Waiting
      BY <1>7 DEF CallDenied, Waiting, Typed
    <2>. QED
      BY <1>3, <1>7, <2>1 DEF CallDenied, breaker
  <1>8. ASSUME NEW c \in Calls, CallAdmitted(c)
        PROVE  Counted'
    <2>1. open' = "no" /\ consecutive' < TimeoutLimit
      <3>1. TakeProbe /\ open # "cooling"
        BY <1>8 DEF CallAdmitted, _breaker_denies
      <3>. QED
        BY <1>2, <3>1 DEF TakeProbe, breaker, Counted, Typed
    <2>. QED
      BY <1>1, <1>2, <2>1 DEF Counted
  <1>9. ASSUME NEW c \in Calls, GateTimeout(c)
        PROVE  Counted'
    <2>1. c \in Waiting /\ Waiting' = Waiting \ {c}
      BY <1>9 DEF GateTimeout, Waiting, Typed
    <2>2. Cardinality(Waiting') = Cardinality(Waiting) - 1
      BY <1>1, <2>1
    <2>3. TimedOut(c)
      BY <1>9 DEF GateTimeout
    <2>4. consecutive' = consecutive + 1 /\ (open' = "no" => consecutive' < TimeoutLimit)
      BY <1>2, <2>3 DEF TimedOut
    <2>. QED
      BY <1>1, <1>2, <2>2, <2>4 DEF Counted
  <1>10. ASSUME NEW c \in Calls, GateError(c) \/ CallCancelled(c)
         PROVE  Counted'
    <2>1. c \in Waiting /\ Waiting' = Waiting \ {c}
      BY <1>10 DEF GateError, CallCancelled, Waiting, Typed
    <2>. QED
      BY <1>4, <1>10, <2>1 DEF GateError, CallCancelled, breaker
  <1>11. ASSUME NEW c \in Calls, GateAnswers(c)
         PROVE  Counted'
    <2>1. consecutive' = 0
      BY <1>11 DEF GateAnswers, AnsweredInTime
    <2>. QED
      BY <1>1, <1>2, <2>1 DEF Counted
  <1>12. ASSUME NEW c \in Calls, NextRequest(c)
         PROVE  Counted'
    <2>1. Waiting' = Waiting
      BY <1>12 DEF NextRequest, Waiting, Typed
    <2>. QED
      BY <1>3, <1>12, <2>1 DEF NextRequest, breaker
  <1>13. ASSUME NEW c \in Calls,
                \/ GateStarts(c) \/ GateRecords(c) \/ GateAllows(c) \/ GateDenies(c)
                \/ GateRaisesError(c)
         PROVE  Counted'
    <2>1. Waiting' = Waiting /\ UNCHANGED <<consecutive, open>>
      BY <1>13 DEF GateStarts, GateRecords, GateAllows, GateDenies, GateRaisesError,
                   Waiting, breaker
    <2>. QED
      BY <1>3, <2>1
  <1>14. ASSUME NEW c \in Calls, Reconciled(c)
         PROVE  Counted'
    <2>1. Waiting' = Waiting
      BY <1>14 DEF Reconciled, Waiting, Typed
    <2>. QED
      BY <1>3, <1>14, <2>1 DEF Reconciled, breaker
  <1>. QED
    BY <1>5, <1>6, <1>7, <1>8, <1>9, <1>10, <1>11, <1>12, <1>13, <1>14 DEF Next

----------------------------------------------------------------------------

LEMMA ProxyInit == Init => IInv
  <1> SUFFICES ASSUME Init PROVE IInv
    OBVIOUS
  <1>1. Typed
    BY DEF Init, Typed
  <1>2. Counted
    <2>1. Cardinality(Waiting) \in Nat /\ Cardinality(Calls) \in Nat
          /\ Cardinality(Waiting) <= Cardinality(Calls)
      BY WaitingCount DEF Waiting
    <2>. QED
      BY <2>1, ProxyAssumption DEF Init, Counted
  <1>3. Told /\ Half
    BY DEF Init, Told, Half, Waiting
  <1>. QED
    BY <1>1, <1>2, <1>3 DEF IInv

LEMMA ProxyInvariant == Spec => []IInv
  <1>1. IInv /\ [Next]_vars => IInv'
    BY TypedStep, CountedStep, ToldStep, HalfStep DEF IInv
  <1>. QED
    BY <1>1, ProxyInit, PTL DEF Spec

\* Every variable keeps its type, and the count of timeouts in a row never passes the
\* limit by more than the calls that may wait at once (mcp_proxy.py, _record_answer).
THEOREM ProxyTypeCorrect == Spec => []TypeOK
  <1>1. IInv => TypeOK
    <2> SUFFICES ASSUME IInv PROVE TypeOK
      OBVIOUS
    <2>1. Typed /\ Cardinality(Waiting) \in Nat /\ Cardinality(Calls) \in Nat
      BY WaitingCount DEF IInv, Waiting
    <2>2. consecutive \in 0..(TimeoutLimit + Cardinality(Calls))
      BY <2>1, ProxyAssumption DEF IInv, Counted, Typed
    <2>. QED
      BY <2>1, <2>2 DEF Typed, TypeOK
  <1>. QED
    BY <1>1, ProxyInvariant, PTL

\* A tool runs only for a call whose ALLOW was recorded first, and never for one the
\* proxy denied, however late the gate answers and whatever fails (mcp_proxy.py, rules
\* 2 and 4).
THEOREM EffectsAreAuthorised == Spec => []EffectIsAuthorised
  <1>1. IInv => EffectIsAuthorised
    BY DEF IInv, Typed, Told, EffectIsAuthorised
  <1>. QED
    BY <1>1, ProxyInvariant, PTL

\* While the store accepts records, an ALLOW in the chain of a call the proxy denied has
\* the proxy's DENY beside it (mcp_proxy.py, rule 5).
THEOREM LateAllowsAreReconciled == Spec => []LateAllowIsReconciled
  <1>1. IInv => LateAllowIsReconciled
    BY DEF IInv, Told, LateAllowIsReconciled
  <1>. QED
    BY <1>1, ProxyInvariant, PTL

\* A half-open breaker whose cooldown outlasts the timeout has one probe waiting at most
\* (mcp_proxy.py, _breaker_denies).
THEOREM ProbeIsAlone == Spec => []OneProbe
  <1>1. IInv => OneProbe
    BY DEF IInv, Half, OneProbe, ExactlyOneProbe
  <1>. QED
    BY <1>1, ProxyInvariant, PTL
============================================================================
