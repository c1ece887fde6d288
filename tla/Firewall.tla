------------------------------ MODULE Firewall ------------------------------
(***************************************************************************)
(* The execution firewall: custos/firewall.py, ExecutionFirewall.enforce,  *)
(* and custos/execution.py, HTTPExecutionAdapter with one CircuitState per *)
(* target host.                                                            *)
(*                                                                         *)
(* Threads run enforce side by side and share the circuits.  A circuit is  *)
(* asked under its lock and told of the outcome under its lock, and the    *)
(* request to the target lies between the two.  The record is written      *)
(* last, when the target has already been reached.                         *)
(*                                                                         *)
(* Time is abstracted to the one thing a circuit asks: whether             *)
(* reset_timeout has passed since its last failure.                        *)
(***************************************************************************)
EXTENDS Naturals, FiniteSets

CONSTANTS
    Threads,
    Hosts,
    Default,        \* the circuit "default", which every host depends on
    Threshold,      \* failure_threshold
    RequireBound,   \* BOOLEAN: bound_evidence_required(), as in production
    MaxFailed       \* bound on the failed requests to one host

ASSUME FirewallAssumption ==
    /\ Threshold \in Nat \ {0} /\ MaxFailed \in Nat
    /\ RequireBound \in BOOLEAN
    /\ Default \notin Hosts
    /\ Threads # {} /\ IsFiniteSet(Threads)

Circuits == Hosts \cup {Default}

VARIABLES
    failures,   \* failure_count of each circuit
    elapsed,    \* reset_timeout has passed since the circuit's last failure
    pc,         \* where each thread is in enforce
    host,       \* the target of its call
    action,     \* what it is about to record
    reached,    \* history: the target of the call got the request
    chain,      \* history: what was recorded for the call
    result,     \* how its last call ended
    failed_requests,    \* history: those to each host
    late        \* history: requests sent since the host's circuit opened

circuits == <<failures, elapsed, failed_requests, late>>
firewallVars == <<circuits, pc, host, action, reached, chain, result>>

FirewallInit ==
    /\ failures = [h \in Circuits |-> 0] /\ elapsed = [h \in Circuits |-> FALSE]
    /\ failed_requests = [h \in Hosts |-> 0] /\ late = [h \in Hosts |-> 0]
    /\ pc = [t \in Threads |-> "idle"]
    /\ host \in [Threads -> Hosts]
    /\ action = [t \in Threads |-> "none"]
    /\ reached = [t \in Threads |-> FALSE]
    /\ chain = [t \in Threads |-> "none"]
    /\ result = [t \in Threads |-> "none"]

----------------------------------------------------------------------------
(* CircuitState, and the adapter's use of it.                               *)

circuit_state(h) ==
    IF failures[h] < Threshold THEN "closed"
    ELSE IF elapsed[h] THEN "half_open" ELSE "open"

can_proceed(h) == circuit_state(h) # "open"

\* Variant: the host's own circuit is not asked.
can_request_DefaultOnly(h) == can_proceed(Default)

\* The circuit "default" is changed by a reset only, so reading it after the
\* host's own is reading both at once.
can_request(h) == can_proceed(h) /\ can_proceed(Default)

record_failure(h) ==
    /\ failures' = [failures EXCEPT ![h] = @ + 1]
    /\ elapsed' = [elapsed EXCEPT ![h] = FALSE]
    /\ failed_requests' = [failed_requests EXCEPT ![h] = @ + 1]
    /\ late' = [late EXCEPT ![h] = IF circuit_state(h) = "open" THEN @ ELSE 0]

record_success(h) ==
    /\ failures' = [failures EXCEPT ![h] = 0]
    /\ UNCHANGED <<elapsed, failed_requests, late>>

\* record_success("default"), the operator's reset.
ResetAll ==
    /\ failures' = [h \in Circuits |-> 0]
    /\ UNCHANGED <<elapsed, failed_requests, late, pc, host, action, reached, chain, result>>

ResetElapses(h) ==
    /\ circuit_state(h) = "open"
    /\ elapsed' = [elapsed EXCEPT ![h] = TRUE]
    /\ UNCHANGED <<failures, failed_requests, late, pc, host, action, reached, chain, result>>

----------------------------------------------------------------------------
(* enforce: validate, limit, evaluate.                                      *)

Goto(t, step) == pc' = [pc EXCEPT ![t] = step]

Call(t, h) ==
    /\ pc[t] = "idle"
    /\ host' = [host EXCEPT ![t] = h]
    /\ reached' = [reached EXCEPT ![t] = FALSE]
    /\ chain' = [chain EXCEPT ![t] = "none"]
    /\ UNCHANGED circuits

\* The request is not valid, and nothing is recorded; or the engine raises.
EnforceEnds(t, h) ==
    /\ Call(t, h)
    /\ \E how \in {"blocked", "raised"} : result' = [result EXCEPT ![t] = how]
    /\ action' = [action EXCEPT ![t] = "none"]
    /\ UNCHANGED pc

\* Over the quota, or denied: recorded, and the target is not contacted.
EnforceRefuses(t, h) ==
    /\ Call(t, h)
    /\ \E a \in {"rate_limited", "deny"} : action' = [action EXCEPT ![t] = a]
    /\ result' = [result EXCEPT ![t] = "none"]
    /\ Goto(t, "audit")

EnforceAllows(t, h) ==
    /\ Call(t, h)
    /\ action' = [action EXCEPT ![t] = "none"]
    /\ result' = [result EXCEPT ![t] = "none"]
    /\ Goto(t, "forward")

----------------------------------------------------------------------------
(* forward.                                                                 *)

ToAudit(t, a) == action' = [action EXCEPT ![t] = a] /\ Goto(t, "audit")

\* The target URL is not one requests may go to.
TargetRefused(t) ==
    /\ pc[t] = "forward"
    /\ ToAudit(t, "forward_failed")
    /\ UNCHANGED <<circuits, host, reached, chain, result>>

CircuitOpen(t) ==
    /\ pc[t] = "forward" /\ ~can_request(host[t])
    /\ ToAudit(t, "circuit_open")
    /\ UNCHANGED <<circuits, host, reached, chain, result>>

Proceed(t) ==
    /\ pc[t] = "forward" /\ can_request(host[t])
    /\ Goto(t, "send")
    /\ UNCHANGED <<circuits, host, action, reached, chain, result>>

\* The request leaves; the circuit may have opened since it was asked.
Send(t) ==
    /\ pc[t] = "send"
    /\ late' = [late EXCEPT ![host[t]] = @ + IF circuit_state(host[t]) = "open" THEN 1 ELSE 0]
    /\ Goto(t, "wait")
    /\ UNCHANGED <<failures, elapsed, failed_requests, host, action, reached, chain, result>>

Response(t) ==
    /\ pc[t] = "wait"
    /\ record_success(host[t])
    /\ reached' = [reached EXCEPT ![t] = TRUE]
    /\ ToAudit(t, "forwarded")
    /\ UNCHANGED <<host, chain, result>>

\* A refused connection, a timeout, any other error: the target may have got the
\* request all the same.
RequestFails(t) ==
    /\ pc[t] = "wait" /\ failed_requests[host[t]] < MaxFailed
    /\ record_failure(host[t])
    /\ \E got \in BOOLEAN : reached' = [reached EXCEPT ![t] = got]
    /\ ToAudit(t, "forward_failed")
    /\ UNCHANGED <<host, chain, result>>

----------------------------------------------------------------------------
(* The record, and the FirewallResult.                                      *)

\* Variant: only what was forwarded is recorded.
Audit_ForwardedOnly(t) ==
    /\ pc[t] = "audit" /\ ~RequireBound
    /\ chain' = [chain EXCEPT ![t] = IF action[t] = "forwarded" THEN action[t] ELSE @]
    /\ result' = [result EXCEPT ![t] = action[t]]
    /\ Goto(t, "idle")
    /\ UNCHANGED <<circuits, host, action, reached>>

Audit(t) ==
    /\ pc[t] = "audit" /\ ~RequireBound
    /\ chain' = [chain EXCEPT ![t] = action[t]]
    /\ result' = [result EXCEPT ![t] = action[t]]
    /\ Goto(t, "idle")
    /\ UNCHANGED <<circuits, host, action, reached>>

\* The record cites no policy digest, which production refuses; or the store
\* failed.  The error leaves enforce.
AuditRaises(t) ==
    /\ pc[t] = "audit"
    /\ result' = [result EXCEPT ![t] = "raised"]
    /\ Goto(t, "idle")
    /\ UNCHANGED <<circuits, host, action, reached, chain>>

FirewallNext ==
    \/ ResetAll \/ \E h \in Hosts : ResetElapses(h)
    \/ \E t \in Threads :
        \/ \E h \in Hosts : EnforceEnds(t, h) \/ EnforceRefuses(t, h) \/ EnforceAllows(t, h)
        \/ TargetRefused(t) \/ CircuitOpen(t) \/ Proceed(t) \/ Send(t)
        \/ Response(t) \/ RequestFails(t) \/ Audit(t) \/ AuditRaises(t)

FirewallSpec == FirewallInit /\ [][FirewallNext]_firewallVars

----------------------------------------------------------------------------
(* Properties.                                                              *)

\* An open circuit lets no new request through: the target of an open circuit
\* gets at most the requests that were past the check when it opened, one for
\* each other thread (HTTPExecutionAdapter.forward).
OpenStopsRequests == \A h \in Hosts : late[h] < Cardinality(Threads)

\* "Audit everything" (firewall.py, enforce): no caller gets a result for a request
\* that may have reached its target and is not in the chain, also when the request
\* failed or timed out.  Where the chain refuses the record, as production does, the
\* target has been reached and the caller gets an exception.
EffectIsRecorded ==
    \A t \in Threads :
        pc[t] = "idle" /\ reached[t] /\ chain[t] = "none" => result[t] = "raised"
============================================================================
