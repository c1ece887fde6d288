------------------------------ MODULE McpProxy ------------------------------
(***************************************************************************)
(* The MCP proxy and its gate adapter: custos/mcp_proxy.py, McpProxy, and  *)
(* custos/mcp_gate_adapter.py, CustosGateAdapter.                          *)
(*                                                                         *)
(* Calls run on one event loop: the code between two awaits is one step.   *)
(* The gate runs in a pool of threads.  A call that times out stops        *)
(* waiting, but a gate job that has started goes on and may still write    *)
(* its record, so a call the proxy denied can get an ALLOW in the chain    *)
(* afterwards; the proxy writes a DENY with the same trace for it.         *)
(*                                                                         *)
(* Both write through AuditChain.record, under the lock of the tenant's    *)
(* chain, which is held while the store saves the record.  The adapter's   *)
(* record_denial is synchronous: while it waits for that lock, or for the  *)
(* store, the event loop runs no other call and no timer.                  *)
(*                                                                         *)
(* Time is abstracted to what the breaker asks of it: the cooldown of an   *)
(* open breaker is running or has lapsed, and a waiting call may time out. *)
(* A call slot is reused, with a fresh trace, once the gate is done with   *)
(* it.                                                                     *)
(***************************************************************************)
EXTENDS Naturals, FiniteSets

CONSTANTS
    Calls,              \* slots for concurrent tools/call requests
    PoolSize,           \* max_workers of the gate executor
    TimeoutLimit,       \* consecutive_timeout_limit
    ShortTimeout,       \* BOOLEAN: the timeout is shorter than the cooldown
    FaultModels         \* the sets of faults a behaviour may be exposed to

\* The gate raises instead of answering, the task of a call is cancelled, the
\* audit store refuses a record, a save of the gate does not return.
Faults == {"gate raises", "caller cancels", "store fails", "save hangs"}

ASSUME ProxyAssumption ==
    /\ PoolSize \in Nat \ {0} /\ TimeoutLimit \in Nat \ {0}
    /\ ShortTimeout \in BOOLEAN /\ FaultModels \subseteq SUBSET Faults
    /\ IsFiniteSet(Calls)

VARIABLES
    consecutive, open, probing,     \* the breaker: open is "no", "cooling", "lapsed"
    inflight,   \* calls that were waiting when the breaker last opened
    call,       \* what each call is doing, or how it ended
    probe,      \* history: the call was admitted as the probe, or beside one,
                \* and the gate has answered nobody since
    job,        \* the gate job of each call
    chain,      \* the records of each call's trace
    effects,    \* calls whose tool was run upstream
    faults      \* what may go wrong in this behaviour, fixed at its start

breaker == <<consecutive, open, probing, inflight>>
vars == <<breaker, call, probe, job, chain, effects, faults>>

Over == {"allowed", "denied", "timeout", "breaker", "error", "cancelled"}

\* The denials that the event loop is inside of, in the adapter's record_denial.
Reconciling == {"timing_out", "turned_away"}

Init ==
    /\ consecutive = 0 /\ open = "no" /\ probing = FALSE /\ inflight = {}
    /\ call = [c \in Calls |-> "new"]
    /\ probe = [c \in Calls |-> FALSE]
    /\ job = [c \in Calls |-> "none"]
    /\ chain = [c \in Calls |-> {}]
    /\ effects = {} /\ faults \in FaultModels

Waiting == {c \in Calls : call[c] = "waiting"}
Running == {c \in Calls : job[c] \in {"running", "allowing", "denying"}}

\* The event loop runs callbacks and timers.
LoopFree == \A c \in Calls : call[c] \notin Reconciling

\* No gate job holds the lock of the chain.
LockFree == \A c \in Calls : job[c] \notin {"allowing", "denying"}

\* An append to the chain, or a refusal of the store nobody hears of.
MayRecord(c, r) ==
    \/ chain' = [chain EXCEPT ![c] = @ \cup {r}]
    \/ "store fails" \in faults /\ UNCHANGED chain

----------------------------------------------------------------------------
(* Gate health.                                                             *)

_breaker_denies == probing \/ open = "cooling"

\* Variant: the probe is admitted without taking the slot.
TakeProbe_Unmarked ==
    IF open = "lapsed"
    THEN /\ open' = "no" /\ consecutive' = TimeoutLimit - 1
         /\ UNCHANGED <<probing, inflight>>
    ELSE UNCHANGED breaker

\* The bookkeeping of _breaker_denies when it lets a call through.
TakeProbe ==
    IF open = "lapsed"
    THEN /\ probing' = TRUE /\ open' = "no"
         /\ consecutive' = TimeoutLimit - 1
         /\ UNCHANGED inflight
    ELSE UNCHANGED breaker

AnsweredInTime ==
    probing' = FALSE /\ consecutive' = 0 /\ open' = "no" /\ UNCHANGED inflight

\* Variant: the slot of the probe is released on an answer only.
TimedOut_KeepsProbing(c) ==
    /\ consecutive' = consecutive + 1
    /\ IF consecutive' >= TimeoutLimit
       THEN open' = "cooling" /\ inflight' = Waiting \ {c}
       ELSE UNCHANGED <<open, inflight>>
    /\ UNCHANGED probing

TimedOut(c) ==
    /\ probing' = FALSE
    /\ consecutive' = consecutive + 1
    /\ IF consecutive' >= TimeoutLimit
       THEN open' = "cooling" /\ inflight' = Waiting \ {c}
       ELSE UNCHANGED <<open, inflight>>

\* The clock passes open_until.  With a timeout shorter than the cooldown the
\* calls that were waiting when the breaker opened are over by then.
CooldownLapses ==
    /\ open = "cooling"
    /\ ShortTimeout => inflight \cap Waiting = {}
    /\ open' = "lapsed"
    /\ UNCHANGED <<consecutive, probing, inflight, call, probe, job, chain,
                   effects, faults>>

----------------------------------------------------------------------------
(* call_tool.                                                               *)

\* Denied without asking the gate.
CallDenied(c) ==
    /\ LoopFree /\ call[c] = "new"
    /\ _breaker_denies
    /\ call' = [call EXCEPT ![c] = "turned_away"]
    /\ UNCHANGED <<breaker, probe, job, chain, effects, faults>>

\* Variant: a timed-out call is denied without a record.
Reconciled_OnlyBreaker(c) ==
    /\ call[c] \in Reconciling /\ LockFree
    /\ call' = [call EXCEPT ![c] = IF @ = "timing_out" THEN "timeout" ELSE "breaker"]
    /\ IF call[c] = "turned_away" THEN MayRecord(c, "PROXY_DENY") ELSE UNCHANGED chain
    /\ UNCHANGED <<breaker, probe, job, effects, faults>>

\* _reconcile: the hook gets the lock, saves the record or swallows the failure, and
\* the call is over.  Its budget bounds an awaitable result, and this hook has none.
Reconciled(c) ==
    /\ call[c] \in Reconciling /\ LockFree
    /\ call' = [call EXCEPT ![c] = IF @ = "timing_out" THEN "timeout" ELSE "breaker"]
    /\ MayRecord(c, "PROXY_DENY")
    /\ UNCHANGED <<breaker, probe, job, effects, faults>>

\* The gate is asked: a job for its pool, a timer for the wait.
CallAdmitted(c) ==
    /\ LoopFree /\ call[c] = "new"
    /\ ~_breaker_denies
    /\ TakeProbe
    /\ call' = [call EXCEPT ![c] = "waiting"]
    /\ probe' = [probe EXCEPT ![c] = open = "lapsed" \/ \E d \in Waiting : probe[d]]
    /\ job' = [job EXCEPT ![c] = "queued"]
    /\ UNCHANGED <<chain, effects, faults>>

\* Cancelling the wait cancels a job that has not started.
Abandon(c) ==
    job' = [job EXCEPT ![c] = IF @ = "queued" THEN "none" ELSE @]

\* The timer of the wait fires: the breaker is told, and the denial is to be recorded.
GateTimeout(c) ==
    /\ LoopFree /\ call[c] = "waiting"
    /\ TimedOut(c)
    /\ call' = [call EXCEPT ![c] = "timing_out"]
    /\ Abandon(c)
    /\ UNCHANGED <<probe, chain, effects, faults>>

\* The gate raised: denied, and the breaker is not told.
GateError(c) ==
    /\ LoopFree /\ call[c] = "waiting"
    /\ job[c] = "raised"
    /\ call' = [call EXCEPT ![c] = "error"]
    /\ UNCHANGED <<breaker, probe, job, chain, effects, faults>>

\* A verdict in time; the tool runs on an explicit allow only.
GateAnswers(c) ==
    /\ LoopFree /\ call[c] = "waiting"
    /\ job[c] \in {"allow", "deny"}
    /\ AnsweredInTime
    /\ call' = [call EXCEPT ![c] = IF job[c] = "allow" THEN "allowed" ELSE "denied"]
    /\ effects' = IF job[c] = "allow" THEN effects \cup {c} ELSE effects
    /\ probe' = [d \in Calls |-> FALSE]
    /\ UNCHANGED <<job, chain, faults>>

\* The task that runs call_tool is cancelled: CancelledError is no Exception.
CallCancelled(c) ==
    /\ "caller cancels" \in faults
    /\ LoopFree /\ call[c] = "waiting"
    /\ call' = [call EXCEPT ![c] = "cancelled"]
    /\ Abandon(c)
    /\ UNCHANGED <<breaker, probe, chain, effects, faults>>

\* The next request that takes the slot.
NextRequest(c) ==
    /\ call[c] \in Over
    /\ job[c] # "queued" /\ c \notin Running
    /\ call' = [call EXCEPT ![c] = "new"]
    /\ probe' = [probe EXCEPT ![c] = FALSE]
    /\ job' = [job EXCEPT ![c] = "none"]
    /\ chain' = [chain EXCEPT ![c] = {}]
    /\ effects' = effects \ {c}
    /\ UNCHANGED <<breaker, faults>>

----------------------------------------------------------------------------
(* The gate, in the adapter's pool.                                         *)

GateStarts(c) ==
    /\ job[c] = "queued"
    /\ Cardinality(Running) < PoolSize
    /\ job' = [job EXCEPT ![c] = "running"]
    /\ UNCHANGED <<breaker, call, probe, chain, effects, faults>>

\* evaluate_action has a decision, and its record has the lock of the chain.
GateRecords(c) ==
    /\ job[c] = "running" /\ LockFree
    /\ \E decision \in {"allowing", "denying"} : job' = [job EXCEPT ![c] = decision]
    /\ UNCHANGED <<breaker, call, probe, chain, effects, faults>>

\* Variant: an allow stands although it could not be recorded.
GateAllows_Unrecorded(c) ==
    /\ job[c] = "allowing"
    /\ MayRecord(c, "ALLOW")
    /\ job' = [job EXCEPT ![c] = "allow"]
    /\ UNCHANGED <<breaker, call, probe, effects, faults>>

\* The save returns, and the lock is released; an allow that could not be recorded
\* becomes a deny.
GateAllows(c) ==
    /\ job[c] = "allowing"
    /\ \/ /\ chain' = [chain EXCEPT ![c] = @ \cup {"ALLOW"}]
          /\ job' = [job EXCEPT ![c] = "allow"]
       \/ /\ "store fails" \in faults
          /\ job' = [job EXCEPT ![c] = "deny"]
          /\ UNCHANGED chain
    /\ UNCHANGED <<breaker, call, probe, effects, faults>>

GateDenies(c) ==
    /\ job[c] = "denying"
    /\ MayRecord(c, "DENY")
    /\ job' = [job EXCEPT ![c] = "deny"]
    /\ UNCHANGED <<breaker, call, probe, effects, faults>>

GateRaisesError(c) ==
    /\ "gate raises" \in faults
    /\ job[c] = "running"
    /\ job' = [job EXCEPT ![c] = "raised"]
    /\ UNCHANGED <<breaker, call, probe, chain, effects, faults>>

Next ==
    \/ CooldownLapses
    \/ \E c \in Calls :
        \/ CallDenied(c) \/ CallAdmitted(c) \/ GateTimeout(c) \/ Reconciled(c)
        \/ GateError(c) \/ GateAnswers(c) \/ CallCancelled(c) \/ NextRequest(c)
        \/ GateStarts(c) \/ GateRecords(c) \/ GateAllows(c) \/ GateDenies(c)
        \/ GateRaisesError(c)

Spec == Init /\ [][Next]_vars

\* The gate's save returns, unless it may hang.
SaveReturns(c) == "save hangs" \notin faults /\ (GateAllows(c) \/ GateDenies(c))

\* The clock advances; every time the event loop goes round it runs the timers that are
\* due, before the callbacks that came later; and the hook goes on once it can have
\* the lock.  Of the gate nothing is assumed but that it gives the lock back: a job may
\* hang wherever it does not hold it.
FairSpec ==
    /\ Spec
    /\ WF_vars(CooldownLapses)
    /\ \A c \in Calls :
        SF_vars(GateTimeout(c)) /\ WF_vars(Reconciled(c)) /\ WF_vars(SaveReturns(c))

----------------------------------------------------------------------------
(* Properties.                                                              *)

\* Every variable holds values of the kind the code keeps in it, and the count
\* of timeouts stays within the limit and the calls that may still time out.
TypeOK ==
    /\ consecutive \in 0..(TimeoutLimit + Cardinality(Calls))
    /\ open \in {"no", "cooling", "lapsed"} /\ probing \in BOOLEAN
    /\ inflight \subseteq Calls
    /\ call \in [Calls -> {"new", "waiting"} \cup Reconciling \cup Over]
    /\ probe \in [Calls -> BOOLEAN]
    /\ job \in [Calls -> {"none", "queued", "running", "allowing", "denying",
                          "allow", "deny", "raised"}]
    /\ chain \in [Calls -> SUBSET {"ALLOW", "DENY", "PROXY_DENY"}]
    /\ effects \subseteq Calls /\ faults \in FaultModels

\* A tool runs only for a call whose ALLOW was in the chain first, and never for
\* one the proxy denied, however late the gate answers (mcp_proxy.py, rules 2, 4).
EffectIsAuthorised ==
    \A c \in effects : "ALLOW" \in chain[c] /\ "PROXY_DENY" \notin chain[c]

\* Authorisation for an action that never happened is always answered: an ALLOW
\* in the chain of a denied call has the proxy's DENY beside it (mcp_proxy.py,
\* rule 5, which promises it while the audit store accepts records).
LateAllowIsReconciled ==
    "store fails" \notin faults =>
        \A c \in Calls :
            /\ "ALLOW" \in chain[c]
            /\ call[c] \in Over \ {"allowed", "cancelled"}
            => "PROXY_DENY" \in chain[c]

\* "Half-open admits exactly one probe" (mcp_proxy.py, _breaker_denies): of the
\* calls that wait on the gate, at most one was admitted as the probe, or beside it
\* before the gate answered anybody.
ExactlyOneProbe == \A c, d \in Waiting : probe[c] /\ probe[d] => c = d

\* So it is when the timeout is shorter than the cooldown (by default 2 and 5 s): no
\* call from before the breaker opened is left to give the probe's slot away.
OneProbe == ShortTimeout => ExactlyOneProbe

\* A gate that hangs does not make the proxy deny for ever: as long as saves return, no
\* gate call raises and no caller is cancelled, the probe gives its slot back, also
\* when the loop has to wait for the chain's lock (mcp_proxy.py, _record_answer).
HungProbeReleases ==
    probing /\ faults \cap {"gate raises", "caller cancels", "save hangs"} = {} ~> ~probing

\* "The probe clears the flag when it answers, whichever way it answers"
\* (mcp_proxy.py, _breaker_denies): the breaker does not deny forever.
ProbeReleases == probing ~> ~probing

\* "Budget for the reconciliation record. It must not re-introduce an unbounded wait
\* on the path that just proved the gate can hang" (mcp_proxy.py): a denial under way
\* ends, also when a gate job hangs inside a save.
ReconcileEnds == \A c \in Calls : call[c] \in Reconciling ~> call[c] \in Over
============================================================================
