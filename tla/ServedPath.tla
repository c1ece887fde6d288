----------------------------- MODULE ServedPath -----------------------------
(***************************************************************************)
(* The life of a serving process, for one tenant: lifespan (main.py) with  *)
(* the checks and the deployment binding of the start, and the endpoints   *)
(* that decide, record and erase: /v1/evaluate, /v1/evaluate_action,       *)
(* /v1/retention/purge, /v1/replay and the handler of a full audit store,  *)
(* with record_decision (custos/retention.py), ActionGate.evaluate_action  *)
(* and the counters of /metrics.  The process may stop at any time, inside *)
(* a handler too, and start again in the same environment.                 *)
(*                                                                         *)
(* A handler awaits nothing, so a request is one step of the event loop;   *)
(* a stop inside one is a step of its own where it leaves the two stores   *)
(* as no request does: between a body and its record, and between a        *)
(* deletion and its attestation.                                           *)
(* What a request meets is chosen: whether it is valid, over its quota,    *)
(* what the engine decides, what the audit store answers.                  *)
(***************************************************************************)
EXTENDS Startup, FiniteSets

CONSTANTS
    Contents,
    Environments,   \* the environments an operator may start the process in
    Engines,        \* records [citable, tools]
    MaxRequests,    \* bound on the requests
    MaxBoots        \* bound on the starts

\* citable says whether the engine's policy has a digest; tools, whether tools are
\* registered with the action gate.
ASSUME ServedAssumption ==
    /\ Engines \subseteq [citable : BOOLEAN, tools : BOOLEAN]
    /\ {MaxRequests, MaxBoots} \subseteq Nat

Counters == {"total", "allowed", "denied", "audited", "invalid_request",
             "unknown_tenant", "rate_limited", "unrecorded"}

VARIABLES
    deployment, \* what its environment makes of the process; fixed
    engine,     \* fixed
    up,         \* the process serves
    boots,      \* starts so far
    metrics,    \* _metrics
    bodies,     \* the content store: "absent", "stored", "purged"
    records,    \* the audit chain, as the set of what its records say
    broken,     \* a rule in force does not compile
    reply,      \* the response to the last request
    served,     \* requests so far
    lost,       \* history: contents a record of which was refused, cut off by a stop
                \* of the process, or gone with it
    acked       \* history: records the chain accepted

history == <<lost, acked>>
process == <<deployment, engine, up, boots>>
vars == <<process, metrics, bodies, records, broken, reply, served, history>>

NoReply == [status |-> 0, of |-> "nothing"]

\* An environment that lifespan refuses never serves.
Init ==
    /\ metrics = [k \in Counters |-> 0]
    /\ bodies = [c \in Contents |-> "absent"]
    /\ records = {} /\ broken = FALSE /\ reply = NoReply /\ served = 0
    /\ lost = {} /\ acked = {}
    /\ up = FALSE /\ boots = 0 /\ engine \in Engines
    /\ deployment \in {Deployed(e) : e \in {d \in Environments : Accepted(d)}}

Bump(keys) == metrics' = [k \in Counters |-> metrics[k] + IF k \in keys THEN 1 ELSE 0]

Serve == up /\ served < MaxRequests /\ served' = served + 1 /\ UNCHANGED process

\* What AuditChain.record may answer to a record with or without a trace and a
\* policy digest.
Outcomes(trace, digest) ==
    IF deployment.strict /\ ~(trace /\ digest) THEN {"unbound"}
    ELSE {"ok", "full", "failed"}

\* The exception handler counts every full store it answers for.
Unrecorded(out) == IF out = "full" THEN {"unrecorded"} ELSE {}

StatusOf(out, ok) == CASE out = "ok" -> ok [] out = "full" -> 503 [] OTHER -> 500

\* The commitment a decision is recorded with.
commitment_form(c) == IF deployment.retain /\ bodies[c] # "purged" THEN "salted-v1" ELSE "none"

\* chain.record.
Record(c, action, form, out) ==
    LET r == [content |-> c, commitment |-> form, action |-> action]
    IN  IF out = "ok"
        THEN records' = records \cup {r} /\ acked' = acked \cup {r} /\ UNCHANGED lost
        ELSE lost' = lost \cup {c} /\ UNCHANGED <<records, acked>>

\* A content store may also fail before it keeps or erases anything, and then the
\* chain is not asked.
StoreOutcomes(trace) ==
    Outcomes(trace, engine.citable) \cup IF deployment.retain THEN {"unstored"} ELSE {}

\* record_decision: the body first, then the record, which may be refused.
record_decision(c, action, out) ==
    IF out = "unstored" THEN UNCHANGED <<bodies, records, lost, acked>>
    ELSE /\ bodies' = [bodies EXCEPT ![c] = IF deployment.retain /\ @ = "absent" THEN "stored" ELSE @]
         /\ Record(c, action, commitment_form(c), out)

----------------------------------------------------------------------------
(* The start and the end of a process.                                      *)

BindingRecord == [content |-> "binding", commitment |-> "none", action |-> "BINDING",
                  boot |-> boots']

\* Variant: a binding that could not be recorded is logged and no more.
Start_Unbound ==
    /\ ~up /\ boots < MaxBoots /\ boots' = boots + 1
    /\ \/ ~deployment.bind /\ up' = TRUE /\ UNCHANGED <<records, acked>>
       \/ /\ deployment.bind
          /\ \E out \in Outcomes(TRUE, engine.citable) :
              /\ up' = TRUE
              /\ IF out = "ok"
                 THEN records' = records \cup {BindingRecord} /\ acked' = acked \cup {BindingRecord}
                 ELSE UNCHANGED <<records, acked>>
    /\ reply' = NoReply
    /\ UNCHANGED <<deployment, engine, metrics, bodies, broken, served, lost>>

\* establish: the binding cites the policy in force and has a trace of its own; a
\* process that cannot record it does not start.
Start ==
    /\ ~up /\ boots < MaxBoots /\ boots' = boots + 1
    /\ \/ ~deployment.bind /\ up' = TRUE /\ UNCHANGED <<records, acked>>
       \/ /\ deployment.bind
          /\ \E out \in Outcomes(TRUE, engine.citable) :
              /\ up' = (out = "ok")
              /\ IF out = "ok"
                 THEN records' = records \cup {BindingRecord} /\ acked' = acked \cup {BindingRecord}
                 ELSE UNCHANGED <<records, acked>>
    /\ reply' = NoReply
    /\ UNCHANGED <<deployment, engine, metrics, bodies, broken, served, lost>>

\* The counters go with the process, and so does what is only in its memory: the
\* chain and the rules, unless they have a store.  Bodies are on disk.
Down(cut) ==
    /\ up /\ up' = FALSE
    /\ metrics' = [k \in Counters |-> 0]
    /\ broken' = (broken /\ deployment.rules_kept)
    /\ records' = IF deployment.durable THEN records ELSE {}
    /\ lost' = lost \cup cut
                 \cup IF deployment.durable THEN {} ELSE {c \in Contents : bodies[c] # "absent"}
    /\ reply' = NoReply
    /\ UNCHANGED <<deployment, engine, boots, acked>>

\* Between requests, or at the end of one.
Stop == Down({}) /\ UNCHANGED <<bodies, served>>

StopInRequest(c, body) ==
    /\ Down({c})
    /\ served < MaxRequests /\ served' = served + 1 /\ deployment.retain
    /\ bodies' = [bodies EXCEPT ![c] = body]

\* In record_decision, with the body kept and the decision not recorded.
StopBeforeRecord(c) == bodies[c] = "absent" /\ StopInRequest(c, "stored")

\* In retention_purge, with the body erased and the deletion not attested.
StopBeforeAttestation(c) == bodies[c] = "stored" /\ StopInRequest(c, "purged")

\* optional_auth refuses the caller, or the token names another client; this comes
\* before any counter.
Unauthorised ==
    /\ Serve /\ deployment.auth
    /\ \E status \in {401, 403} : reply' = [status |-> status, of |-> "auth"]
    /\ UNCHANGED <<metrics, bodies, records, broken, history>>

----------------------------------------------------------------------------
(* /v1/evaluate                                                             *)

EvaluateRefused(kind) ==
    /\ Serve
    /\ Bump({"total", kind})
    /\ reply' = [status |-> IF kind = "invalid_request" THEN 422 ELSE 403,
                 of |-> "evaluate"]
    /\ UNCHANGED <<bodies, records, broken, history>>

\* Variant: the content is kept and the refusal is not recorded.
EvaluateLimited_Unnamed(c) ==
    /\ Serve
    /\ Bump({"total", "rate_limited"})
    /\ bodies' = [bodies EXCEPT ![c] = IF deployment.retain /\ @ = "absent" THEN "stored" ELSE @]
    /\ reply' = [status |-> 429, of |-> "evaluate"]
    /\ UNCHANGED <<records, broken, history>>

\* Over the quota: the refusal is recorded like a decision.
EvaluateLimited(c) ==
    /\ Serve
    /\ \E out \in StoreOutcomes(TRUE) :
        /\ Bump({"total", "rate_limited"} \cup Unrecorded(out))
        /\ record_decision(c, "rate_limited", out)
        /\ reply' = [status |-> StatusOf(out, 429), of |-> "evaluate"]
    /\ UNCHANGED broken

CounterOf(action) ==
    CASE action = "allow" -> "allowed" [] action = "audit" -> "audited"
      [] action = "deny" -> "denied"

\* A deny of an earlier rule is found before the rule that does not compile.
Decisions == IF broken THEN {"deny"} ELSE {"allow", "audit", "deny"}

EvaluateDecides(c, action) ==
    /\ Serve /\ action \in Decisions
    /\ \E out \in StoreOutcomes(TRUE) :
        /\ Bump({"total", CounterOf(action)} \cup Unrecorded(out))
        /\ record_decision(c, action, out)
        /\ reply' = [status |-> StatusOf(out, 200), of |-> "decision",
                     allowed |-> action # "deny", action |-> action, content |-> c]
    /\ UNCHANGED broken

\* The engine raises before there is a decision.
EvaluateRaises ==
    /\ Serve /\ broken
    /\ Bump({"total"})
    /\ reply' = [status |-> 500, of |-> "evaluate"]
    /\ UNCHANGED <<bodies, records, broken, history>>

----------------------------------------------------------------------------
(* /v1/evaluate_action: the gate gets no trace, and hides a record that     *)
(* could not be written, except that an allow does not stand without one.   *)

\* Variant: the allow stands.
EvaluateAction_AllowStands(c, action) ==
    /\ Serve
    /\ action \in IF engine.tools THEN Decisions ELSE {"deny"}
    /\ \E out \in StoreOutcomes(FALSE) :
        /\ Bump({IF action # "deny" THEN "allowed" ELSE "denied"})
        /\ record_decision(c, action, out)
        /\ reply' = [status |-> 200, of |-> "gate",
                     allowed |-> action # "deny", action |-> action, content |-> c]
    /\ UNCHANGED broken

EvaluateAction(c, action) ==
    /\ Serve
    /\ action \in IF engine.tools THEN Decisions ELSE {"deny"}
    /\ \E out \in StoreOutcomes(FALSE) :
        LET stands == action # "deny" /\ out = "ok"
        IN  /\ Bump({IF stands THEN "allowed" ELSE "denied"})
            /\ record_decision(c, action, out)
            /\ reply' = [status |-> 200, of |-> "gate",
                         allowed |-> stands, action |-> action, content |-> c]
    /\ UNCHANGED broken

\* An unknown tenant is denied and has no chain to record it in.
EvaluateActionUnknown(c) ==
    /\ Serve
    /\ Bump({"denied"})
    /\ reply' = [status |-> 200, of |-> "stranger",
                 allowed |-> FALSE, action |-> "deny", content |-> c]
    /\ UNCHANGED <<bodies, records, broken, history>>

EvaluateActionRaises ==
    /\ Serve /\ engine.tools /\ broken
    /\ reply' = [status |-> 500, of |-> "evaluate_action"]
    /\ UNCHANGED <<metrics, bodies, records, broken, history>>

----------------------------------------------------------------------------
(* The administrative endpoints.                                            *)

PurgeReply(c, out) ==
    [status |-> StatusOf(out, 200), of |-> "purge", allowed |-> FALSE, action |-> "PURGE", content |-> c]

\* The body goes first; the attestation has a digest and no trace.  Once the body is
\* gone a second request is refused.
retention_purge(c) ==
    /\ Serve /\ deployment.retain /\ bodies[c] = "stored"
    /\ \E out \in StoreOutcomes(FALSE) :
        /\ Bump(Unrecorded(out))
        /\ reply' = PurgeReply(c, out)
        /\ IF out = "unstored" THEN UNCHANGED <<bodies, records, lost, acked>>
           ELSE /\ bodies' = [bodies EXCEPT ![c] = "purged"]
                /\ Record(c, "PURGE", "purged-v1", out)
    /\ UNCHANGED broken

\* A replay of a recorded decision is recorded with neither trace nor digest.
replay(c) ==
    /\ Serve /\ ~broken /\ \E r \in records : r.content = c
    /\ \E out \in Outcomes(FALSE, FALSE) :
        /\ Bump(Unrecorded(out))
        /\ Record(c, "replay", "none", out)
        /\ reply' = [status |-> StatusOf(out, 200), of |-> "replay"]
    /\ UNCHANGED <<bodies, broken>>

\* Patterns are not compiled when a rule is added, and a rule cannot be removed.
AddBadRule ==
    /\ Serve /\ ~broken
    /\ broken' = TRUE
    /\ reply' = [status |-> 200, of |-> "policy"]
    /\ UNCHANGED <<metrics, bodies, records, history>>

Next ==
    \/ Start \/ Stop \/ Unauthorised
    \/ \E kind \in {"invalid_request", "unknown_tenant"} : EvaluateRefused(kind)
    \/ EvaluateRaises \/ EvaluateActionRaises \/ AddBadRule
    \/ \E c \in Contents :
        \/ EvaluateLimited(c) \/ EvaluateActionUnknown(c) \/ retention_purge(c) \/ replay(c)
        \/ StopBeforeRecord(c) \/ StopBeforeAttestation(c)
        \/ \E action \in {"allow", "audit", "deny"} :
            EvaluateDecides(c, action) \/ EvaluateAction(c, action)

Spec == Init /\ [][Next]_vars

----------------------------------------------------------------------------
(* Properties.                                                              *)

Recorded == \E r \in records : r.content = reply.content /\ r.action = reply.action

\* "a decision that returned 200 is in the store before the response is written"
\* (SLO-3).  At /v1/evaluate every decision is, and so is the attestation of a purge;
\* at /v1/evaluate_action every allow is, and a denial that could not be recorded is
\* answered with 200 all the same (action_gate.py, _unrecordable).
AnswerIsRecorded ==
    \/ reply.of \in {"decision", "purge"} /\ reply.status = 200
    \/ reply.of = "gate" /\ reply.allowed
    => Recorded

\* "Every request that reaches the decision path is in exactly one of six places,
\* and the target is that the sum closes with no remainder" (SLO-1): over the life
\* of a process, which is what its counters count.
SumCloses ==
    metrics["total"] =
        metrics["allowed"] + metrics["audited"] + metrics["denied"]
        + metrics["invalid_request"] + metrics["unknown_tenant"] + metrics["rate_limited"]

\* "Delete a stored body, its salt and its commitment, and attest the deletion"
\* (main.py, retention_purge): a purge that was answered and left no body behind has
\* its attestation on record.
DeletionIsAttested ==
    reply.of = "purge" /\ bodies[reply.content] = "purged" => Recorded

\* No body is kept that no record names, unless the chain refused a record of it or
\* the process stopped in between: such a body is not attributable and only a purge by
\* its digest removes it (retention.py, record_decision).
StoredIsNamed ==
    \A c \in Contents \ lost : bodies[c] = "stored" => \E r \in records : r.content = c

\* "A production process must not serve an audit trail it cannot keep"
\* (audit_persistence.py): what the chain accepted in production is still there
\* after any number of restarts.
ProductionRemembers == deployment.production => acked \subseteq records

\* "A deployment that asks to be bound and cannot write its record is refused rather
\* than started unbound" (main.py, lifespan): the chain holds a binding of this very
\* start while such a process serves, and none of a process that did not ask.
AskedIsBound ==
    /\ up /\ deployment.bind =>
         \E r \in records : r.action = "BINDING" /\ r.boot = boots
    /\ ~deployment.bind => \A r \in records : r.action # "BINDING"
============================================================================
