---------------------------- MODULE Enforcement ----------------------------
(***************************************************************************)
(* The policies of TenantPolicies enforced by the engines of PolicyEngines *)
(* and cited by the records of decisions: /v1/evaluate computes the digest *)
(* of the policy for every record, the action gate caches it               *)
(* (custos/action_gate.py).                                                *)
(*                                                                         *)
(* CUSTOS_POLICY_ENGINE and CUSTOS_OPA_POLICY_DIGEST are read from the     *)
(* environment and do not change while the processes share a table.  A     *)
(* handler of the API awaits nothing, but the threads of the gate adapter  *)
(* (custos/mcp_gate_adapter.py) cite a policy while rules are added: a     *)
(* citation takes no lock, and each of its reads and writes is a step.     *)
(* What a decision and its record do to the stores is in ServedPath; here  *)
(* a decision leaves only digests behind, and the properties ask what the  *)
(* engines would decide and cite in every state.                           *)
(***************************************************************************)
EXTENDS TenantPolicies, PolicyEngines

CONSTANTS
    EvaluatedContents,      \* what is evaluated, see PolicyEngines
    Tools,                  \* the tools an action may name
    GateTenants,            \* bound: the tenants whose agents use the gate
    Threads,                \* the threads of a process that run the gate
    Policies                \* the values of CUSTOS_POLICY_ENGINE, and of
                            \* CUSTOS_OPA_POLICY_DIGEST where it is a digest

ASSUME GateTenantsAssumption == GateTenants \subseteq Tenants
ASSUME PoliciesAssumption == \A choice \in Policies : choice.kind \in Kinds

VARIABLES
    policy,         \* the engine kind and the pin
    allowlists,     \* _tool_allowlists of each process's gate
    cache,          \* _digest_cache
    memo,           \* _rules_digest_cache of each tenant's engine
    clearing,       \* the tenants whose engine has a rule more and the old memo yet
    citing,         \* what each thread of the gate does: see Citation
    raced           \* history: the tenants whose rules changed during a citation

gate == <<allowlists, cache, memo, clearing, citing, raced>>
enforcementVars == <<vars, policy, gate>>

NoCache == [none |-> TRUE]
NoEngine == [none |-> TRUE]
Idle == [at |-> "idle"]

\* The locals of _cited_policy_digest.  An engine whose tenant is deleted is kept by
\* the citations that read it, in own.
Citation(at, t, tools, rules, digest, own) ==
    [at |-> at, tenant |-> t, tools |-> tools, rules |-> rules, digest |-> digest, own |-> own]

EnforcementInit ==
    /\ Init
    /\ policy \in Policies
    /\ allowlists = [p \in Processes |-> [t \in Tenants |-> {}]]
    /\ cache = [p \in Processes |-> [t \in Tenants |-> NoCache]]
    /\ memo = [p \in Processes |-> [t \in Tenants |-> NoDigest]]
    /\ clearing = [p \in Processes |-> {}]
    /\ citing = [p \in Processes |-> [i \in Threads |-> Idle]]
    /\ raced = [p \in Processes |-> {}]

\* _rules of the tenant's engine: what the factory put there, then the tenant's.
RulesOf(p, t) == create_policy_engine(policy.kind) \o engine[p][t]

\* The digest of what a decision of the tenant consults.
InForce(p, t, tools) == engine_policy_digest(tools, RulesOf(p, t), policy.kind, policy.pin)

----------------------------------------------------------------------------
(* The administrator.                                                       *)

\* The citations that read the engine the tenant has now.
CitingNow(p, t) ==
    {i \in Threads : citing[p][i] # Idle /\ citing[p][i].tenant = t /\ citing[p][i].own = NoEngine}

\* A citation left with the engine of a deleted tenant.
Left(p, c) ==
    [c EXCEPT !.own = [rules |-> RulesOf(p, c.tenant), memo |-> memo[p][c.tenant]]]

\* A step of TenantPolicies: an engine gets a rule, is made or goes.  The engine of
\* a rule is still to clear its memo; the lock of the manager is held until then.
Administered(p) ==
    LET kept == tenants[p] \cap tenants'[p]
        grown == {t \in kept : engine'[p][t] # engine[p][t]}
    IN  /\ clearing[p] = {}
        /\ Administer(p)
        /\ clearing' = [clearing EXCEPT ![p] = grown]
        /\ memo' = [memo EXCEPT ![p] = [t \in Tenants |-> IF t \in kept THEN @[t] ELSE NoDigest]]
        /\ citing' = [citing EXCEPT ![p] = [i \in Threads |->
              IF \E t \in tenants[p] \ kept : i \in CitingNow(p, t) THEN Left(p, @[i]) ELSE @[i]]]
        /\ raced' = [raced EXCEPT ![p] = @ \cup {t \in grown : CitingNow(p, t) # {}}]
        /\ UNCHANGED <<policy, allowlists, cache>>

\* The second line of PolicyEngine.add_rule.
ClearMemo(p) ==
    /\ clearing[p] # {}
    /\ memo' = [memo EXCEPT ![p] = [t \in Tenants |-> IF t \in clearing[p] THEN NoDigest ELSE @[t]]]
    /\ clearing' = [clearing EXCEPT ![p] = {}]
    /\ UNCHANGED <<vars, policy, allowlists, cache, citing, raced>>

register_tools(p, t, tools) ==
    /\ p \in up
    /\ allowlists' = [allowlists EXCEPT ![p][t] = tools]
    /\ cache' = [cache EXCEPT ![p][t] = NoCache]
    /\ UNCHANGED <<vars, policy, memo, clearing, citing, raced>>

\* The gate of a process ends with it.
GateEnds(p) ==
    /\ Stop(p)
    /\ allowlists' = [allowlists EXCEPT ![p] = [t \in Tenants |-> {}]]
    /\ cache' = [cache EXCEPT ![p] = [t \in Tenants |-> NoCache]]
    /\ memo' = [memo EXCEPT ![p] = [t \in Tenants |-> NoDigest]]
    /\ clearing' = [clearing EXCEPT ![p] = {}]
    /\ citing' = [citing EXCEPT ![p] = [i \in Threads |-> Idle]]
    /\ raced' = [raced EXCEPT ![p] = {}]
    /\ UNCHANGED policy

----------------------------------------------------------------------------
(* _cited_policy_digest of the action gate, for evaluate_action,            *)
(* record_reconciliation and the deployment binding of a tenant that is     *)
(* registered.  A thread p, i reads and writes what the tenant's citations  *)
(* share without a lock.                                                    *)

\* The thread is at a point of the citation, and goes on as c.
At(p, i, point) == citing[p][i].at = point
Goes(p, i, c) ==
    /\ citing' = [citing EXCEPT ![p][i] = c]
    /\ UNCHANGED <<vars, policy, allowlists, clearing>>

\* The list and the memo of the engine a citation holds.
EngineRules(p, c) == IF c.own = NoEngine THEN RulesOf(p, c.tenant) ELSE c.own.rules
EngineMemo(p, c) == IF c.own = NoEngine THEN memo[p][c.tenant] ELSE c.own.memo

CiteTools(p, i, t) ==
    /\ p \in up /\ t \in tenants[p] /\ At(p, i, "idle")
    /\ Goes(p, i, Citation("rules", t, allowlists[p][t], << >>, NoDigest, NoEngine))
    /\ raced' = [raced EXCEPT ![p] = @ \cup ({t} \cap clearing[p])]
    /\ UNCHANGED <<cache, memo>>

\* _engine_citation_parts copies the list.  Only the regex engine has rules_digest;
\* the others are asked in vain.
CiteRules(p, i) ==
    /\ At(p, i, "rules")
    /\ Goes(p, i, [citing[p][i] EXCEPT
                    !.rules = EngineRules(p, citing[p][i]),
                    !.at = IF policy.kind = "regex" THEN "memo" ELSE "lookup"])
    /\ UNCHANGED <<cache, memo, raced>>

\* rules_digest: the digest is computed where there is none, ...
MemoRead(p, i) ==
    LET c == citing[p][i]
    IN  /\ At(p, i, "memo")
        /\ Goes(p, i, IF EngineMemo(p, c) # NoDigest THEN [c EXCEPT !.at = "key"]
                      ELSE [c EXCEPT !.at = "fill",
                                     !.digest = rules_canonical_digest(EngineRules(p, c))])
        /\ UNCHANGED <<cache, memo, raced>>

\* ... kept, ...
MemoFill(p, i) ==
    LET c == citing[p][i]
    IN  /\ At(p, i, "fill")
        /\ IF c.own = NoEngine
           THEN /\ Goes(p, i, [c EXCEPT !.at = "key"])
                /\ memo' = [memo EXCEPT ![p][c.tenant] = c.digest]
           ELSE /\ Goes(p, i, [c EXCEPT !.at = "key", !.own.memo = c.digest])
                /\ UNCHANGED memo
        /\ UNCHANGED <<cache, raced>>

\* ... and what is kept is read again: nothing, if a rule was added meanwhile.
MemoReturn(p, i) ==
    /\ At(p, i, "key")
    /\ Goes(p, i, [citing[p][i] EXCEPT !.at = "lookup", !.digest = EngineMemo(p, citing[p][i])])
    /\ UNCHANGED <<cache, memo, raced>>

\* Variant: the rules are not part of the key.
CacheKey_NoRules(tools, rules) == [tools |-> tools, kind |-> policy.kind, pin |-> policy.pin]

CacheKey(tools, rules) ==
    [tools |-> tools, kind |-> policy.kind, pin |-> policy.pin, rules |-> rules]

Cached(p, t, key) == cache[p][t] # NoCache /\ cache[p][t].key = key

CiteLookup(p, i) ==
    LET c == citing[p][i]
    IN  /\ At(p, i, "lookup")
        /\ Goes(p, i, IF Cached(p, c.tenant, CacheKey(c.tools, c.digest)) THEN Idle
                      ELSE [c EXCEPT !.at = "keep"])
        /\ UNCHANGED <<cache, memo, raced>>

\* The digest is computed from the copy of the list.
CiteKeep(p, i) ==
    LET c == citing[p][i]
    IN  /\ At(p, i, "keep")
        /\ Goes(p, i, Idle)
        /\ cache' = [cache EXCEPT ![p][c.tenant] =
              [key |-> CacheKey(c.tools, c.digest),
               digest |-> engine_policy_digest(c.tools, c.rules, policy.kind, policy.pin)]]
        /\ UNCHANGED <<memo, raced>>

Cite(p, i) ==
    \/ \E t \in GateTenants : CiteTools(p, i, t)
    \/ CiteRules(p, i) \/ MemoRead(p, i) \/ MemoFill(p, i) \/ MemoReturn(p, i)
    \/ CiteLookup(p, i) \/ CiteKeep(p, i)

EnforcementNext ==
    \E p \in Processes :
        \/ Administered(p) \/ ClearMemo(p) \/ GateEnds(p)
        \/ \E t \in GateTenants, tools \in SUBSET Tools : register_tools(p, t, tools)
        \/ \E i \in Threads : Cite(p, i)

EnforcementSpec == EnforcementInit /\ [][EnforcementNext]_enforcementVars

----------------------------------------------------------------------------
(* Properties.                                                              *)

\* What a citation that runs alone from here returns.
CitedPolicyDigest(p, t) ==
    LET rules == IF policy.kind # "regex" \/ memo[p][t] # NoDigest THEN memo[p][t]
                 ELSE rules_canonical_digest(RulesOf(p, t))
    IN  IF Cached(p, t, CacheKey(allowlists[p][t], rules)) THEN cache[p][t].digest
        ELSE InForce(p, t, allowlists[p][t])

Cites(p, t) == CitedPolicyDigest(p, t) = InForce(p, t, allowlists[p][t])

\* "The very next record after any policy change still cites the new digest"
\* (action_gate.py, ActionGate.__init__): the digest the gate would cite for a
\* tenant is the digest of the tools and rules it enforces now, once add_rule is
\* over.
CitationIsCurrent == \A p \in up : \A t \in tenants[p] \ clearing[p] : Cites(p, t)

\* "The digest changes exactly when the canonical rule set changes"
\* (policy_engine.py, rules_digest): what the property keeps is the digest of the
\* rules of now, once add_rule is over.
RulesDigestIsExact ==
    \A p \in up : \A t \in tenants[p] \ clearing[p] :
        memo[p][t] \in {NoDigest, rules_canonical_digest(RulesOf(p, t))}

\* What the code keeps of the two: under the regex engine a citation goes stale only
\* if a rule is added while a thread cites.  Citations that overlap registered tools,
\* each other, a deleted tenant and its registration leave nothing behind that a
\* later one would wrongly find, however the reads of the threads interleave.
\* Without a pin the other engines cite nothing, before and after.
CitationIsExact ==
    \A p \in up : \A t \in tenants[p] \ (raced[p] \cup clearing[p]) :
        policy.kind = "regex" \/ policy.pin = NoPin => Cites(p, t)

Severity == [allow |-> 0, audit |-> 1, deny |-> 2]

\* Is an engine nowhere more lenient after its rules changed?
Tightens(kind, before, after) ==
    LET NoLooser(was, is) == Severity[was.action] <= Severity[is.action]
    IN  \A c \in EvaluatedContents :
            LET change == diff(c, before, after)
            IN  /\ NoLooser(change.current, change.proposed)
                /\ kind # "regex" =>    \* which asks OPA nothing
                      \A a \in OpaAnswers :
                        /\ NoLooser(Decided(kind, change.current, a),
                                    Decided(kind, change.proposed, a))
                        /\ NoLooser(DecidedWithMetadata(kind, change.current, a),
                                    DecidedWithMetadata(kind, change.proposed, a))

\* "Runtime rules cannot loosen the OPA decision - only tighten it" (opa_engine.py,
\* add_rule), and an OPA deny overrides a rule that only audits (hybrid_engine.py,
\* evaluate): while a process runs and a tenant stays registered, no change of its
\* engine answers any content more leniently than before, whatever OPA answers, at
\* either entry point; and diff says so of the rules alone.
RulesOnlyTighten ==
    [][\A p \in up \cap up' :
        \A t \in {t \in tenants[p] \cap tenants'[p] : engine'[p][t] # engine[p][t]} :
            Tightens(policy.kind, RulesOf(p, t), RulesOf(p, t)')]_engine
============================================================================
