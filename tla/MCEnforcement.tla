--------------------------- MODULE MCEnforcement ---------------------------
(* Small instances of Enforcement: the default tenant and another, two      *)
(* default rules and two custom ones, which may be added twice.             *)
EXTENDS Enforcement, SequencesExt, TLC

Rule(name, pattern, action) == [name |-> name, pattern |-> pattern, action |-> action]

MCDefaultRules ==
    <<Rule("block_pii_credit_card", "card", "deny"), Rule("audit_keywords", "word", "audit")>>

MCRules ==
    {Rule("n1", "x", "deny"), Rule("n2", "y", "audit")}

\* 4111 1111 1111 1111, and the same with its last digit changed.
Card == <<4, 1, 1, 1, 1, 1, 1, 1, 1, 1, 1, 1, 1, 1, 1, 1>>
NoCard == [Card EXCEPT ![16] = 2]

MCContents ==
    {[matches |-> {"x", "y"}, digits |-> << >>],
     [matches |-> {"card", "y"}, digits |-> NoCard],
     [matches |-> {"card", "word"}, digits |-> Card]}

\* The pin says nothing of the regex engine.
MCPolicies ==
    {[kind |-> "regex", pin |-> NoPin], [kind |-> "opa", pin |-> "pinned"],
     [kind |-> "hybrid", pin |-> NoPin], [kind |-> "hybrid", pin |-> "pinned"]}

\* The gate's threads are followed under the regex engine, where all of a citation
\* happens, and with one rule of the gate's tenants; under the other engines tenants,
\* rules and store are, with lists of MaxRules.
MCOneRule == {Rule("n1", "x", "deny")}
MCRegex == {[kind |-> "regex", pin |-> NoPin]}
MCBounds ==
    \A p \in Processes :
        IF policy \in MCRegex
        THEN \A t \in Tenants : \A rules \in {custom[p][t], engine[p][t]} :
                rules \in IF t \in GateTenants THEN {<< >>} \cup {<<r>> : r \in MCOneRule} ELSE {<< >>}
        ELSE \A i \in Threads : citing[p][i] = Idle
ThreadSymmetry == Permutations(Threads)

----------------------------------------------------------------------------
(* The algorithms against reference definitions.                            *)

\* Luhn from the right, as ISO/IEC 7812 states it.
LuhnReference(digits) ==
    LET reversed == Reverse(digits)
        Value(i) == IF i % 2 = 1 THEN reversed[i]
                    ELSE ((2 * reversed[i]) \div 10) + ((2 * reversed[i]) % 10)
    IN  FoldLeftDomain(LAMBDA sum, i : sum + Value(i), 0, reversed) % 10 = 0

Numbers == {[i \in 1..n |-> (a * i + b) % 10] : n \in 12..20, a \in 0..9, b \in 0..9}

\* _luhn_valid is the standard check of 13 to 19 digits, and it catches every
\* error in one digit (policy_engine.py, _luhn_valid).
ASSUME LuhnIsLuhn ==
    \A digits \in Numbers :
        _luhn_valid(digits) <=> Len(digits) \in 13..19 /\ LuhnReference(digits)
ASSUME LuhnCatchesOneDigit ==
    \A digits \in {d \in Numbers : Len(d) \in {13, 16, 19} /\ _luhn_valid(d)} :
        \A i \in DOMAIN digits : \A d \in 0..9 \ {digits[i]} :
            ~_luhn_valid([digits EXCEPT ![i] = d])

AllRuleLists == UNION {[1..n -> MCRules \cup ToSet(MCDefaultRules)] : n \in 0..2}

\* Whatever OPA answers, no engine is more lenient than the rules it holds; and
\* without a usable answer the OPA engine denies (opa_engine.py, "Fail mode:
\* CLOSED"), while the hybrid one answers as the regex engine (hybrid_engine.py,
\* "Fail mode: GRACEFUL").
ASSUME RulesAreAFloor ==
    \A rules \in AllRuleLists, c \in MCContents, a \in OpaAnswers, kind \in Kinds :
        /\ Severity[evaluate(rules, c).action] <= Severity[Decide(kind, rules, c, a).action]
        /\ Severity[evaluate(rules, c).action]
              <= Severity[DecidedWithMetadata(kind, evaluate(rules, c), a).action]
ASSUME FailureModes ==
    \A rules \in AllRuleLists, c \in MCContents, a \in OpaAnswers :
        a.kind = "unavailable" =>
            /\ Decide("opa", rules, c, a).action = "deny"
            /\ Decide("hybrid", rules, c, a) = evaluate(rules, c)
            /\ DecidedWithMetadata("hybrid", evaluate(rules, c), a) = evaluate(rules, c)

\* replay_by_hash re-evaluates under the rules of now.  "Confirming the decision is
\* reproducible given the same policy rules" (replay.py, ReplayEngine): under rules
\* with the digest the record cites, the action is the same for the same answer of
\* OPA, however the rules are ordered; the rule named may be another one.
ASSUME CitationDeterminesAction ==
    \A kind \in Kinds, was \in AllRuleLists, is \in AllRuleLists :
        content_engine_digest(was, kind, "pinned") = content_engine_digest(is, kind, "pinned")
        => \A c \in MCContents, a \in OpaAnswers :
            /\ Decide(kind, was, c, a).action = replay_by_hash(kind, is, c, a).action
            /\ was = is => decision_matches(Decide(kind, was, c, a), kind, is, c, a)
============================================================================
