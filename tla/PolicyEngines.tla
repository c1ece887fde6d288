--------------------------- MODULE PolicyEngines ---------------------------
(***************************************************************************)
(* The three policy engines as functions of what they consult: the rules   *)
(* of custos/policy_engine.py, the answer of an OPA server                 *)
(* (custos/opa_engine.py, custos/hybrid_engine.py), and what is said about *)
(* them afterwards: the digest a record cites (custos/policy_citation.py), *)
(* the comparison of two rule sets (custos/policy_diff.py).                *)
(*                                                                         *)
(* A content is a record of the patterns that match it and the digits a    *)
(* card pattern matches in it; re.search of a pattern asks whether the     *)
(* pattern is one of them.  A digest is what it is the digest of.          *)
(***************************************************************************)
EXTENDS Naturals, SequencesExt

CONSTANT DEFAULT_RULES      \* the rules a regex engine starts from

ASSUME DefaultRulesAssumption ==
    DEFAULT_RULES \in Seq({DEFAULT_RULES[i] : i \in DOMAIN DEFAULT_RULES})

NoRule == "none"
NoPin == "none"                 \* CUSTOS_OPA_POLICY_DIGEST is not a digest
NoDigest == [none |-> TRUE]     \* no citation

Actions == {"allow", "audit", "deny"}

\* allowed, of a PolicyResult, is action # "deny" in every engine.
PolicyResult(action, rule) == [action |-> action, rule |-> rule]

----------------------------------------------------------------------------
(* The regex engine.                                                        *)

LuhnDigit(d, double) ==
    IF ~double THEN d ELSE IF 2 * d > 9 THEN 2 * d - 9 ELSE 2 * d

\* The digits are a sequence; the code counts them from 0.
_luhn_valid(digits) ==
    /\ Len(digits) \in 13..19
    /\ LET parity == Len(digits) % 2
           checksum[i \in 0..Len(digits)] ==
               IF i = 0 THEN 0
               ELSE checksum[i - 1] + LuhnDigit(digits[i], (i - 1) % 2 = parity)
       IN  checksum[Len(digits)] % 10 = 0

_POST_VALIDATION_RULES == {"block_pii_credit_card"}

Hits(rule, content) ==
    /\ rule.pattern \in content.matches
    /\ rule.name \in _POST_VALIDATION_RULES => _luhn_valid(content.digits)

Hit(rules, content, action) ==
    {i \in DOMAIN rules : rules[i].action = action /\ Hits(rules[i], content)}

\* The first deny, or the first audit, or allow.
evaluate(rules, content) ==
    LET First(action) ==
            PolicyResult(action, rules[Min(Hit(rules, content, action))].name)
    IN  IF Hit(rules, content, "deny") # {} THEN First("deny")
        ELSE IF Hit(rules, content, "audit") # {} THEN First("audit")
        ELSE PolicyResult("allow", NoRule)

----------------------------------------------------------------------------
(* What an OPA server may answer: nothing usable within the timeout, a      *)
(* document with no result the engines understand, a bare Boolean, or an    *)
(* object whose allow is true, false or another value Python takes for true.*)

OpaAnswers ==
    [kind : {"unavailable", "malformed"}, allow : {"false"}, audit : {FALSE}]
    \cup [kind : {"boolean"}, allow : {"true", "false"}, audit : {FALSE}]
    \cup [kind : {"object"}, allow : {"true", "false", "truthy"}, audit : BOOLEAN]

OpaDenial(answer) ==
    PolicyResult("deny", CASE answer.kind = "unavailable" -> "opa_unavailable"
                           [] answer.kind = "malformed" -> "opa_parse_error"
                           [] OTHER -> "opa_deny")

\* The engines that ask OPA take what their own rules decided, a PolicyResult.

\* OPAPolicyEngine.evaluate: custom rules first, then only a literal true allows.
opa_evaluate(custom, answer) ==
    IF custom.action = "deny" THEN custom
    ELSE IF answer.allow # "true" THEN OpaDenial(answer)
    ELSE IF answer.audit THEN PolicyResult("audit", "opa_audit")
    ELSE custom

\* OPAPolicyEngine.evaluate_with_metadata: the audit flag of OPA is not read.
opa_evaluate_with_metadata(custom, answer) ==
    IF custom.action # "deny" /\ answer.allow # "true" THEN OpaDenial(answer) ELSE custom

\* Variant: a rule that audits is returned whatever OPA says.
hybrid_evaluate_AuditFirst(regex, answer) ==
    IF regex.action # "allow" \/ answer.kind \in {"unavailable", "malformed"} THEN regex
    ELSE IF answer.allow = "false" THEN OpaDenial(answer)
    ELSE IF answer.audit THEN PolicyResult("audit", "opa_audit")
    ELSE regex

\* HybridPolicyEngine.evaluate: without a usable answer the rules decide, and
\* whatever Python takes for true allows.
hybrid_evaluate(regex, answer) ==
    IF regex.action = "deny" \/ answer.kind \in {"unavailable", "malformed"} THEN regex
    ELSE IF answer.allow = "false" THEN OpaDenial(answer)
    ELSE IF regex.action = "allow" /\ answer.audit THEN PolicyResult("audit", "opa_audit")
    ELSE regex

\* HybridPolicyEngine.evaluate_with_metadata, over an OPA engine with no rules of
\* its own: only an absent answer leaves the decision to the rules.
hybrid_evaluate_with_metadata(regex, answer) ==
    LET opa == opa_evaluate_with_metadata(PolicyResult("allow", NoRule), answer)
    IN  IF \/ regex.action = "deny"
           \/ opa.rule = "opa_unavailable"
           \/ regex.action = "audit" /\ opa.action # "deny"
        THEN regex ELSE opa

----------------------------------------------------------------------------
(* create_policy_engine, and the engine it returns.                         *)

Kinds == {"regex", "opa", "hybrid"}

\* An OPA engine starts with no rules of its own.
create_policy_engine(kind) == IF kind = "opa" THEN << >> ELSE DEFAULT_RULES

Decided(kind, local, answer) ==
    CASE kind = "regex" -> local
      [] kind = "opa" -> opa_evaluate(local, answer)
      [] kind = "hybrid" -> hybrid_evaluate(local, answer)

DecidedWithMetadata(kind, local, answer) ==
    CASE kind = "regex" -> local
      [] kind = "opa" -> opa_evaluate_with_metadata(local, answer)
      [] kind = "hybrid" -> hybrid_evaluate_with_metadata(local, answer)

Decide(kind, rules, content, answer) == Decided(kind, evaluate(rules, content), answer)

----------------------------------------------------------------------------
(* Citation and comparison.                                                 *)

\* The rules sorted by their canonical form: their order is lost, their number is
\* not.
canonical_rules(rules) == ToBag(rules)

\* The bytes of a regex policy name neither engine nor pin.
engine_citation_bytes(tools, rules, kind, pin) ==
    IF kind = "regex"
    THEN [tools |-> tools, rules |-> canonical_rules(rules)]
    ELSE [tools |-> tools, rules |-> canonical_rules(rules),
          engine |-> kind, opa_policy |-> pin]

\* The Rego rules of an OPA server can be cited only if the operator pins them.
engine_policy_digest(tools, rules, kind, pin) ==
    IF kind # "regex" /\ pin = NoPin THEN NoDigest
    ELSE engine_citation_bytes(tools, rules, kind, pin)

\* A content decision reads no tool allowlist.
content_engine_digest(rules, kind, pin) == engine_policy_digest({}, rules, kind, pin)

\* What rules_digest of the regex engine computes, and keeps until a rule is added.
rules_canonical_digest(rules) == [rules |-> canonical_rules(rules)]

\* ReplayEngine.replay_by_hash: the engine of now decides on the content again.
replay_by_hash(kind, rules, content, answer) == Decide(kind, rules, content, answer)

decision_matches(recorded, kind, rules, content, answer) ==
    replay_by_hash(kind, rules, content, answer) = recorded

\* PolicyDiffer.diff, of two rule sets.
diff(content, current, proposed) ==
    LET was == evaluate(current, content)
        is == evaluate(proposed, content)
    IN  [current |-> was, proposed |-> is, decision_changed |-> was # is]
============================================================================
