\* One process, any tenant name, every engine, a store that may fail, restarts; under the
\* regex engine two threads of the gate cite a tenant whose rules change.
SPECIFICATION EnforcementSpec
CONSTANTS
    Processes = {p1}
    Tenants = {default, t1}
    Default = default
    Rules <- MCRules
    MaxRules = 2
    DEFAULT_RULES <- MCDefaultRules
    EvaluatedContents <- MCContents
    Tools = {}
    GateTenants = {t1}
    Threads = {i1, i2}
    Policies <- MCPolicies
CONSTRAINT MCBounds
SYMMETRY ThreadSymmetry
INVARIANTS
    PartOnlyOverFailures
    AckedRuleIsInForce
    AckedRuleIsStored
    CitationIsExact
PROPERTIES RulesOnlyTighten
