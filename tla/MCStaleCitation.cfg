\* The digest the action gate would cite, for every engine.
SPECIFICATION EnforcementSpec
CONSTANTS
    Processes = {p1}
    Tenants = {default, t1}
    Default = default
    Rules <- MCRules
    MaxRules = 2
    DEFAULT_RULES <- MCDefaultRules
    EvaluatedContents <- MCContents
    Tools = {tool}
    GateTenants = {t1}
    Threads = {i1}
    Policies <- MCPolicies
INVARIANT CitationIsCurrent
