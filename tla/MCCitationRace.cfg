\* The digest a regex engine keeps of its rules, while a thread cites.
SPECIFICATION EnforcementSpec
CONSTANTS
    Processes = {p1}
    Tenants = {default, t1}
    Default = default
    Rules <- MCOneRule
    MaxRules = 2
    DEFAULT_RULES <- MCDefaultRules
    EvaluatedContents <- MCContents
    Tools = {tool}
    GateTenants = {t1}
    Threads = {i1}
    Policies <- MCRegex
INVARIANT RulesDigestIsExact
