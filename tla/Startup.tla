------------------------------ MODULE Startup ------------------------------
(***************************************************************************)
(* What lifespan (main.py) makes of the environment before a process       *)
(* serves, and how callers are authenticated while it does: custos/auth.py,*)
(* the start-up checks of custos/jwks.py, scaling.py, audit_persistence.py *)
(* and content_retention.py, and what custos/deployment_binding.py asks.   *)
(*                                                                         *)
(* An environment is a record with a field for each variable.  Operators   *)
(* that raise in the code are FALSE here.                                  *)
(***************************************************************************)
EXTENDS Naturals

Production(e) == e.CUSTOS_ENV = "production"

----------------------------------------------------------------------------
(* Authentication.                                                          *)

\* The HS256 secret in force, which is read when the module is imported.
_JWT_SECRET(e) == IF e.CUSTOS_JWT_SECRET = "unset" THEN "dev" ELSE e.CUSTOS_JWT_SECRET

WeakSecret(e) == e.CUSTOS_JWT_SECRET \in {"unset", "empty", "dev"}

auth_enabled(e) == Production(e) \/ ~e.AUTH_DISABLED

\* A credential is a record [alg, key, exp, sub] or NoCredential.  Of an RS256 token
\* key says what verify_rs256_token made of it: the service's key, a key of its
\* issuer, or neither.
NoCredential == [alg |-> "absent", key |-> "absent", exp |-> "absent", sub |-> FALSE]

verify_token(e, c) ==
    \/ c.alg = "RS256" /\ c.key \in {"service", "issuer"} /\ c.exp = "future" /\ c.sub
    \/ /\ c.alg = "HS256" /\ ~(Production(e) /\ WeakSecret(e))
       /\ c.key = _JWT_SECRET(e) /\ c.exp # "past" /\ c.sub

\* optional_auth and require_auth admit the same callers.
Admits(e, c) == auth_enabled(e) => verify_token(e, c)

\* create_token signs with what the configuration selects.
create_token(e) ==
    [alg |-> e.CUSTOS_JWT_ALGORITHM, exp |-> "future", sub |-> TRUE,
     key |-> IF e.CUSTOS_JWT_ALGORITHM = "RS256" THEN "service" ELSE _JWT_SECRET(e)]

----------------------------------------------------------------------------
(* The checks of lifespan.                                                  *)

validate_production_key(e) ==
    Production(e) /\ e.CUSTOS_JWT_ALGORITHM = "RS256" => e.CUSTOS_JWT_PRIVATE_KEY

validate_production_secrets(e) ==
    Production(e) =>
        IF e.CUSTOS_JWT_ALGORITHM = "RS256" THEN validate_production_key(e) ELSE ~WeakSecret(e)

\* Unset is one replica; what is not a positive number is refused.
replica_count(e) ==
    CASE e.CUSTOS_REPLICA_COUNT \in {"unset", "one"} -> 1
      [] e.CUSTOS_REPLICA_COUNT = "many" -> 2
      [] OTHER -> 0

rate_limit_store(e) ==
    IF e.CUSTOS_RATE_LIMIT_STORE = "unset" THEN "process" ELSE e.CUSTOS_RATE_LIMIT_STORE

\* The first of the two that is set selects the backend of the chain.
_build_backend(e) ==
    IF e.DATABASE_URL THEN "PostgreSQLBackend"
    ELSE IF e.AUDIT_DB_PATH THEN "SQLiteBackend" ELSE "InMemoryBackend"

\* The rules of the tenants have a store of their own.
_build_policy_backend(e) ==
    IF e.DATABASE_URL THEN "PostgreSQLPolicyBackend"
    ELSE IF e.POLICY_DB_PATH THEN "SQLitePolicyBackend" ELSE "InMemoryPolicyBackend"

is_durable(backend) == backend # "InMemoryBackend"

\* Each of the conflicts it reports is a reason to refuse.
validate_replica_configuration(e) ==
    /\ replica_count(e) >= 1 /\ rate_limit_store(e) \in {"process", "external"}
    /\ rate_limit_store(e) # "external"     \* known, and not implemented
    /\ replica_count(e) > 1 =>
         rate_limit_store(e) # "process" /\ is_durable(_build_backend(e))

\* Variant: production may keep its records in memory.
require_durable_audit_Anywhere(e) == Production(e) => TRUE

require_durable_audit(e) == Production(e) => is_durable(_build_backend(e))

content_retention_mode(e) ==
    IF e.CUSTOS_CONTENT_RETENTION = "unset" THEN "off" ELSE e.CUSTOS_CONTENT_RETENTION

validate_content_retention(e) ==
    CASE content_retention_mode(e) = "store" ->
            e.CUSTOS_CONTENT_STORE_DIR = "directory" /\ e.CUSTOS_RETENTION_ADMIN_TOKEN
      [] content_retention_mode(e) = "off" ->
            e.CUSTOS_CONTENT_STORE_DIR = "unset" /\ ~e.CUSTOS_RETENTION_ADMIN_TOKEN
      [] OTHER -> FALSE

bound_evidence_required(e) == e.CUSTOS_AUDIT_REQUIRE_BOUND \/ Production(e)

\* A deployment that asks to be bound has to say what it is.
Identified(e) ==
    e.CUSTOS_DEPLOYMENT_BINDING =>
        /\ e.CUSTOS_DEPLOYMENT_ID
        /\ e.CUSTOS_TOOL_DESCRIPTORS \in {"unset", "list"}
        /\ e.CUSTOS_BINDING_CONFIG \in {"unset", "object"}

\* What lifespan lets through, up to the record of the binding.
Accepted(e) ==
    /\ validate_production_secrets(e)
    /\ validate_production_key(e)
    /\ validate_replica_configuration(e)
    /\ require_durable_audit(e)
    /\ validate_content_retention(e)
    /\ Identified(e)

\* What of an environment decides about a request.
Deployed(e) ==
    [production |-> Production(e), strict |-> bound_evidence_required(e),
     durable |-> is_durable(_build_backend(e)), auth |-> auth_enabled(e),
     rules_kept |-> _build_policy_backend(e) # "InMemoryPolicyBackend",
     retain |-> content_retention_mode(e) = "store", bind |-> e.CUSTOS_DEPLOYMENT_BINDING]
============================================================================
