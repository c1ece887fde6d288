---------------------------- MODULE MCServedPath ----------------------------
(* A small instance of ServedPath, and what Startup says of environments    *)
(* and DeploymentBinding of bindings.                                       *)
EXTENDS ServedPath, DeploymentBinding, TLC

\* A production and a development environment as the deployment guide has them;
\* the runs and the assumptions vary their fields.
Base ==
    [CUSTOS_ENV |-> "production", CUSTOS_JWT_ALGORITHM |-> "HS256", CUSTOS_JWT_SECRET |-> "own",
     CUSTOS_JWT_PRIVATE_KEY |-> FALSE, AUTH_DISABLED |-> FALSE, CUSTOS_REPLICA_COUNT |-> "unset",
     CUSTOS_RATE_LIMIT_STORE |-> "unset", DATABASE_URL |-> FALSE, AUDIT_DB_PATH |-> TRUE,
     POLICY_DB_PATH |-> TRUE, CUSTOS_CONTENT_RETENTION |-> "unset",
     CUSTOS_CONTENT_STORE_DIR |-> "unset", CUSTOS_RETENTION_ADMIN_TOKEN |-> FALSE,
     CUSTOS_AUDIT_REQUIRE_BOUND |-> FALSE, CUSTOS_DEPLOYMENT_BINDING |-> FALSE,
     CUSTOS_DEPLOYMENT_ID |-> TRUE, CUSTOS_TOOL_DESCRIPTORS |-> "unset",
     CUSTOS_BINDING_CONFIG |-> "unset"]

\* Production and development; on a disk or in memory; retaining or not; bound or not.
MCEnvironments ==
    {[Base EXCEPT !.CUSTOS_ENV = env, !.AUTH_DISABLED = ~disk,
                  !.AUDIT_DB_PATH = disk, !.POLICY_DB_PATH = (env = "development"),
                  !.CUSTOS_CONTENT_RETENTION = IF keep THEN "store" ELSE "unset",
                  !.CUSTOS_CONTENT_STORE_DIR = IF keep THEN "directory" ELSE "unset",
                  !.CUSTOS_RETENTION_ADMIN_TOKEN = keep, !.CUSTOS_DEPLOYMENT_BINDING = bind] :
        env \in {"production", "development"}, disk \in BOOLEAN, keep \in BOOLEAN, bind \in BOOLEAN}

\* A production process that keeps and erases bodies, with every policy citable.
MCProduction ==
    {e \in MCEnvironments : /\ Production(e) /\ Accepted(e)
                            /\ e.CUSTOS_CONTENT_RETENTION = "store" /\ ~e.CUSTOS_DEPLOYMENT_BINDING}
MCCitable == [citable : {TRUE}, tools : BOOLEAN]

MCEngines == [citable : BOOLEAN, tools : BOOLEAN]

ContentSymmetry == Permutations(Contents)

----------------------------------------------------------------------------

AuthEnvironments ==
    {[Base EXCEPT !.CUSTOS_ENV = env, !.CUSTOS_JWT_ALGORITHM = alg, !.CUSTOS_JWT_SECRET = secret,
                  !.CUSTOS_JWT_PRIVATE_KEY = key, !.AUTH_DISABLED = off] :
        env \in {"production", "development"}, alg \in {"HS256", "RS256"},
        secret \in {"unset", "empty", "dev", "own"}, key \in BOOLEAN, off \in BOOLEAN}

Credentials ==
    {NoCredential} \cup
    [alg : {"HS256"}, key : {"empty", "dev", "own"}, exp : {"past", "future", "absent"}, sub : BOOLEAN]
    \cup [alg : {"RS256"}, key : {"service", "issuer", "other"}, exp : {"past", "future", "absent"}, sub : BOOLEAN]

\* Whatever production starts with, no caller gets in without a credential, with an
\* expired one, or with one signed with the default secret, which every copy of the
\* program knows; and the tokens the process issues are good (auth.py).
ASSUME ProductionAuthenticates ==
    \A e \in {d \in AuthEnvironments : Production(d) /\ Accepted(d)} :
        /\ \A c \in Credentials : Admits(e, c) =>
             c.sub /\ c.exp # "past" /\ c.key \in {"own", "service", "issuer"}
        /\ Admits(e, create_token(e))

\* More than one replica is never accepted by this build (scaling.py), with whatever
\* store it declares.
ASSUME OneReplica ==
    \A n \in {"unset", "junk", "zero", "one", "many"}, s \in {"unset", "process", "external", "junk"},
       url \in BOOLEAN :
        LET e == [Base EXCEPT !.CUSTOS_REPLICA_COUNT = n, !.CUSTOS_RATE_LIMIT_STORE = s,
                              !.DATABASE_URL = url]
        IN  Accepted(e) <=> n \in {"unset", "one"} /\ s \in {"unset", "process"}

\* A process that keeps bodies can be told to erase them, and one that keeps none has
\* no credential to do so (content_retention.py).
ASSUME KeptIsErasable ==
    \A mode \in {"unset", "off", "store", "junk"}, dir \in {"unset", "missing", "directory"},
       token \in BOOLEAN :
        LET e == [Base EXCEPT !.CUSTOS_CONTENT_RETENTION = mode, !.CUSTOS_CONTENT_STORE_DIR = dir,
                              !.CUSTOS_RETENTION_ADMIN_TOKEN = token]
        IN  Accepted(e) => (Deployed(e).retain <=> token)

----------------------------------------------------------------------------

S1 == [text |-> "s1"]
S2 == [text |-> "s2"]

CommandWords(s) ==
    {[kind |-> "flag", name |-> "token", value |-> Absent],
     [kind |-> "flag", name |-> "verbose", value |-> Absent],
     [kind |-> "assign", name |-> "key", value |-> s],
     [kind |-> "url", name |-> "host", value |-> s],
     [kind |-> "word", name |-> "none", value |-> s]}

Announces(w) == w.kind = "flag" /\ SecretFlag(w)

Commands(s) == UNION {[1..n -> CommandWords(s)] : n \in 0..3}

\* A secret stays readable in a recorded command line only as a word of its own that
\* no secret flag announces; of two secret flags in a row the second counts as the
\* value of the first (redact_command).
ASSUME CommandIsRedacted ==
    \A c \in Commands(S1) : \A i \in DOMAIN c :
        redact_command(c)[i].value = S1 =>
            /\ c[i].kind = "word"
            /\ i > 1 /\ Announces(c[i - 1]) => i > 2 /\ Announces(c[i - 2])

Deployment(tools, s) ==
    [id |-> [text |-> "d"], commit |-> Absent, command |-> <<>>,
     endpoint |-> <<[kind |-> "url", name |-> "host", value |-> s],
                    [kind |-> "assign", name |-> "token", value |-> s]>>,
     tools |-> tools, credential |-> s,
     config |-> [object |-> (<<"db", "password">> :> s @@ <<"db", "plain">> :> S2)]]

Descriptors ==
    {[name |-> n, inputSchema |-> a, input_schema |-> b, rest |-> "r"] :
        n \in 1..2, <<a, b>> \in {<<"x", "none">>, <<"none", "x">>, <<"y", "none">>}}

Lists == {l \in Descriptors \X Descriptors : l[1].name # l[2].name}

\* A changed schema or a rotated secret moves the digest of a binding though every
\* name stays; the order of the tools and the spelling of a field do not.
ASSUME BindingDigestIsExact ==
    \A l, m \in Lists, s, t \in {S1, S2} :
        payload_digest(build_payload(Deployment([list |-> l], s)))
            = payload_digest(build_payload(Deployment([list |-> m], t)))
        <=> s = t /\ {_descriptor(d) : d \in ToSet(l)} = {_descriptor(d) : d \in ToSet(m)}

\* Without tools the payload has no field for them.
ASSUME NoToolsNoDigest ==
    DOMAIN build_payload(Deployment(Absent, S1)) =
        {"deployment_id", "upstream_endpoint", "credential_binding", "config"}
============================================================================
