------------------------- MODULE DeploymentBinding -------------------------
(***************************************************************************)
(* The payload of a deployment binding: custos/deployment_binding.py.      *)
(*                                                                         *)
(* A digest is the record [sha256 |-> what is hashed], so equal digests    *)
(* are equal inputs and what is under sha256 is not readable.  A value     *)
(* that is None or empty is Absent, any other is a record.  Of a name only *)
(* the hint it contains is kept.                                           *)
(***************************************************************************)
EXTENDS Naturals, Sequences, SequencesExt

Absent == [none |-> TRUE]

credential_fingerprint(secret) == IF secret = Absent THEN Absent ELSE [sha256 |-> secret]

----------------------------------------------------------------------------
(* What the upstream can be asked to do.  A descriptor has its schema under *)
(* one of two spellings; rest is all its other fields.                      *)

_descriptor(d) ==
    IF d.inputSchema # "none" THEN d
    ELSE [d EXCEPT !.inputSchema = d.input_schema, !.input_schema = "none"]

tool_list_digest(names) == [sha256 |-> ToSet(names)]

\* A stable sort by name: the descriptors of each name, in the order given.
tool_descriptor_digest(tools) ==
    LET normalised == [i \in DOMAIN tools |-> _descriptor(tools[i])]
    IN  [sha256 |-> [n \in {d.name : d \in ToSet(normalised)} |->
                        SelectSeq(normalised, LAMBDA d : d.name = n)]]

----------------------------------------------------------------------------
(* Redaction.  A configuration maps its paths to values; a path is a        *)
(* sequence of names and its last name tells whether the value is secret.   *)

_SECRET_HINTS == {"secret", "token", "password", "passwd", "credential", "jwt", "api_key",
                  "apikey", "database_url", "dsn", "private_key"}

_looks_secret(name) == name \in _SECRET_HINTS

_redact_secrets(config) ==
    [p \in DOMAIN config |->
        IF _looks_secret(Last(p)) THEN credential_fingerprint(config[p]) ELSE config[p]]

config_digest(config) ==
    [config_digest |-> [sha256 |-> _redact_secrets(config)],
     secret_config_fields |-> {p \in DOMAIN config : _looks_secret(Last(p))},
     config_keys |-> {Head(p) : p \in DOMAIN config}]

\* A word of a command line or an endpoint: [kind, name, value], of kind "flag" (a
\* flag whose value, if any, is the next word), "assign" (name=value), "url" (the
\* value is its user info) or "word".
_redact_url_userinfo(w) ==
    IF w.kind = "url" THEN [w EXCEPT !.value = credential_fingerprint(@)] ELSE w

\* The flags of a command line have hints of their own.
_SECRET_FLAG == {"secret", "token", "key", "password", "passwd", "credential", "auth"}

SecretFlag(w) == w.kind \in {"flag", "assign"} /\ w.name \in _SECRET_FLAG

\* The words after which the scan expects a value: secret flags that stand alone and
\* are not themselves taken for a value.
Expecting(words) ==
    LET expects[i \in 0..Len(words)] ==
            i > 0 /\ words[i].kind = "flag" /\ SecretFlag(words[i]) /\ ~expects[i - 1]
    IN  expects

redact_command(words) ==
    [i \in DOMAIN words |->
        IF Expecting(words)[i - 1]
        THEN [kind |-> "value", name |-> "none", value |-> [sha256 |-> words[i]]]
        ELSE IF SecretFlag(words[i]) THEN [words[i] EXCEPT !.value = credential_fingerprint(@)]
        ELSE _redact_url_userinfo(words[i])]

\* An endpoint is its url and its query parameters.
redact_endpoint(words) ==
    [i \in DOMAIN words |->
        IF words[i].kind = "assign" /\ _looks_secret(words[i].name)
        THEN [words[i] EXCEPT !.value = credential_fingerprint(@)]
        ELSE _redact_url_userinfo(words[i])]

----------------------------------------------------------------------------
(* The payload.                                                             *)

credential_binding(runtime, upstream, configured) ==
    IF runtime = Absent THEN Absent
    ELSE [fingerprint |-> credential_fingerprint(runtime), upstream |-> upstream,
          configured_matches |-> IF configured = Absent THEN "none"
                                 ELSE IF configured = runtime THEN "yes" ELSE "no"]

\* A field without a value is left out.
canonical_payload(fields) == [f \in {g \in DOMAIN fields : fields[g] # Absent} |-> fields[f]]

Words(ws) == IF ws = <<>> THEN Absent ELSE [words |-> ws]

\* A deployment d: [id, commit, command, endpoint, tools, credential, config], the last
\* three as the environment gives them, tools and config possibly Absent.
build_payload(d) ==
    LET command == redact_command(d.command)
        endpoint == redact_endpoint(d.endpoint)
        tools == d.tools.list
        names == [i \in DOMAIN tools |-> _descriptor(tools[i]).name]
    IN  canonical_payload(
            [deployment_id |-> d.id, build_commit |-> d.commit,
             upstream_command |-> Words(command), upstream_endpoint |-> Words(endpoint),
             tool_list_digest |-> IF d.tools = Absent THEN Absent ELSE tool_list_digest(names),
             tool_descriptor_digest |->
                 IF d.tools = Absent THEN Absent ELSE tool_descriptor_digest(tools),
             tool_count |-> IF d.tools = Absent THEN Absent ELSE [count |-> Len(tools)],
             credential_binding |-> credential_binding(
                 d.credential, Words(IF endpoint # <<>> THEN endpoint ELSE command), Absent),
             config |-> IF d.config = Absent THEN Absent ELSE config_digest(d.config.object)])

payload_digest(payload) == [sha256 |-> payload]
============================================================================
