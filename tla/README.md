# CUSTOS-CORE: specification and verification

CUSTOS-CORE decides whether a request or a tool call may go ahead, records every
decision in a hash chain, keeps the decided content when asked to, and lets a third
party check both later.  This directory holds TLA+ modules of that program, the
instances TLC checks, and proofs TLAPS checks.  `PROJECT.json` maps every definition
to the lines it models and lists the runs, the mutants that show each property can
fail, the findings, the hazards and the theorems.

Paths below are relative to `src/`.

## 1. The system

| part | state | operations | shares or calls |
|---|---|---|---|
| audit chain (`custos/audit.py`) | rows in SQLite or PostgreSQL; each chain object's copy | open, `record`, `append_reconciliation`, `verify` | the table is shared by processes |
| retention (`custos/retention.py`) | bodies and purge rows in SQLite | `record_decision`, `put`, `put_legacy`, `purge`, `reconcile` | writes to the audit chain, in no common transaction |
| restore drill (`scripts/drills/phase11_export_backup.py`) | copies of both stores | backup, restore of one or both | audit chain, retention |
| MCP proxy and adapter (`custos/mcp_proxy.py`, `custos/mcp_gate_adapter.py`) | breaker, waiting calls, a thread pool | `call_tool`, timeout, reconcile | the action gate, the chain, the upstream tool |
| custody (`custos/custody.py`) | epochs and hashes in memory, a queue, files outside | head anchors, policy commits, `verify_custody` | its loop thread and the gate's threads |
| action gate (`custos/action_gate.py`) | tool allowlist, last anchored digest, the cached digest it cites; a memo in the engine | `evaluate_action`, `record_reconciliation`, `register_tools` | chain, retention, custody, tenants |
| policy engines (`custos/policy_engine.py`, `opa_engine.py`, `hybrid_engine.py`), citation, replay, diff | rules; an OPA server outside | `evaluate`, `add_rule`, `engine_policy_digest`, `replay_by_hash`, `diff` | tenants, gate, service |
| snapshots (`custos/snapshot.py`) | none | `generate`, `verify_snapshot` | reads the chain lock by lock |
| tenants (`custos/tenant.py`, `custos/policy_store.py`) | engines, rule lists, the table of rules | register, add rule, unregister, start | the table is shared by processes |
| HTTP service (`main.py`) | counters | start and stop, evaluate, evaluate_action, purge, replay, tenant administration | everything above |
| rate limiter (`custos/rate_limiter.py`) | two windows per key | `check_and_consume`, `retry_after_seconds` | called by the service and the firewall |
| execution firewall (`custos/firewall.py`, `custos/execution.py`) | one circuit per target | `enforce`, `forward` | chain, limiter, the target |
| authentication (`custos/auth.py`, `custos/jwks.py`) | key documents by url, time of the last attempt | `verify_token`, `get_key` | the sites of the issuers; the lock is held across a fetch |
| start-up checks (`custos/scaling.py`, `audit_persistence.py`, `content_retention.py`) and deployment binding | none | checks of the environment; one record per start | run by `lifespan` before anything is served |

**Concurrency.**  The service's handlers await nothing, so in one process a request is
one step of the event loop.  Threads come from three places: the anchor loop of
custody, the thread pool of the MCP adapter, and whoever embeds the firewall.  The
pool's threads cite policies without a lock while rules are added, and hold the lock of
a chain while they save, a lock the adapter's event loop waits for as well.
Processes meet in the databases: two writers of a chain, two workers on the content
store, two service processes on the policy table.

**What is hard.**  Memory loaded once and used for good; two stores without a common
transaction; a wait that ends while the work goes on; counters taken outside a lock;
state that a restart resets; the difference between production, where an unbound
record is refused, and every other environment.  The hazards are listed line by line
in `PROJECT.json`.

**What makes it correct.**  A chain has no fork and loses no acknowledged record;
verification accuses exactly the tampered; an erasure is final, attested, and
visible to reconciliation; a snapshot that verifies is genuine; no effect without a
recorded authorisation; every wait ends; anchors contradict tampering and nothing else;
acknowledged rules are stored and in force, loosen nothing, and are what a record cites; a
withdrawn key stops working and a new one starts to; production keeps its records over a
restart; every decision is recorded and counted; quotas and waits are right.

## 2. The modules

| module | models | notes |
|---|---|---|
| `RecordBinding` | layouts of a record, its preimage and hash, `verify` | a hash is the sequence of preimages it covers, so it is injective by construction |
| `AuditChain` | chain objects ("writers") and the shared store | one action for each of: open, check, save (with four outcomes), append in memory, crash |
| `Ledger` | the abstract specification: per key, a history that is only appended to | |
| `StoredChain` | what may become of the rows over the life of a store, and what `verify` says | edits of a field and deletions, before and after further records; a newer build's record |
| `Snapshot` | extends `StoredChain` with a process that exports its rows while it appends | one action per time the chain's lock is taken |
| `Retention` | the content store, one action per SQL statement or transaction | Python's `sqlite3` opens a transaction at the first write, so a SELECT before it stands alone |
| `RestoreDrill` | extends `Retention` with backups and restores | composes both stores |
| `McpProxy` | the event loop's calls and the pool's jobs | code between two awaits is one action, but for a denial that waits for the chain's lock: the loop is taken until it has it |
| `Custody` | the manager, its loop, the gate's threads, the sink's files, the re-walk | an action ends where a thread leaves the lock or calls a sink; anchors are kept by the epoch that names their file, which is what the re-walk sorts them by |
| `TenantPolicies` | processes and the policy table | the manager's lock makes an operation one action |
| `PolicyEngines` | the three engines, citations, replay and diff as operators | which contents a rule matches is given; OPA's answer is an argument |
| `Enforcement` | composes `TenantPolicies` and `PolicyEngines` with the gate's allowlists, its cached digest and the engines' memo | a citation is one action per read or write of what threads share: tools, rules, memo (read, filled, read again), cache (looked up, filled); `add_rule` is two |
| `Startup` | the checks of `lifespan` and the token checks, as predicates of an environment | a field per variable of the environment |
| `DeploymentBinding` | redaction, digests and payload of a binding, as operators | a digest keeps what it hashed under the name `sha256` |
| `ServedPath` | a process that starts, serves and stops: the endpoints for one tenant, with retention, gate and counters | a stop falls between requests, or inside one between the content store and the chain; composes `Startup`, `record_decision`, the chain's answer and the counters, each as the service sees it |
| `Clock`, `RateLimiter` | windows and waits | time in ticks; a history keeps, for each tick, how much was admitted before it |
| `JwksCache` | key documents, lookups and fetches | a fetch is two steps under the lock |
| `Admission` | composes `RateLimiter` and `JwksCache` | they share the clock only, so a behaviour follows one of them |
| `Firewall` | the pipeline and the circuits | an action ends where a circuit's lock is left or the target is called |
| `AuditChainProofs`, `RetentionProofs`, `McpProxyProofs`, `EnforcementProofs`, `ServedPathProofs`, `AdmissionProofs`, `FirewallProofs` | theorems about the module of that name and what it extends | section 4 |
| `EvidenceProofs` | theorems about `StoredChain`, `Snapshot` and `Custody` | section 4 |
| `MC...` | small instances | `MCChain` and `MCService` put modules that share no state into one run: the variable `followed` says which of them a behaviour follows |

Names follow the source.  An action that models one outcome of a function is named
for the outcome: `SaveFork` is the `ChainForkError` of `save`, `EmitFails` a sink's
failure in `_emit`.  Definitions named `X_Y` with a comment "Variant" are mutated
forms of `X`; no specification uses them.

What is abstracted: contents, digests and tenants are model values; a hash keeps what
it hashed; which contents a rule matches is a constant, whether a request is valid and what an outside store,
sink or target answers is a choice; time is a tick or a flag where the code compares
two times.

## 3. What TLC checks

`tlc -config <cfg> <module>`; `PROJECT.json` has the module of each run.

| run (cfg) | instance | shows |
|---|---|---|
| evidence (`MCChain`), writers | two writers of one tenant, one of another; fresh, old and forked stores; crashes, refused and unacknowledged saves | linked rows, acknowledged records kept, a copy is a prefix of the store, `verify` is ok, a fork is refused exactly to a writer that is behind, and the store implements `Ledger` |
| evidence, rows | up to three rows of any layout, altered once, before, between or after the writes; one snapshot of any of three ranges beside appends | `verify` is exact; what it does not notice was cut off at the end; it does not accuse an unknown layout of tampering; a snapshot that verifies holds records as written |
| evidence, contents | three workers on one content, crashes, a refusing chain; or one worker, two contents, one backup, restores of either store | no body is lost without a trace, an attestation follows its deletion, one attestor; a green `reconcile` means both stores agree; unattested deletions are reported; with one worker purges are final |
| mcp_proxy (`MCMcpProxy`) | three calls on a gate of one thread that hangs; a store that fails, or a gate that raises and callers that give up | no effect without a recorded ALLOW, late allows are reconciled, one probe, and a probe that hangs gives its slot back |
| mcp_stuck (`MCMcpStuck`) | three calls on a gate that raises | **violated**: a probe that raises keeps its slot, and all calls are denied from then on |
| mcp_save_hangs (`MCMcpSaveHangs`) | two calls, a save that does not return | **violated**: a denial waits on the event loop for the chain's lock, and no call ends any more |
| custody (`MCCustody`) | one gate thread, the loop, two policy sets or none, failing sinks, a restart, fair loop | an untouched store of heads alone is not contradicted before a restart, every tampered copy is, queued commits land |
| custody_rewrite (`MCCustodyRewrite`) | sinks that work | **violated**: a head anchor overwrites the file of a policy commit |
| enforcement (`MCEnforcement`) | one process, any tenant name, restarts, a failing store; three engines, OPA pinned or not; under the regex engine two threads that cite read by read | acknowledged rules are stored and in force; memory and table part only over a failed save or a duplicate name; an added rule never loosens a decision; unless a rule is added during a citation, the digest the gate would cite is that of the policy in force |
| citation_race (`MCCitationRace`) | one citing thread, the regex engine | **violated**: a digest computed before a rule was added is kept after the memo was cleared |
| stale_citation (`MCStaleCitation`) | one citing thread, three engines | **violated**: under OPA and hybrid engines a rule is added and the digest of before is cited |
| service (`MCService`), requests | every endpoint in every environment the checks accept, a full or failing store, a rule that does not compile, two starts, stops inside a request | answers are recorded; stored bodies are named but for a refused or cut-off record; production keeps its records; a process asked to be bound serves with its binding written |
| service, admission | windows of 2 and 4 ticks over 7 ticks; two sites, one rotating its key twice, slow and failing fetches | at most twice the quota in any stretch; `Retry-After` mirrors the check and clears the refusal; accepted tokens are vouched for, new keys are seen |
| service, firewall | three threads, one target, threshold 2, a failing store | an open circuit stops new requests; no result without a record of the effect |
| slo_sum (`MCSumCloses`) | the requests alone, production | **violated**: a denial of the gate is counted as denied and not as a request |
| unattested_purge (`MCUnattestedPurge`) | the same | **violated**: the body is erased and the attestation refused |

Operators are checked against what they promise by the assumptions of two instances,
which TLC evaluates at the start of a run.  `MCEnforcement`: `_luhn_valid` is the Luhn
sum and catches every single wrong digit; no engine is more lenient than the rules it
holds; without an answer the OPA engine denies and the hybrid one answers as the rules
do; a citation determines the action.  `MCServedPath`:
production authenticates every caller, with no token under the default secret; one
replica; what is kept can be erased; a recorded command line shows no announced secret;
the digest of a binding moves with a schema or a secret and not with the order of the
tools.

The seven violated runs each check one sentence of the repository, quoted in
`PROJECT.json` under `findings`.  Where the code keeps a sentence under a condition only,
the property of the passing run is the sentence with the condition added: `CitationIsExact`
beside `CitationIsCurrent` and `RulesDigestIsExact`, `HungProbeReleases` beside
`ProbeReleases`, `OneProbe` beside `ExactlyOneProbe`, `PurgeIsFinal` beside `PurgeHolds`.

What may go wrong is part of the state, not of the configuration, so that one run
covers every case: `McpProxy` fixes a set of faults, `ServedPath` a deployment and
`Enforcement` an engine at the start of a behaviour, and history variables (`behind`,
`lost`, `raced`) keep which operations a failure touched.  A property then says precisely
whom a failure may affect.

### Conditions, and what lies outside them

A property carries a condition where the code does not keep it otherwise.  The
condition is in the property's definition; that of `AuditChain` is in its theorems
(`AllScoped`) and its instance:

| property | condition | without it |
|---|---|---|
| all of `AuditChain` that speak of chains | every writer is scoped to a tenant | the unique index is per tenant: two unscoped chains put rows of two tenants behind one record |
| `PurgeIsFinal`, `UnattestedIsReported` | one worker, no legacy content | a worker that looked before the purge inserts the body again (below); `put_legacy` does not look for a purge at all; a decision recorded with the form purged-v1 counts as an attestation |
| `LateAllowIsReconciled` | the store accepts records | declared in `mcp_proxy.py`, rule 5 |
| `OneProbe` | the timeout is shorter than the cooldown, as by default; `CUSTOS_MCP_GATE_TIMEOUT` may set another | the timeout of an older call gives the probe's slot away (below) |
| `HungProbeReleases` | no gate call raises, no caller is cancelled, saves return | the runs mcp_stuck and mcp_save_hangs |
| `HonestIsNeverContradicted`, `TamperingShows` | no policy commits, no restart | the run custody_rewrite; the epochs of a new manager start at 1 again (below) |
| `EveryCommitLands` | queued after the last restart | the queue is in memory |
| `AckedRuleIsStored`, `AckedRuleIsInForce`, `PartOnlyOverFailures` | one process | each save replaces the rows with that process's list |
| `AckedRuleIsInForce` | the tenant was registered | the default tenant's engine gets the rule |
| `CitationIsExact` | no rule was added to the tenant while a thread cited it; the engine has a `rules_digest`, or its OPA policy is not pinned and it cites nothing | the runs citation_race and stale_citation |
| `RulesOnlyTighten` | the decision with the same answer of OPA | OPA's policy may change at any time; the hybrid engine sends OPA the result of the rules, so a policy that reads it may answer differently once a rule is added |
| `SnapshotIsGenuine` | the document says the chain is valid | a snapshot of a tampered chain says so and holds the tampered rows; one during which a record was appended may be rejected though untouched, because `latest_hash` is read twice (where `snapshot.py:47` says "Thread-safe") |
| `AcceptedIsVouchedFor`, `NewKeyIsSeen` | the last attempt did not fail within the backoff; the ttl and one fetch have passed | the document of before stays in force, for as long as every attempt fails |
| the same | a fetch ends within the backoff (`Slow <= Backoff`) | the 5 s of `httpx` bound each operation of a fetch and not the whole, so a site that answers in drips may hold one, and the lock, for longer |
| `NewKeyIsSeen` | the key's identifier is not the service's own | `verify_rs256_token` tries such a token against the service's key and no other |
| `VerifyIsExact` | versions below 1 count as one layout; one process at a time writes | the preimage has a version marker from version 1 on, so a row of layout 0 does not bind the number in its column; writers that meet are in `AuditChain` |
| `ProductionRemembers` | `CUSTOS_ENV` is production | development may keep its chain in memory |
| `AnswerIsRecorded` | every decision of `/v1/evaluate`, every allow of `/v1/evaluate_action`, every purge answered with 200 | a denial of the gate is answered with 200 though its record was refused (below) |
| `StoredIsNamed` | no record of the content was refused, cut off by a stop, or gone with a process that had no store | the body is stored first; `retention.py` logs it as `body_without_record` |
| `EffectIsRecorded` | the caller got a result | the target is reached and the record refused, and the caller gets an exception (below) |

### Where text and code part without a run

Met while modelling, each visible in the module named:

- `retention.py:145`: `put` looks for the purge before its transaction begins, so of two
  workers one can insert a body the other has just purged.  `PurgeHolds` without the
  condition on workers fails in `Retention`.
- `mcp_proxy.py:304`, "Half-open admits exactly one probe": with a timeout that outlasts
  the cooldown an older call clears the slot at its own timeout (line 292), and a second
  probe is admitted beside the first.  The defaults are 2 and 5 s.
- `custody.py:441`: two threads that both found the policy set changed build commits of
  one epoch, and the later file replaces the earlier, the same claim as in the run
  custody_rewrite.
- `custody.py:352`: epochs are kept in memory, so a restarted manager anchors under epoch
  1 again and replaces the files of the first, where `docs/design/chain-head-custody.md:83`
  says the epoch "never resets".
- `main.py:544`: where bound evidence is required, a denial of the gate without a trace is
  answered with 200 and is in no chain; an allow becomes a denial, as it should.
- `firewall.py:208`: the firewall binds nothing, so where bound evidence is required its
  record is refused after the target was reached.

- `jwks.py:180`: "TTL expiry or an unknown-kid lookup triggers a refetch".  `get_key`
  refetches on expiry only (`NeedsFetch`), so a new key waits for the ttl; and while a
  site is away its withdrawn keys go on working, where the docstring says "a JWKS that
  disappears should deny its tokens".
- `policy_store.py:226`: the rules have a store of their own.  A production process with
  `AUDIT_DB_PATH` alone passes every check, and acknowledged rules end with it
  (`rules_kept` in `Startup`).
- `hybrid_engine.py` takes any true value of OPA's `allow` for an allow, `opa_engine.py`
  the literal `True` only (`OpaAnswers`).
- `deployment_binding.py:87`: "a reordering of the same tools does not" move the digest.
  Tools are sorted by name alone, so the order of two tools of one name does
  (`tool_descriptor_digest`).
- `snapshot_hash` is a digest without a key: who can alter the document can compute it
  again.  `Snapshot` speaks of untouched documents.
- A citation is taken after the decision it is recorded with, so a rule added between
  the two by another thread is cited by a decision that did not consult it.
- `anchor_due` has no rule for a tail shorter than its threshold, but for an argument
  `force` that no caller sets; a half-open circuit of
  the firewall lets every waiting thread through; the limiter's clock may be set back; a
  tenant whose rows could not be deleted comes back with the next start.

### Bounds, and why they are enough

*evidence.*  Two writers of one tenant are what a fork needs, and the third shows that
tenants do not meet.  Chains of two rows contain a legacy row or a new record and one
after it, and leave a second writer one or two rows behind.  The altered table has three
rows, so that one of them has a row on either side, and one alteration; an alteration
may come before, between or after the writes, which is where a lost end and a row in its
place meet.  That more alterations change nothing is what `VerdictsAreExact` and
`OnlyLostEndsVerify` prove.  Races over content need one content and several workers;
reconciliation needs two contents, so that a record of one could be taken for the other's.

*mcp_proxy.*  The gate has one thread, so that a probe can queue behind a hung job and
time out without having run.  Three calls, because a late answer to a call admitted before
the breaker opened must meet a call that is the probe and one that asks beside it.

*custody.*  Every record is anchored (`AnchorN` = 1), so two records make two linked
anchors.  The caps of `Custody` are large enough that none of them stops a drain or an
anchor that the fairness asks for.

*enforcement.*  Two rules, each with its own action, and four policies are what an order
of rules, an engine and a pin need.  The state constraint `MCBounds` divides the work:
under the regex engine, the only one with a memo, two threads cite a tenant that has one
rule to gain; under the others nobody cites and the lists have two rules.  What a citation
does under OPA is in the run stale_citation, and `CitationsAreExact` is proved without the
constraint.

*service.*  Two starts show what a restart keeps, and three requests a record, an erasure
and what follows.  A key document lives two ticks, a backoff and a fetch take one, and
seven ticks hold a publication, its expiry and the refresh, and a withdrawal after it; only
one of the two sites rotates its key, because documents of different urls meet in the lock
alone.  Three threads of the firewall let two fail and a third be late, on the one target
whose circuit a check and a request may fall on both sides of.

Epochs, gaps, queues, requests, failures and restarts are capped in the guards by
constants named `Max...`.  Where such a cap ends a behaviour early `CHECK_DEADLOCK` is off
(evidence, service and the two runs of `MCServedPath`), because a record, a request or a
tick that the bound refuses is no deadlock of the program.  Symmetry is used for the
contents of the service and the threads of the gate, where no liveness is checked.

### Fairness

`McpProxy!FairSpec`: the clock moves (`CooldownLapses`); a timer that is due fires in one
of the rounds of the event loop, though the loop may be taken in between (strong fairness
of `GateTimeout`); a hook that waits for the chain's lock goes on when it can have it
(`Reconciled`); and a save returns (`SaveReturns`), unless the faults of the behaviour
include one that hangs.  A loop that waits for the lock runs no timer: this is why the
last of these is needed, and the run mcp_save_hangs shows what happens without it.  Of a
gate job that does not hold the lock nothing is assumed: it may hang, and keep its thread.
`Custody!FairSpec`: the loop is a thread that is scheduled; a drain that began goes
on; a sink that is tried again and again accepts at last (strong fairness of `Emit`
and `AppendCommit`).  The gate is not assumed to be called again.

## 4. What is proved

`tlapm <module>.tla` checks a module's proofs.  A theorem holds for every value of the
constants that the named assumptions of the modules admit: any number of writers,
workers, calls, threads, sites, tenants, rules and rows, any threshold, quota or window.
The bounds `Max...` are constants too, so no theorem depends on their size.

| module | theorem | statement |
|---|---|---|
| `AuditChainProofs` | `TypeCorrect` | `Spec => []TypeOK` |
| | `MemoryNeverDiverges` | with every writer scoped, `[]MemoryIsStorePrefix` |
| | `StoreStaysLinked` | with every writer scoped, `[](StoreIsLinked /\ NoForkWhileUp)` |
| | `AckedStaysStored` | with every writer scoped, `[]AckedIsStored` |
| | `RunningAlwaysVerifies` | with every writer scoped, `[]RunningChainsVerify` |
| | `ForksAreReportedRightly` | with every writer scoped, the action property `ForkIffBehind` |
| | `RefinesLedger` | with every writer scoped, `Spec => ImplementsLedger` |
| `EvidenceProofs` | `VerdictsAreExact` | `SnapshotSpec => []VerifyIsExact` |
| | `OnlyLostEndsVerify`, `NoTableIsFalselyAccused` | `[]` of `OnlyEndsGoUnnoticed`, `NoFalseAccusation` |
| | `SnapshotsAreGenuine` | `[]SnapshotIsGenuine` |
| | `CustodyIsTyped` | `Custody!Spec => []TypeOK` |
| | `HonestStoresAreNeverContradicted`, `TamperedStoresAreContradicted` | `Custody!Spec => []` of `HonestIsNeverContradicted`, `TamperingShows` |
| `RetentionProofs` | `RetentionTypeCorrect` | `DrillSpec => []RetentionTypeOK` |
| | `PurgesHaveOneAttestor`, `StoredFormsAreNotLost`, `AttestationsFollowDeletions`, `PurgedStaysPurged`, `UnattestedPurgesAreReported`, `GreenReportsAgree` | `[]` of `OneAttestor`, `NoBodyMissing`, `AttestationFollowsDeletion`, `PurgeIsFinal`, `UnattestedIsReported`, `GreenMeansAgreement` |
| `McpProxyProofs` | `ProxyTypeCorrect` | `Spec => []TypeOK` |
| | `EffectsAreAuthorised`, `LateAllowsAreReconciled`, `ProbeIsAlone` | `[]` of `EffectIsAuthorised`, `LateAllowIsReconciled`, `OneProbe` |
| `EnforcementProofs` | `TenantsTypeCorrect` | `EnforcementSpec => []TypeOK` |
| | `AckedRulesAreStored`, `ListsPartOnlyOverFailures`, `AckedRulesAreInForce`, `CitationsAreExact` | `[]` of `AckedRuleIsStored`, `PartOnlyOverFailures`, `AckedRuleIsInForce`, `CitationIsExact` |
| | `RulesTighten` | the action property `RulesOnlyTighten` |
| `ServedPathProofs` | `AnswersAreRecorded`, `StoredBodiesAreNamed`, `ProductionKeepsItsRecords`, `BoundBeforeServing` | `Spec => []` of `AnswerIsRecorded`, `StoredIsNamed`, `ProductionRemembers`, `AskedIsBound` |
| `AdmissionProofs` | `RetryAfterMirrorsTheCheck`, `NoStretchExceedsTwoQuotas`, `AcceptedTokensAreVouchedFor`, `NewKeysAreSeen` | `AdmissionSpec => []` of `RetryAfterIsRight`, `AtMostTwiceTheQuota`, `AcceptedIsVouchedFor`, `NewKeyIsSeen` |
| `FirewallProofs` | `OpenCircuitsStopRequests`, `EffectsAreRecorded` | `FirewallSpec => []` of `OpenStopsRequests`, `EffectIsRecorded` |

A fair specification implies the one without fairness, so the theorems hold of
`McpProxy!FairSpec` and `Custody!FairSpec` as well.

### Assumptions

They stand in the modules that declare the constants, and TLC evaluates them.  Beyond
the types of constants: writers, workers, calls, processes and threads are finitely
many, and there is a thread; a legacy store of `AuditChain` is linked or forked; a
version is an integer (`binding_version INTEGER`); quotas and token counts are at least 1
(`TenantRegisterRequest` has `ge=1`), an hour is not shorter than a minute, and the mark
of a key without a quota is no quota state; a fetch
ends within the backoff and the backoff within the ttl, as the defaults of `jwks.py`
have it; the built-in rules are a sequence.  `AllScoped` is a hypothesis of the
theorems about chains: it is how `TenantManager.register` opens them.

### Arguments

Few of the properties are inductive alone.  Each module begins with the invariant
that is, in named parts.

*`AuditChain`.*  `IInv` is `TypeOK` with `InFlight` (a writer that saves has a record
in hand) and `Chained` (that record is sealed onto the end of the writer's copy, and
once saved it is the row right after the copy; a running writer's copy is a prefix of
an unforked, linked store).  The step that matters is the save: since the copy is a
prefix of a linked chain, the row after a copy that is behind claims the very
predecessor the writer names; so an unclaimed predecessor means the copy is the whole
store, and the new row links to the last one.  `verify` follows from the prefix, the
refinement from the row's hash being the history extended by one.  The other half of
`ForkIffBehind`, that an up-to-date writer is never refused, needs the length of every
hash of a linked chain to be its row's position; this is an induction along the chain,
done by looking at the least position where it fails (`LinkedLengths`).

*`StoredChain`, `Snapshot`.*  `TInv`: a record was sealed onto the hash of a row its
writer knew (`WrittenIsSealed`), and every hash a row holds, now or as its predecessor, was
made by a writer (`HashesAreWritten`); no alteration makes a hash, and none needs to keep the
order or the number of the rows.  If `verify` says ok, the walk gives each row the hash of
its content on that of the row before, and a writer made that hash; since hashes are
injective the writer's record has the same predecessor and the same preimage.
`PreimageBinds` says what that means: two records have one preimage exactly when they
agree in all that their layout binds, conditional keys included.  The other direction
copies the writer's seal.  Nothing here speaks of the end of the table, and so a writer may
go on over a table that lost its end and still be verified; `OnlyEndsGoUnnoticed` says that
this is all: the hash of a row holds those of all its predecessors, so each of them stands
before it in a table that verifies.  `SInv` adds the state of `generate`: the collected
records are still held, are genuine once the chain was found valid, and the signed hash is
the latest one or a strict prefix of it.

*`Custody`.*  `KInv` is `TypeOK` with `Locals` (what a thread took from the queue is a
commit of some epoch) and, while there is no policy set and no restart, `NoCommits` and
`Heads`.  `Heads` is the point: the files are those of the epochs the manager has
counted and perhaps the next one, which some sink took before another refused; each
holds the anchor of a prefix of the chain and links to the file before it; the manager
holds what the last counted file says.  An attempt after a refusal builds the same epoch
again, on the same predecessor, so it replaces that one file by another that fits.  For
an untouched store every file then agrees with the re-walk, step by step.  For a copy
that is too short or differs before the anchored length, the file of the manager's own
epoch is the witness: it names a length the copy has not, or a head that is not the
copy's.  The lemma behind it (`TamperedWalk`) is about any copy, of records of any kind.

*`Retention`, `RestoreDrill`.*  `Followed`: without a restore, the chain does not run
ahead of the content store; `Alone`: where one worker serves, what it read before a
write is still so; `OneAttestor` and `Attestations` complete `IInv`.

*`McpProxy`.*  `Told` ties what is in the chain of a call to where the call and its job
are, also while the denial waits for the lock; `Counted` bounds the count of timeouts by
the calls still waiting; `Half` says that from the opening of the breaker to the end of its
probe nobody but the probe is admitted, which is where the timeout's being shorter than the
cooldown is used.

*`Enforcement`.*  `PInv`: with one process an acknowledged rule is also in the list the
process will save next, which is why the next save keeps it.  `GInv` is about what threads
leave behind for each other: what is cached is the digest its key says (`CacheIsOfItsKey`);
a memo is that of the rules, unless a rule was added while a thread cited the tenant
(`MemoIsOfItsRules`, the set `raced`); and at each point of a citation its copies of tools,
rules and digest fit together under the same exception (`CitationHolds`).  A thread that
outlives its tenant carries the deleted engine with it (`own`), memo and all, and can only
fill the cache under that engine's key.  `RulesTighten` rests on lemmas about the engines:
the most severe of more rules is no less severe, and neither OPA nor the hybrid's order of
asking undoes that.

*`ServedPath`.*  The properties are inductive together, with `Typed` and `Checked`
(production has a durable store).

*`RateLimiter`.*  `RetryAfterIsRight` needs that a window never starts in the future.
`AtMostTwiceTheQuota` needs `WInv`: what was admitted before a tick never shrinks
(`History`), and for each of the three windows (`Window`) the counter is what was
admitted since the window started, nothing was admitted after the window elapsed unless
it started again, a stretch that reaches back from the window's start by its length holds
at most one quota, and a stretch anywhere at most two.  A window that starts again makes
the old window the one a stretch reaches back into; a stretch around the start is split
there and costs one quota on either side.  The histories count what was admitted before
each tick, so that a stretch is a difference of two numbers and not a sum over ticks.

*`JwksCache`.*  `Fetching`, `Held` and `Settled` carry ages: a document
differs from its site only in keys that moved since the attempt that fetched it began,
and an attempt that is over and did not fail has left its document.

*`Firewall`.*  `OpenBudget`: while a circuit is open, the requests sent late and the
threads still about to send are together fewer than the threads.  The failure that
opens a circuit starts the count at zero and its own thread is not about to send; while
it is open nobody passes the check; a late request moves one thread from one side of
the sum to the other.

### Only model-checked

Every invariant and action property of the passing runs is stated by a theorem.  Left
to TLC are:

- Liveness under fairness, which the prover does not reach: `HungProbeReleases`,
  `EveryCommitLands`.
- The seven runs that show a violation.
- What `MCEnforcement` and `MCServedPath` state as assumptions about operators
  (`_luhn_valid`, the digests of bindings, redaction).

## 5. Not modelled

The regular expressions of rules (what a pattern matches is a constant), signatures and
the encoding of keys, the TSA receipt, JSON, the lines of the MCP stdio transport, the
shapes and size limits of requests, tracing, logging, packs, benchmarks and document
checks.  `PROJECT.json` gives the reason for each.

## 6. Plan

1. Done: chain, stored rows, snapshots, retention, restores, proxy, custody, tenants,
   engines and citations, service with start and stop, start-up checks, authentication
   and key cache, deployment binding, limiter, firewall.
2. Done: a theorem for every invariant and action property of the passing runs
   (section 4).
3. Model next: a composition of gate, retention and chain in which the service's step
   and the pool's threads meet; two service processes over one policy table.
