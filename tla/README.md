# Verification of Decision Core

Decision Core decides whether an agent's action may go ahead, records why, and lets people
write the rules it decides by. This directory models the parts whose correctness is a matter
of order, interleaving, failure and of two pieces of code that must agree: TLA+ modules
translated from the TypeScript under `src/src`, TLC configurations that check them on small
instances, and proofs checked by TLAPS.

Everything named below is in this directory; paths of the code are relative to the repository
(`src/src/decisions/decision-runner.ts` is the runner).

## 1. The system

| Component | State it keeps | Operations | What makes it correct |
|---|---|---|---|
| Decision runner (`decisions/`) | per call: evidence chain, verdict; shared: the decision log | `execute`, `finalize` | nothing runs unless every stage let it pass; the evidence says why a call ended as it did; one log entry per recorded verdict |
| Trust patterns, surface resolver (`trust/`) | where a pattern run is | `executePattern` and its four patterns | ends with an autonomy status for any replies of the models; missing roles fail closed |
| Runtime route resolver (`routing/runtime`) | the loaded surface maps | `resolve` | a route class gives the calls it allows |
| Approvals (`approval/`, both repositories) | approval requests | `resolveApprovalRequest`, `updateStatus`, break-glass | separation of duties; a resolution is overwritten only in a race |
| Clauses (`knowledge/clauses`) | clause status, approval log | create, approve, activate, reject, supersede | no revival but in a race |
| Rule compiler and rule sets (`knowledge/compiler`) | versioned rule sets, active flags, the rules of each set | compile, `createRuleSet`, `activateRuleSet` | only approved clauses are compiled; a set in force judges by the rules it was created with |
| Enforcement flow (`knowledge/enforcement`) | none | `enforceActive` | the decision is what the active rules say |
| Model gateway (`core/`) | profiles, audit log | `call`, `callWithProfile` | provider policy holds for every provider contacted, all contacts are audited, calls settle |
| Policy rules and decision point (`policy/`) | the rule repository | `evaluate`, `arbitrate`, deny-unknown | deny wins; only an explicit allow when unknown actions are denied |
| Policy pack, commands and server (`surfaces/cli`, `packs/`) | the pack file, backups, the rules in memory | `serve --watch`, `rules`, `upgrade`, `rescan`, `rollback` | the server enforces the file; of a pack below `.decision-core` nothing is overwritten that cannot be restored; a command loses no rule |
| Policy author (`skills/policy-author`, `author`) | authoring sessions, the authored pack | propose, review, commit | a statement means in the pack what it means in English |
| Onboarding (`onboarding/`, `skills/onboarding`, `setup`, `init`, `enforce`) | a dozen generated files, a profile and a session in memory, backups | detect, draft, interview, generate, enforce | the pack is as strict as the documents made next to it; what is replaced in `.decision-core` is saved |
| Organisation server, identity (`identity/`, `surfaces/http`) | registry, access policy, auth bindings, mounts, tokens | `provision`, `provision --verify`, `serve` over an organisation | the token decides who is judged, logged and shown what |
| Evidence integrity, audit (`integrity/`, `skills/audit`) | hash chains of decisions and clauses | append, verify, replay, `runAudit` | what verifies was appended, in the fields that are hashed; a report misses nothing it read and can match |
| SDK and observe mode (`surfaces/sdk`, `observations`, `enforce`) | configuration, decision log | `evaluate`, observations, promotion | enforcement that was announced holds; the report covers what observing hid |
| Embedded cores (`quickStart`, `fromPolicyPack`, `createDecisionCore`) | rules and log, in memory or in SQLite; cache of results | seed, evaluate, explain, stop | a core denies what it was made to deny; its log bears out its cache, in its first record if the id was used once |
| Authoring, ingestion, linter, graph, optimizer, tribunal, conformance, adapters | tables and documents | see `PROJECT.json` | section 5 |

How they interact. A surface (HTTP, MCP, CLI, SDK) builds a `DecisionRunner` with its
collaborators and calls `execute`; the runner calls the quality gate, the policy decision point,
the route resolver, the enforcement flow, the decision's own code or the model gateway through a
trust pattern, and the decision log. The enforcement flow reads the active rule set, which the
compiler made of approved clauses. The policy decision point reads a repository that is seeded
from the pack file, which onboarding generates and separate processes rewrite. The audit reads
what all of them leave behind.

What is hard here:

- *Interleaving.* Everything is asynchronous code of one Node process: between two awaits a
  call runs alone, at an await anything else may. The in-memory repositories await resolved
  promises, which still lets callers that started together interleave step by step, and a host may
  supply repositories that really wait. Commands of the CLI are processes of their own and
  interleave at each file operation.
- *Stale reads.* Nearly every operation reads, awaits, and then writes what it concluded.
- *Failure half-way.* Collaborators reject, files are half-written, a server restarts.
- *Time.* Timeouts that race answers, approvals and break-glass windows that expire.
- *Things said twice.* Documents and packs, mounts and their verification, cache and log, the two
  interviews: the same decision is computed by different code, and the two must agree.

The 40 places where this bites are the `hazards` of `PROJECT.json`, each with the properties
about it; six have none, and say why.

## 2. Modules

| Module | Models | State and actions |
|---|---|---|
| `TrustPatterns` | `trust/decision-patterns` | pure transition functions: from a step and a model's reply to the next step or the autonomy status |
| `DecisionGate` | what the pipeline promises, without its stages | objections, cleared, verdict, ledger |
| `DecisionRunner` | `decision-runner.ts`, evidence recorder, route resolver | per call `phase` (the await it is at), evidence `chain`, verdict; one action per await: gate, policy, enforcement flow, inputs, pattern step, evaluate, log append, with every reply and every rejection |
| `Approvals` | `resolve-approval.ts`, break-glass, in-memory and SQLite repositories | requests, attempts at their awaits, a clock that each attempt reads twice (to check and to stamp), restarts |
| `ClauseLifecycle` | `clause-approval.service.ts` | clause status, approval log, one job per call |
| `RuleSets` | `compiled-rule-set.repository.ts` | sets in insertion order, the rules of each, creations and activations at their awaits |
| `CompiledRules` | compiler and rule evaluator | pure: control or clause text to expression, expression and context to pass, fail or error |
| `Knowledge` | the composition of the three above with compile and the enforcement flow | also the compilations and evaluations in flight |
| `ModelGateway` | `core/model-gateway.ts`, provider policy | a call is a stack of at most two profiles; selection, policy, dispatch, timeout, late answer, fallback, audit |
| `PolicyRules` | `policy-rule.entity.ts`, `arbitrate`, deny-unknown | pure: the verdict of a rule, of a set of rules |
| `PolicyServer` | pack file, `rules`, `upgrade`, `rescan`, `rollback`, `backup-utils.ts`, `serve --watch` | each command's file operations are steps, a process may be killed between them; the backup skips a pack that is not below `.decision-core` (`Owned`); the server starts, watches, reloads, stops |
| `PolicyAuthor` | `policy-author.service.ts`, the `author` command | sessions of candidates, the authored pack; a statement is the phrases it says and the tools it names, and one without a tool is about the actions without a dot (`Undotted`) |
| `AgentEnvironment` | `detect-agent-env.ts`, `tool-discovery.ts` | pure: markers found to harness, provider, tools, memory sources |
| `SetupProfile` | the draft of a profile, memory import, interview, defaults of a mode | pure |
| `SetupArtifacts` | `generate-artifacts.ts`, `rule-proposal.ts`, `init` | pure: a profile to documents, pack, scenarios, configuration, reports |
| `OnboardingService` | `skills/onboarding` | the session of the four phases; its answers to policies and to a profile |
| `Setup` | `setup`, `enforce`, `init`, the MCP setup tools; composes the four above | files, pack, configuration, backups, in `.decision-core` or the directory of `--output`; one command at a time, killed between any two writes |
| `AccessPolicy` | `access-policy-loader.ts` | pure: policy and roles to mounts, and mounts to what verification says |
| `OrgServer` | registry, provisioning, auth bindings, the HTTP server of an organisation | every file operation of a run is a step; server start, requests, reads |
| `HashChains` | both chain services, `verifyChain` | pure: a hash is what was hashed; a record's `label` stands for the fields outside of it (id, correlation id, tenant; effective date of a clause) |
| `ComplianceAudit` | `compliance-audit.service.ts` | pure: decisions, rules and chains to gaps and a summary; a rule has the tools it is applied to and those the audit's regular expression finds, if it is one |
| `AuditTrail` | the two above with the decision-log sink and the replay | chains, log and rules change between the awaits of an audit, which a malformed expression ends; a replay fails without its decision or its rule set |
| `CoreConfig` | `config-loader.ts`, `evaluate`'s merge, `create-policy-guard.ts`, `promote-enforce.ts` | pure |
| `Observations` | `observations.ts` | pure: log records to the report |
| `ObserveMode` | `evaluate`, `observations` and `enforce` over one project | calls at their awaits, files that operators edit, the log, the promotion |
| `EmbeddedCore` | `quick-start.ts`, `policy-pack-loader.ts`, `create-decision-core.ts`, `serve` over MCP | cores that seed insert by insert, a shared SQLite file, logs in the order of their calls, caches |
| `DecisionRunnerProofs`, `ApprovalsProofs`, `KnowledgeProofs`, `ModelGatewayProofs`, `PolicyServerProofs`, `OrgServerProofs`, `SdkProofs`, `AuditTrailProofs` | theorems and proofs | |
| `MC*` | the instances TLC checks | |

Abstractions common to all. A name, a payload or a text is a member of a small set; a glob
pattern is the set of actions it matches; an evidence record is the operation and the value
that a property tells apart. Control is kept: each guard, early return and rejection, in the code's
order. An action is what happens between two awaits (or two file operations). Collaborators
outside a module reply with anything their type allows. Identifiers follow the code.

Choices worth knowing:

- `DecisionRunner`: the deployment of a call (`config`) is fixed when it starts; the call's
  stages never change it in the code either.
- `Knowledge`: the caller hands what `compile` returns to `createRuleSet`. Nothing in `src/src` but
  tests chains the two (the CLI and MCP commands stop at `compile`); the types fit, and a host that
  uses the SDK has to do just this.
  A set records whether an evaluation found it before its rules were stored (`early`).
- `ModelGateway`: audit entries and contacts are sets, so that going round in a circle of
  fallbacks is a cycle in the state graph and not an endless path.
- `PolicyServer`: a reload is one step, since its awaits are of resolved promises and a
  request is a later macrotask. An edit is made in place. Order and priority of rules are left
  out, because the arbitration is over all that apply. Appending a rule to the change report
  is left out; it follows the write and nothing reads it. Directories are named after the
  millisecond, so two runs may share one, and that is modelled.
- `PolicyAuthor`: a document is cut into statements line by line, each reading made of the one before
  (`Reading`), as the code's loop does, and not by a fold, so that it can be reasoned about.
  `ApprovalsAsk` is about the actions the pattern of a statement matches; of a statement that names no
  tool that is '*', which no action with a dot matches (section 3).
- `Setup`: what detection looks for is a set of markers; of a tool's name the code reads the
  first word, its separator and the words of its classifier, and so does the model. What is given
  for a mode, a harness or a provider need not be one (`Misnomers`): nothing validates `--profile`,
  the `mode` of an imported memory or of `dc_setup_infer`, and a mode without defaults fails later.
  A profile that is none (`OnboardingProfileSchema.safeParse`) ends a setup before it writes. The pack
  has a tool under its sanitized name (`Sanitized`), and its glob does not reach below a separator
  (`Nested`): properties about what the pack says of a tool are about that name. Called by a raw name that
  was changed, a tool meets none of its own rules.
- `OrgServer`: a request is one step, because what it reads of the server never changes after the
  start. The roles of the access matrix that may write are left out.
- `AuditTrail`: the optional collaborators of the audit (trust policies, surface bindings, evidence
  chains) are configured, and the time range is the whole of the log. Lists can be altered behind the
  service's back, since it hands out the live objects, in the hashed fields and in the others.
  `globMatches` escapes what is special in a pattern and the audit's regular expression does not: which
  tools it finds for a rule is independent of those the rule is applied to, it may match more or fewer,
  and it may not parse, which ends an audit that comes to it. The `policySnapshot` of a replay is left
  out. The coverage is rounded as the code does (`compliance-audit.service.ts:487`); a rounding up to
  100 takes 200 decisions, which is more than the run has, so that it is the proof that covers it. The
  gbrain sink, a client of an external service, is left out.
- `ObserveMode`: one tenant and one SQLite file; `--since`, and `--config` of the observations and
  enforce commands, are left out.
- `EmbeddedCore`: the log is, for each correlation id, the list of the statuses of its records, in the
  order they were appended, from whose first one `explain` answers. A core has one call of an id in
  flight at a time. What is asked of the MCP server of `serve` is `Verdict`, and the model gateway of
  `createDecisionCore` is left out.

## 3. What is checked

Passing runs (all TLC invariants and properties hold; sizes are distinct states):

| Run | Instance | Size |
|---|---|---|
| `decision_runner` | two calls, eleven deployments | 50 k |
| `approvals` | one request, two attempts, two agents, three instants, one restart, both repositories | 202 k |
| `knowledge` | two clauses, any three calls, from empty repositories or a deployment, its second set with or without rules yet | 243 k |
| `model_gateway` | two calls, eight gateways of three profiles | 13 k |
| `policy_server` | two commands of five kinds, one edit, one start, two packs | 160 k |
| `policy_author` | two sessions, six texts and two documents | 148 k |
| `setup` | twelve tool names, three projects, commands and tool calls worth six | 875 k |
| `org_server` | two agents, two provisions, one edit, one start, three registries, two policies | 502 k |
| `audit_trail` | chains of up to three records, five changes, two rule sets, two audits | 2.4 M |
| `observe_mode` | two calls, one edit, one promotion | 1.6 M |
| `embedded_core` | two cores over one file, three profiles and a pack, two records of an id | 677 k |

What they show:

- *decision_runner.* `ExecutionCleared`: inputs are gathered, a model called, a decision
  completed only for a call that gate, policy, compiled rules and abort conditions passed.
  `EvidenceExplainsVerdict`: the chain holds the reason of the verdict. `CallsSettle`: every call
  ends. `ImplementsGate`: the pipeline refines `DecisionGate` under the mapping at the end of
  `DecisionRunner`; so each call is ruled on once, as its objections require, and what is
  recorded is the ruling.
- *approvals.* `SeparationOfDuties` through break-glass, which had not expired when it was checked: the code
  reads the clock again for the signature, by which it may have; `OverwrittenOnlyByRacers`: a resolution is
  replaced only by an attempt that had read the request as pending.
- *knowledge.* `EnforcedWasApproved`: a rule that can be enforced comes from a clause that was
  approved. `FlowFollowsRules`: an evaluation has all the rules its set was created with, and its
  decision is what they say, errors included; but two kinds of set have none and pass everything: one
  found active before its rules were stored, and the copy an activation makes of the set it
  replaces. `OneActiveUnlessRaced`: one set is active as long as no activation looked between the look
  and the write of another, whatever else goes on between its steps. `RevivedOnlyByRacers` is as
  strong as the code allows: it says exactly which races break the simple statement.
- *model_gateway.* `PolicyRespected` for routed and fallback profiles too, `AuditAccounts`
  (also for a provider that answers after its timeout), and `CallsSettle`, which excepts groups of
  two providers that can stand in for each other.
- *policy_server.* `AllowedByPackLoaded`: a server of a deny-unknown pack allows nothing that pack does
  not allow, whatever became of the file. `BackedUp`: before a write a complete backup holds what is
  overwritten, of a pack below `.decision-core` and unless the run was raced. `KeepsRules`: no rule lost
  or toggled unasked by a run that was not raced, and what it writes still loads if what it replaces
  did, unless it upgrades a contracts pack. `CatchesUp`: the server gets to enforce the file as it is.
- *policy_author.* `ApprovalsAsk`: a statement that asks for an approval is never answered with an
  allow where its pattern matches, whichever of the patterns it matches comes first.
- *setup.* `AsStrictAsDocumented`: the pack is at least as strict as the clauses, scenarios and report
  that are written with it by other code. `HighRiskIsHeld`: both ways from the phase interview to a pack
  hold the tools called of high risk: neither allows them, but where the workflow is only to log.
  `OverwrittenWasSaved`, through kills: the configuration, and a pack in `.decision-core`.
- *org_server.* `LogIsTheHolders`, `ReadsStayInTenant`: the holder of the token is who is judged,
  logged and shown records, whatever the request says. `ProvisionRotates`: a run that finished
  alone leaves each agent a token that resolves and no older one that does, whatever was killed
  before it. `MountsAreVerified`: verification says of old mounts what today's policy says.
- *audit_trail.* `VerifiedIsAPrefix`: in the hashed fields, only a lost end escapes `verifyChain`.
  `ReportsAreComplete`: what is damaged, ungoverned or bypassed when an audit reads it is in its report,
  as far as the audit's regular expressions find the rule.
- *observe_mode.* `PromotedForGood`: after "enforcement is on" no call still observes, unless
  somebody edits a file. `ReportsCoverCalls`: a report with room for the log counts every call
  behind which a denial was hidden.
- *embedded_core.* `DeniedByItsPack`: a core denies what its rules deny over any half-seeded or
  shared table. `LogBearsOutCache`: an explanation from the cache has a record that explains the
  same, and it is the first one, from which a successor answers, if the id was used once.

One run, `safe_block_route`, states what the repository says of itself and finds it violated
(`SafeBlockRouteNeverCompletes`): a route that requires a safe block has no decision to be deterministic
by and, without a gateway, falls through to `evaluate` and completes, while
`runtime-route-resolver.ts:77` says that it is safe-blocked, and `docs/TRUST-ROUTING-GUIDE.md:149` that it
requires a human. The finding quotes both.

The models have more disagreements, as the code has them. No run states these; where a property would
meet one, it says so in its comment and in what it excepts:

| What the code does | Where | What is said of it |
|---|---|---|
| two activations that overlap leave two active sets (`OneActiveUnlessRaced` excepts them) | `compiled-rule-set.repository.ts:101` | `docs/CLAUSE-SCHEMA-REFERENCE.md:281`, `compiled-rule-set.repository.ts:5` |
| a replaced version, activated again by the record kept of it, has no rules and passes everything (`FlowFollowsRules` has it as a case) | `compiled-rule-set.repository.ts:105` | `docs/ARCHITECTURE.md:112-113` |
| a pack outside `.decision-core` is overwritten by rules, upgrade and rescan without a backup (`BackedUp` is about `Owned` packs) | `backup-utils.ts:30` | `backup-utils.ts:4-5` |
| so does `setup --output` (`OverwrittenWasSaved` is about the project's own pack) | `setup.ts:249` | `setup.ts:244` |
| an upgraded contracts pack parses in no format, and a server that reloads it drops all its rules (`KeepsRules` excepts it) | `upgrade.ts:58` | `upgrade.ts:69` |
| an upgrade overwrites a rule that another command wrote after its read (`KeepsRules` is about runs that nobody raced) | `upgrade.ts:59` | `upgrade.ts:69` |
| an approval without a tool gets the pattern '*', which no action with a dot matches, and such actions stay allowed (`ApprovalsAsk` is about the actions matched) | `policy-author.service.ts:94` | `policy-author.service.ts:93`, "Default: wildcard" |
| a rule authored to deny has neither an approval nor a default verdict, and evaluates to allow | `policy-author.service.ts:131` | `policy-author.service.ts:135`, "This is a hard deny" |
| an executive choice to allow or ask is outvoted by a stricter rule of a tool's tier: priorities only order the rules (`AsStrictAsDocumented` lets the pack be stricter) | `generate-artifacts.ts:581` | `generate-artifacts.ts:540-541`, `:327-329`, `docs/USAGE.md:86` |
| the workflow 'block' asks for approval, as 'approve' does (`HighRiskIsHeld` accepts either) | `onboarding.service.ts:328` | `skills/onboard/SKILL.md:91`, "Deny high-risk actions entirely" |
| a chain without its last records verifies (`VerifiedIsAPrefix` says a beginning) | `evidence-chain.service.ts:145` | `docs/EVIDENCE-CHAIN-GUIDE.md:78,183` |
| id, correlation id and tenant of a record, and the effective date of a version, are in no hash: they can be changed and the chain verifies (`VerifiedIsAPrefix` is about what is hashed) | `evidence-chain.service.ts:41`, `clause-version-chain.service.ts:45` | `docs/EVIDENCE-CHAIN-GUIDE.md:77` |
| a bypass of a rule with parentheses in its pattern is in no gap (`ReportsAreComplete` is about what the regular expression finds) | `compliance-audit.service.ts:379` | `skills/audit/SKILL.md:133` |
| a correlation id that was used twice is explained by its last call from the cache, by its first from the log (`LogBearsOutCache` has it as a case) | `quick-start.ts:446` | `docs/EVIDENCE-CHAIN-GUIDE.md:12`, `sdk/types.ts:94` |
| a request is approved after `expiresAt` | `approval/resolve-approval.ts:40` | `docs/SECURITY.md:169` |
| rules of clauses that are not active are enforced | `knowledge/enforcement` | `enforcement-guard.ts:4,26` |
| prohibited jurisdictions compile to the allowed ones | `policy-rule-compiler.service.ts:221` | `docs/CLAUSE-SCHEMA-REFERENCE.md:33` |
| two failing profiles fall back on each other for ever | `core/model-gateway.ts:164` | `docs/PROVIDERS.md:129-130` |
| a failed reload leaves no rules: what was denied is allowed, unless unknown actions are denied | `serve.ts:247` | `docs/SECURITY.md:12,132` |
| `alwaysRequireApproval` and `neverAllow` reach no generated rule | `generate-artifacts.ts:463` | `interview-engine.ts:104` |
| `quickStart` over SQLite keeps allowing tools of earlier starts | `quick-start.ts:311` | `README.md:95` |
| `quickStart` ignores `tenantId` | `quick-start.ts:282` | `docs/FAQ.md:128`, `MULTI-TENANCY.md:148` |
| a `--config` that says nothing of the mode gets the one of the working directory's | `sdk/evaluate.ts:66` | the option's name |
| `serve` does not read the observe mode | `serve.ts:61` | the generated configuration |
| the promotion fails on a mode line with a comment | `promote-enforce.ts:57` | |
| the observations limit takes the oldest records | `sqlite-decision-log.repository.ts:91` | |
| a mode that is none is accepted, and fails at its defaults; `dc_setup_infer` keeps the profile it reports to have failed on | `interview-engine.ts:297`, `setup.tools.ts:103-110` | `setup.tools.ts:89` |

Bounds and why they are enough. Operations read once and write once, so two of them in
flight show any race between operations on one object; objects share nothing but the log, the
sets, the table or the file, and each of these is shared by two in the instances. The
deployments, gateways, packs, projects and statements are one for each branch of the code.

- `Knowledge`: `MaxCalls` 3, because an evaluation between two activations takes three; `MaxSets` 4
  holds what they can create. `MCSpec` also starts from a deployment with an
  active set, whose second set has its rules or is about to get them.
- `Approvals`: `MaxTime` 2 is before, at and after each deadline; a second restart finds nothing the
  first did not leave.
- `PolicyServer`: `MaxEdits` and `MaxStarts` 1: a race takes one run and whoever changes the file. `Owned`
  is TRUE, a pack below `.decision-core`; the proofs are for either value.
- `PolicyAuthor`: `MaxSessions` 2, for one session to commit over another's pack.
- `Setup`: `MaxWork` 6, a command counting three and a tool call one: two commands, or one after
  three calls, which is what overwriting what another generated takes.
- `OrgServer`: `MaxEdits`, `MaxStarts`, `MaxLog` 1. The edit comes before, between or after the two
  provisions and the start; a record of the log is judged by itself.
- `AuditTrail`: `MaxRecords` 3 is a beginning, a middle and an end; `MaxWork` 5 is a record, a
  change, an audit's awaits and a change among them.
- `ObserveMode`: `ReportLimit` 2 is below `MaxLog` 3, so that a report may miss the newest; `MaxEdits` 1.
- `EmbeddedCore`: `Storages` is SQLite, the shared table; without it a core shares nothing. One
  correlation id, which all calls reuse: different ones never meet. `MaxCalls` 2 is a first record and
  another one.

Symmetry is used in `observe_mode` (the calls) and `embedded_core` (the cores), which check safety only.

Fairness is assumed in three modules. `DecisionRunner`: weak fairness of a call's next step, since a
promise of a model has a timeout, one of a repository settles or rejects, and Node runs a settled
promise's continuation. `ModelGateway`: weak fairness of what settles a call, its timer at
the latest. `PolicyServer`: the reload timer fires; commands and edits may stop at any point.
Nothing is assumed about starting calls. `CHECK_DEADLOCK FALSE` stands where all calls may have
ended, which is a proper end, or where a bound stops the model.

Every property has a mutant of the code (`mutants`), next to the definition it replaces, that
the same run refutes.

## 4. What is proved

TLAPS checks these for every value of the constants that satisfies the named assumptions, so for
any number of calls, commands, agents, cores or rules.

`DecisionRunnerProofs` (from `ConfigurationsAssumption`: configurations have their type):

- `TypeCorrect`, and `FailClosed`: `Spec => []ExecutionCleared`. `ExecutionCleared`
  alone is not inductive: it says nothing of a call at an earlier await. The invariant
  `IInv` adds, for each await, what reaching it implies (`CallSafe`): at `policy` the gate has answered,
  at `flow` it let the call pass and the effective verdict is allow, and so on. One step per action.

- `EvidenceExplains`: `EvidenceExplainsVerdict` speaks of finalized calls only. Its invariant `EInv` adds
  to `IInv` what the evidence of a call holds at each await (`CallExplained`): the gate's answer from
  `policy` on, the effective verdict from `flow` on, an execution or its failure from `log` on, and
  nothing yet that only a later stage records. Lemmas say what appending a record adds to what
  `Says` finds in a chain; the rest is which of the cases of `ExplainedVerdict` they exclude.
- `PipelineImplementsGate`: `Spec => ImplementsGate`, initial states and steps. The invariant `GInv` is
  `IInv` and that replies not yet heard have raised no objection: without it a stage could seem to
  object before it was asked. Each action is a step of the gate (it hears, clears, refuses,
  concludes, records or rejects) or a stutter.

`ApprovalsProofs`:

- `TypeCorrect`, `DutiesStaySeparate`, `OnlyRacersOverwrite`. `SeparationOfDuties` is about
  requests, and what makes it inductive is `AttemptSafe`, about the attempts: what an attempt that
  waits for the repository has already established, and that its stamp is read no earlier than its check.

`KnowledgeProofs` (from `ClauseListsAssumption`, `ContentAssumption`, `MaxSetsAssumption`):

- `TypeCorrect`, `OnlyApprovedIsEnforced`, `FlowsFollowTheirSet`, `SequentialActivationsReplace`,
  `OnlyRacersRevive`. The invariant has
  a part for each of the composed modules: `ClauseInv` (a status that compiles, held or only read, has
  its approval in the log), `SetInv` (creations and activations point at sets that exist), `CompileInv`
  and `FlowInv`. They meet in `Approved`, the clauses that were ever approved, which only grows, and in
  `Sound` lists of rules, which come from it; and in the fact that the stored rules of a set are never
  replaced, which a step of `RuleSets` proves. For `SequentialActivationsReplace`, `ActiveInv` adds that
  while none has raced at most one activation is between its look and its write, and that the active
  set is the one it found. The proofs are about `Init`; that the run may also start
  from a deployment is only checked.

`ModelGatewayProofs` (from `GatewaysAssumption`, `RequestsAssumption`):

- `TypeCorrect`, `OnlyPermittedProviders`, `EveryCallIsAudited`. The work is in `ReachType`: whatever
  selection, policy, fallback and routing do, what is dispatched is a stack of at most two, each
  permitted. `CallSafe` says where a call at each point stands with its records.

`PolicyServerProofs` (from `PolicyServerAssumption`: the operations, packs, edits and bounds have their types),
about the rules, the server and what writes the packs:

- `DenyWins`, `OnlyExplicitAllow`, `MoreRulesAreStricter`: the arbitration, for every set of rules and
  every context. The last is why priorities cannot weaken a policy.
- `PackTypeCorrect`, with `PlacedInv` (a run's backup directory exists) as its inductive form; this
  `TypeOK` is proved and not run.
- `ServesThePack`: the repository holds the rules of the pack last loaded or none, and
  deny-unknown is that pack's (`Serving`); an empty repository that denies the unknown allows nothing.
- `BacksUpFirst`: needs three facts together (`SecuredInv`): a directory in use by two runs is marked
  shared, the file is what an unraced run read, and from the copy on so is its backup. It is about a
  pack below `.decision-core`, the only one the backup copies.
- `CommandsKeepRules`: the action property, from `SecuredInv` and from what each operation makes of a
  pack (`RewritingKeeps`: its rules; that it still loads, a contracts pack that is upgraded excepted).
- `AuthorTypeCorrect` (about `PolicyAuthor`, from `PolicyAuthorAssumption`): `AuthorTypeOK`. A document has any
  number of lines, and what they read as is defined from line to line. Induction being out of reach,
  `Upwards` does without: if a property of 0 that passes from each number to the next failed of N, the
  step would map a finite set injectively into itself without 0, against the pigeonhole theorem.
  By it `Reading` is the function its definition describes, and what it reads stays typed (`ReadingTyped`).
- `ApprovalsAreAsked` (about `PolicyAuthor`, from no assumption): a rule of a session is the draft of
  its statement or a reviewer's rewrite (`AuthorInv`), the draft of a statement that asks for an
  approval is about every action the statement names, or without a tool those without a dot
  (`ApprovalDrafted`), and by `MoreRulesAreStricter` nothing else in the authored pack undoes it.
- `HighRiskAlwaysHeld` (about `OnboardingService`, from `OnboardingServiceAssumption`): each answer is one to
  its phase and the result is what all four generate (`SessionInv`). The rule of a tool is not outvoted
  (`RuleHolds`), and the tools of the profile that answers become carry the tier that denies
  (`NothingAllowed`), under their own name or the pack's.
- `StrictAsDocumented` (about `Setup`, from `SetupAssumption`): while a run writes, each file that
  matters is still to be written or on disk as its profile generates it (`SetupInv`, in the directory
  the run writes to: `BothKept`), so that once all are written, nothing of an earlier run is left in
  them. The clauses, scenarios and report are computed by other code than the pack; that they agree
  takes `ProfileOK`, that every tool of the profile has a tier and a default action, whichever of
  detection, memory, interview and defaults put it there.
- `SetupTypeCorrect` (about `Setup`, from the assumptions of the modules it extends): `SetupTypeOK`, from
  `SetupInv`, `SessionInv` and `RunTyped`, `DiskTyped`, `ToolsTyped`. Whatever detection finds, memory
  votes for and flags say, the profile of a run is a profile with one of the four modes, since a draft
  still asks by default and `HasDefaults` then requires the mode to be one (`ImportedTyped`,
  `DraftedTyped`, `DefaultsTyped`, `AnsweredTyped`); and the pack made of it is a set of rules.
  The profile of the MCP tools only keeps its fields: those given to `dc_setup_generate` are not validated.
- `OverwritesAreSaved`: what a command is about to replace is in a backup from its first step to its last
  write (`SavedInv`), or it has been replaced by the run's own. It is about the configuration and the pack
  in `.decision-core`; of a pack in the directory of `--output` the statement says nothing.

`OrgServerProofs`:

- `VerifierAgreesAlways`: mounts and verification agree, for every policy and every set of roles,
  although one unites classifications and the other takes the first of a brain.
- `AlwaysTypeOK`, `LogIsAlwaysTheHolders`, `MountsAreAlwaysVerified`, `ReadsAlwaysStayInTenant`: from
  `FilesOK`, `IssuedOK` and `ServerOK` (what the files hold, whose tokens there are, and what an
  organisation's server loaded) and what a request leaves in the log and in the answer.
- `ProvisionAlwaysRotates`: about the last run to start, when it was alone. Its invariant `RotationOK`
  orders the runs (a run that is alone started before every other one still under way), and says of
  the last one, while it is alone, that each `agent.env` it has written is of a binding it holds
  or has stored. Without the order a killed run's tokens could come back after a later run's.
  Nothing is assumed of the set of runs: those started are finitely many in any reachable state,
  and that is part of the invariant.

`SdkProofs`, about `EmbeddedCore` (from `PacksAssumption`, `ProfilesAssumption`, `StoragesAssumption`)
and about `ObserveMode` (from `ObserveAssumption`, `FilesAssumption`): packs, profiles, files, calls and
bounds have their types.

- `TypeCorrect` (proved, not run), and `MadeToDeny`: `DeniedByItsPack`, from `SeedInv` (what a core
  was handed out with is in the table, and a table shared with others only grows) and `DenyWins`.
- `CacheIsBorneOut`: each cached result has a record that explains it (`BearsInv`, inductive on the types):
  a log only grows at its end while a cache of it lives (`Keeps`), and the two ways from a verdict to its
  explanation meet (`SameExplanation`). An only record is the first (`OnlyRecord`).
- `ObserveTypeCorrect`: the files, the log, the calls and the promotion.
- `PromotionHolds`: while the command says that enforcement is on and nobody has edited since, the file is
  there and enforces; what the promotion is about to write enforces too (`PromoterOK`); and a call that
  started under that promise has read no mode that observes (`CallOK`). It is about what a call has read,
  because a call may read its mode and lose the processor before it merges it.
- `ReportsCover`: for each tool and verdict no more calls have answered with a hidden denial than the log has
  records (`CountOK`), and the calls that are due in a report stay answered (`ReportOK`). The set of calls
  may be infinite: those that hide a denial are finitely many, and that is part of the invariant.

`AuditTrailProofs` (from `AuditAssumption`: rules, decisions and requests have their types, and a set
of rules is finite; nothing relates what a rule is applied to with what the audit finds for it, but that a
pattern that makes no regular expression finds nothing):

- `VerifiedIsAlwaysAPrefix`, for chains of any length. What is stored can be any list of records that
  were once appended, with any contents and labels (`EvidenceKept`; `AlteredKeeps` shows that
  alterations stay in it). What was appended is linked by hashes of which no two are the same
  (`EvidenceAppended`): a hash that came twice would have had a predecessor that came twice, down to the
  first, which has none. Then the first record of a list that is not in its own place contradicts its
  link (`InPlace`), and a record in its place whose hash verifies has its content, though not its label.
  The versions of clauses go the same way, up to `Normalized`. A hash is taken to be what was hashed, so
  that collisions are left out.
- `AlwaysTypeOK` and `ReportsAreAlwaysComplete`: from the prefix and `ReportOK` (what a report says at
  each await of the audit was computed from what it had read). Gaps are finite, name decisions that were
  asked about, and their counts add up; damage of what is hashed that was there at the read is in a gap,
  because evidence that verifies is not damaged so; and the coverage is 100 just when at most one decision in
  two hundred is in a gap (`CoverageIs`). That last bound was found by the proof: the run has three
  decisions, where 100 % does mean that there is no such gap, and the code rounds.

Each of these inductive invariants was checked by TLC on the instance of its run before it was
proved (`SetupInv` and `SavedInv` on two of the three projects).

Every safety invariant and action property of the runs is proved. Only model-checked: liveness (the
prover does neither fairness nor `ENABLED`). What an expression evaluates to
(`Result` of `CompiledRules`) is defined by recursion over expressions, and induction over data
is out of the prover's reach; the proofs about `Knowledge` use it as it is.

## 5. What is not modelled

- *Enforcement guard and runtime clause evaluation*: no caller on the decision path.
- *The standalone tribunal executor*: the runner calls the pattern, which `TrustPatterns` has.
- *Routing optimizer, comparison, linter, knowledge graph, ingestion and authoring texts*: offline
  analysis and text processing without shared state; what they produce enters as clauses.
- *Rule sets over SQLite*: the repository keeps rules and hashes in memory only, so after a restart
  an active set passes everything; this is a hazard of the list without a property.
- *Policy decision point*: the enforcement point, autonomy levels, audit counters, and the
  update of the SQLite repository.
- *Surfaces*: parsing, formatting and transport; commands that analyse, validate or generate samples.
- *Conformance harness and adapters*: a test tool, and clients of external services.
- Everywhere: hashing as computation, logging, the quality gate's arithmetic (its answer is any
  status), and the wording of texts that models or people write.

What could be added next: the SQLite rule sets with restarts (`RuleSets` with a table that forgets),
and an abstract specification of what a deployment promises over a restart, for `PolicyServer` and
`EmbeddedCore` to implement.
