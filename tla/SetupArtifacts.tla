--------------------------- MODULE SetupArtifacts ---------------------------
(***************************************************************************)
(* What setup and init generate (src/src/onboarding/generate-artifacts.ts, *)
(* rule-proposal.ts, src/src/surfaces/cli/commands/init.ts): the policy    *)
(* documents as the decisions of their clauses, the runtime pack as its    *)
(* rules, the scenarios that come with it, the root configuration, and     *)
(* what the reports tell the operator.                                     *)
(***************************************************************************)
EXTENDS SetupProfile, PolicyRules

-----------------------------------------------------------------------------
(* The policy documents                                                    *)

toPolicyDecision(action) ==
  CASE action = "allow" -> "allow" [] action = "ask" -> "approve_required" [] action = "block" -> "deny"

decisionForTool(tool) ==
  CASE tool.riskTier >= 4 -> "deny"
    [] tool.riskTier = 3 -> "approve_required"
    [] tool.riskTier =< 2 -> toPolicyDecision(tool.defaultAction)

surfaceForTool(tool) ==
  IF "spend_money" \in tool.powers THEN "finance.processing"
  ELSE IF tool.powers \cap {"contact_people", "publish_content"} # {} THEN "communication.email"
  ELSE IF "access_sensitive_data" \in tool.powers THEN "data.classification"
  ELSE IF tool.powers \cap {"delete_data", "deploy_code"} # {} \/ tool.riskTier >= 3
          \/ tool.defaultAction = "ask" THEN "workflow.escalation"
  ELSE "workflow.routing"

Clause(about, surface, decision) == [about |-> about, surface |-> surface, decision |-> decision]

generateBaselinePolicy(p) ==
  {Clause("default", "workflow.escalation", toPolicyDecision(p.defaultAction)),
   Clause("unknown", "workflow.escalation", "deny")}

generateToolsPolicy(p) == {Clause(t.name, surfaceForTool(t), decisionForTool(t)) : t \in p.tools}

SensitiveClasses == {"pii", "financial", "credentials", "health", "restricted"}
generateDataPolicy(p) ==
  {Clause(c, "data.classification", IF c \in SensitiveClasses THEN "approve_required" ELSE "allow") :
     c \in p.classes}

generateProviderPolicy(p) == {Clause(p.provider, "workflow.routing", "allow")}
generateMemorySourcePolicy(p) == {Clause(k, "data.extraction", "allow") : k \in p.read}

-----------------------------------------------------------------------------
(* The runtime pack                                                        *)

Rule(actions, approval, default) ==
  [ actions |-> actions, point |-> "pre_decision", roles |-> {}, all |-> FALSE, maxAmount |-> {},
    minQuality |-> {}, minConfidence |-> {}, window |-> {}, approval |-> approval, default |-> default ]

RuleFor(actions, verdict) ==
  Rule(actions, verdict = "approve_required", IF verdict = "deny" THEN "deny" ELSE "allow")

runtimeVerdictForTool(tool) ==
  CASE tool.riskTier >= 4 -> "deny"
    [] tool.riskTier = 3 -> "approve_required"
    [] tool.riskTier =< 2 -> toPolicyDecision(tool.defaultAction)

\* delete_* and the like: the pattern of a word followed by an underscore.
Glob(words) == {a \in Actions \ Nested : FirstWord[a] \in words /\ Separator[a] = "_"}

ExecWords ==
  [ delete_data |-> {"delete", "drop", "destroy", "purge"},
    move_money |-> {"payment", "transfer", "refund", "charge"},
    deploy |-> {"deploy", "release", "rollout"},
    external_contact |-> {"send", "email", "contact", "publish"},
    credentials |-> {"credential", "secret", "token"} ]

\* word_*, word-* and word.*
execPatterns(c) == {a \in Actions \ Nested : FirstWord[a] \in ExecWords[c] /\ Separator[a] # "none"}

ExecRules(p) == {RuleFor(execPatterns(c), toPolicyDecision(p.executiveDecisions[c])) : c \in DANGEROUS_CAPABILITIES}

\* What the mode adds; init adds the same to its starter rules.
ModeRules(mode) ==
  CASE mode = "personal" -> {}
    [] mode \in {"team", "business"} -> {RuleFor(Glob({"delete"}), "approve_required")}
    [] mode = "enterprise" -> {RuleFor(Glob({"delete"}), "deny"), RuleFor(Glob({"admin"}), "approve_required")}

Pack(by, rules, denyUnknown) == [by |-> by, rules |-> rules, denyUnknown |-> denyUnknown]

\* Neither alwaysRequireApproval nor neverAllow has a part in it.
generatePolicyPackYaml_tools(p) ==
  Pack("setup", {RuleFor({Sanitized[t.name]}, runtimeVerdictForTool(t)) : t \in p.tools} \cup ModeRules(p.mode), TRUE)
generatePolicyPackYaml(p) ==
  Pack("setup",
       {RuleFor({Sanitized[t.name]}, runtimeVerdictForTool(t)) : t \in p.tools}
         \cup ModeRules(p.mode) \cup ExecRules(p)
         \cup IF p.tools = {} THEN {RuleFor(Glob({"read"}), "allow")} ELSE {},
       TRUE)

generateStarterRules(mode) == {RuleFor(Glob({w}), "allow") : w \in {"read", "list", "get", "search"}} \cup ModeRules(mode)

-----------------------------------------------------------------------------
(* The rest                                                                *)

\* Which tools each class of surface holds.
generateSurfaceContracts(p) ==
  [ A |-> {t.name : t \in {t \in p.tools : t.riskTier >= 3}},
    B |-> {t.name : t \in {t \in p.tools : t.riskTier = 2}},
    C |-> {t.name : t \in {t \in p.tools : t.riskTier < 2}} ]

\* A scenario expects what the tool's own rule says; "unknown_tool" expects deny.
generateTestScenarios(p) == {<<Sanitized[t.name], runtimeVerdictForTool(t)>> : t \in p.tools}

generateProfileYaml(p) ==
  [ mode |-> p.mode, harness |-> p.harness, posture |-> p.posture, defaultAction |-> p.defaultAction,
    alwaysRequireApproval |-> p.alwaysRequireApproval, provider |-> p.provider,
    evidenceImported |-> p.evidenceImported ]

generateConfigYaml(p) ==
  [ mode |-> p.mode, provider |-> p.provider, posture |-> p.posture,
    defaultAction |-> p.defaultAction, enforcementMode |-> p.enforcementMode ]

generateOnboardingReport(p) ==
  [ alwaysRequireApproval |-> p.alwaysRequireApproval, executiveDecisions |-> p.executiveDecisions,
    enforcementMode |-> p.enforcementMode, classes |-> p.classes, read |-> p.read ]

generateMemorySourceReport(p) ==
  [listed |-> p.listed, detected |-> p.detected, read |-> p.read, writeBack |-> p.writeBack]

generateHarnessIntegration(p) ==
  [ file |-> IF p.harness \in {"openclaw", "hermes"} THEN p.harness ELSE "generic-hook",
    mode |-> p.mode, provider |-> p.provider ]

\* Root configuration: the mode, and whether the decision log is kept over restarts.
generateRootConfigYaml(p, sqlite) ==
  [enforcementMode |-> p.enforcementMode, persistent |-> p.enforcementMode = "observe" /\ sqlite]

File(path, content) == [path |-> path, content |-> content]
Optional(path, clauses) == IF clauses = {} THEN <<>> ELSE <<File(path, clauses)>>

\* In the order in which they are written.
Generated(p) ==
  << File("profile", generateProfileYaml(p)), File("config", generateConfigYaml(p)),
     File("surfaces", generateSurfaceContracts(p)), File("baseline", generateBaselinePolicy(p)) >>
  \o Optional("tools", generateToolsPolicy(p)) \o Optional("data", generateDataPolicy(p))
  \o << File("provider", generateProviderPolicy(p)) >>
  \o Optional("memory", generateMemorySourcePolicy(p))
  \o << File("pack", generatePolicyPackYaml(p)), File("scenarios", generateTestScenarios(p)),
        File("integration", generateHarnessIntegration(p)), File("report", generateOnboardingReport(p)),
        File("memory report", generateMemorySourceReport(p)) >>

\* The last file lists the others.
generateRollbackManifest(files) == {files[i].path : i \in DOMAIN files} \cup {"manifest"}

\* What of a profile may not parse: what command lines, memories and callers name.
safeParse(p) == p.mode \in Modes /\ p.harness \in Harnesses /\ p.provider \in Providers

\* Of a profile that does not parse nothing is generated.
generateArtifacts(p) ==
  IF safeParse(p) THEN Append(Generated(p), File("manifest", generateRollbackManifest(Generated(p)))) ELSE <<>>

Paths == {"profile", "config", "surfaces", "baseline", "tools", "data", "provider", "memory", "pack",
          "scenarios", "integration", "report", "memory report", "manifest"}

\* What validation counts: policy documents and scenarios (the unknown tool's is always there).
validateGeneratedArtifacts(files) ==
  /\ \E i \in DOMAIN files : files[i].path \in {"baseline", "tools", "data", "provider", "memory"}
  /\ \E i \in DOMAIN files : files[i].path = "scenarios"
=============================================================================
