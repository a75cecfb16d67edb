------------------------- MODULE OnboardingService -------------------------
(***************************************************************************)
(* The phased onboarding interview of the MCP server                       *)
(* (src/src/skills/onboarding/onboarding.service.ts): four phases in       *)
(* order, and a configuration generated from all of their answers.         *)
(* Sessions share nothing, so one of them stands for all.                  *)
(***************************************************************************)
EXTENDS SetupArtifacts

CONSTANT PhaseAnswers  \* the answers to each phase

VARIABLE session       \* the session, as a set of at most one

RiskProfiles == {"personal", "team", "enterprise"}
ApprovalWorkflows == {"block", "approve", "log_only"}
DataAccess == {"public_data", "internal_docs", "user_pii", "financial_records", "source_code", "credentials"}

AnswersTo ==
  << [agentTools : (SUBSET Actions) \ {{}}, dataAccess : SUBSET DataAccess],
     [highRiskTools : SUBSET Actions, mediumRiskTools : SUBSET Actions, canSpendMoney : BOOLEAN, piiHandling : BOOLEAN],
     [riskProfile : RiskProfiles, compliance : BOOLEAN, approvalWorkflow : ApprovalWorkflows],
     [providerMode : Providers] >>

ASSUME OnboardingServiceAssumption ==
  DOMAIN PhaseAnswers = 1 .. 4 /\ \A i \in 1 .. 4 : PhaseAnswers[i] \subseteq AnswersTo[i]

-----------------------------------------------------------------------------
(* The configuration that answers generate                                 *)

\* A tool of both lists is of high risk.
classifyTools(ans) ==
  [t \in ans[1].agentTools |-> IF t \in ans[2].highRiskTools THEN "high"
                               ELSE IF t \in ans[2].mediumRiskTools THEN "medium" ELSE "low"]

At(point, rule) == [rule EXCEPT !.point = point]
When(condition, rule) == IF condition THEN {rule} ELSE {}

\* The workflow 'block' asks for approval too; no rule of the pack denies.
HighRiskRules_block(ans) ==
  {Rule({t}, ans[3].approvalWorkflow = "block", "allow") : t \in ans[2].highRiskTools}
HighRiskRules(ans) ==
  {Rule({t}, ans[3].approvalWorkflow \in {"approve", "block"}, "allow") : t \in ans[2].highRiskTools}

\* A review of a tool of medium risk is at its dispatch; what is of low risk is only recorded.
generatePoliciesYaml(ans) ==
  LET profile == ans[3].riskProfile
      low == ans[1].agentTools \ (ans[2].highRiskTools \cup ans[2].mediumRiskTools)
      undotted == {a \in Actions \ Nested : Separator[a] # "."}
      everything == At("post_execution", Rule(undotted, FALSE, "allow"))
  IN HighRiskRules(ans)
     \cup {At("action_dispatch", Rule({t}, profile = "enterprise" /\ ans[3].approvalWorkflow # "log_only", "allow")) :
             t \in ans[2].mediumRiskTools}
     \cup When(low # {}, IF Cardinality(low) = 1 THEN At("post_execution", Rule(low, FALSE, "allow")) ELSE everything)
     \cup When(ans[2].canSpendMoney,
               [Rule({a \in Actions \ Nested : FirstWord[a] = "payment" /\ Separator[a] = "."}, TRUE, "allow")
                  EXCEPT !.maxAmount = {CASE profile = "personal" -> 100 [] profile = "team" -> 1000
                                          [] profile = "enterprise" -> 500}])
     \cup When(ans[2].piiHandling,
               Rule({a \in Actions \ Nested : FirstWord[a] = "data.pii"}, profile # "personal", "allow"))
     \cup When(ans[3].compliance, everything)

generateSurfacesYaml(ans) ==
  LET class == classifyTools(ans)
      of(c) == {t \in DOMAIN class : class[t] = c}
  IN [restricted |-> of("high"), standard |-> of("medium"), open |-> of("low")]

generateAllConfig(ans) ==
  [policies |-> generatePoliciesYaml(ans), surfaces |-> generateSurfacesYaml(ans), provider |-> ans[4].providerMode]

\* The profile that the same answers are converted to.
convertAllAnswersToProfile(ans) ==
  [createEmptyProfile EXCEPT
     !.mode = ans[3].riskProfile,
     !.detectedTools = ans[1].agentTools,
     !.posture = CASE ans[3].approvalWorkflow = "block" -> "locked_down"
                   [] ans[3].approvalWorkflow = "approve" -> "guided"
                   [] ans[3].approvalWorkflow = "log_only" -> "high_autonomy",
     !.defaultAction = IF ans[3].approvalWorkflow = "block" THEN "block" ELSE "ask",
     !.alwaysRequireApproval = ans[2].highRiskTools,
     !.provider = ans[4].providerMode,
     !.classes = {CASE d = "user_pii" -> "pii" [] d = "financial_records" -> "financial"
                    [] d = "credentials" -> "credentials" [] d \in {"internal_docs", "source_code"} -> "internal"
                    [] d = "public_data" -> "public" : d \in ans[1].dataAccess},
     !.tools = {[name |-> t, riskTier |-> 4, defaultAction |-> "block",
                 powers |-> (IF ans[2].canSpendMoney THEN {"spend_money"} ELSE {})
                              \cup IF ans[2].piiHandling THEN {"access_sensitive_data"} ELSE {}] :
                  t \in ans[2].highRiskTools}
               \cup {[name |-> t, riskTier |-> 2, defaultAction |-> "ask", powers |-> {}] :
                       t \in ans[2].mediumRiskTools}]

-----------------------------------------------------------------------------
(* The session                                                             *)

startOnboarding == session' = {[currentPhase |-> 1, answers |-> <<>>, result |-> {}]}

\* Answers to another phase, to a session that has ended, or that do not parse change nothing.
processPhaseAnswers(phase, ans) == \E s \in session :
  /\ s.result = {} /\ phase = s.currentPhase
  /\ LET all == Append(s.answers, ans) IN
       session' = {[currentPhase |-> phase + 1, answers |-> all,
                    result |-> IF phase = 4 THEN {generateAllConfig(all)} ELSE {}]}

AnswerPhase == \E phase \in 1 .. 4 : \E ans \in PhaseAnswers[phase] : processPhaseAnswers(phase, ans)

SessionOK == \A s \in session :
  /\ s.currentPhase = Len(s.answers) + 1
  /\ \A i \in DOMAIN s.answers : s.answers[i] \in AnswersTo[i]
  /\ (s.result # {}) <=> (s.currentPhase = 5)

HighRiskContext(t) ==
  [action |-> t, point |-> "pre_decision", roles |-> {}, impact |-> {}, quality |-> {}, confidence |-> {}, time |-> 0]

\* What the operator says is of high risk is held, whichever of the two ways the answers
\* become a pack: by its policies unless it is only to be logged, and by the pack of the
\* profile they are converted to, under its own name and the pack's.  By the policies it is held
\* for approval and not denied, also when the workflow is 'block' (onboarding.service.ts:328).
HighRiskIsHeld == \A s \in session : s.result # {} => \A t \in s.answers[2].highRiskTools :
  LET ctx == HighRiskContext(t)
      profile == applyModeDefaults(convertAllAnswersToProfile(s.answers))
  IN /\ \A c \in s.result : s.answers[3].approvalWorkflow # "log_only" => evaluate(c.policies, FALSE, ctx) # "allow"
     /\ \A a \in {t, Sanitized[t]} :
          evaluate(generatePolicyPackYaml(profile).rules, TRUE, HighRiskContext(a)) # "allow"
=============================================================================
