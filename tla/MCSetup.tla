------------------------------ MODULE MCSetup -------------------------------
(***************************************************************************)
(* Instances of Setup for TLC.                                             *)
(***************************************************************************)
EXTENDS Setup

MCNames == << <<"delete_user", "delete", "_", {"delete"}>>, <<"deploy-app", "deploy", "-", {"deploy"}>>,
              <<"send_email", "send", "_", {"send"}>>, <<"read_file", "read", "_", {"read"}>>,
              <<"credential_read", "credential", "_", {"read"}>>, <<"charge.card", "charge", ".", {}>>,
              <<"transform", "transform", "none", {"rm"}>>, <<"mcp-files", "mcp", "-", {}>>,
              <<"deploy/app", "deploy", "none", {"deploy"}>>, <<"send_mail.all", "send", "_", {"send"}>>,
              <<"payment.send", "payment", ".", {"payment", "send"}>>, <<"data.pii.read", "data.pii", ".", {"read"}>> >>
MCActions == {MCNames[i][1] : i \in DOMAIN MCNames}
Named(a) == MCNames[CHOOSE i \in DOMAIN MCNames : MCNames[i][1] = a]
MCFirstWord == [a \in MCActions |-> Named(a)[2]]
MCSeparator == [a \in MCActions |-> Named(a)[3]]
MCNested == {"send_mail.all"}
MCSanitized == [a \in MCActions |-> IF a = "deploy/app" THEN "deploy-app" ELSE a]
MCWords == [a \in MCActions |-> Named(a)[4]]

MCMisnomers == {"startup"}

\* An empty project, one of openclaw with tools and a memory, one of hermes with two servers.
Bare == [markers |-> {"package.json"}, plugin |-> {}, servers |-> {}]
OpenClaw == [markers |-> {"openclaw.plugin.json", "package.json", "dep openclaw", "hermes/memories/", "GBRAIN_DATABASE_URL"},
             plugin |-> {"delete_user", "send_email", "read_file", "credential_read"}, servers |-> {}]
Hermes == [markers |-> {"HERMES_HOME", "OPENAI_API_KEY"}, plugin |-> {"charge.card"},
           servers |-> {[name |-> "mcp-files", remote |-> FALSE, lists |-> {"transform", "deploy/app"}]}]

MCProjects == {Bare, OpenClaw, Hermes}

Items == << [confidence |-> 3, patch |-> {"business"}, says |-> {"team", "gdpr", "manages"}],
            [confidence |-> 8, patch |-> {}, says |-> {"enterprise", "autonomous", "api key"}] >>
MCExports == { <<>>, << [valid |-> TRUE, consent |-> TRUE, items |-> Items] >>,
               << [valid |-> TRUE, consent |-> FALSE, items |-> Items] >> }

Plain == [agent |-> {}, profile |-> {}, provider |-> {}, memorySource |-> "auto", export |-> <<>>, live |-> FALSE,
          interactive |-> FALSE, dryRun |-> FALSE, forceConfig |-> FALSE, noWriteMemory |-> FALSE, output |-> FALSE]
MCFlags == { [Plain EXCEPT !.interactive = TRUE],
             [Plain EXCEPT !.profile = {"enterprise"}, !.interactive = TRUE, !.forceConfig = TRUE],
             [Plain EXCEPT !.export = << [valid |-> TRUE, consent |-> TRUE, items |-> Items] >>, !.live = TRUE],
             [Plain EXCEPT !.profile = {"startup"}], [Plain EXCEPT !.agent = {"startup"}],
             [Plain EXCEPT !.profile = {"team"}, !.output = TRUE],
             [Plain EXCEPT !.agent = {"startup"}, !.profile = {"team"}, !.dryRun = TRUE, !.noWriteMemory = TRUE, !.memorySource = "none"] }

MCAnswers == [ mode |-> {"personal", "enterprise"}, harness |-> {"generic"}, primary_jobs |-> {TRUE},
               destructive_tools |-> {{"deploy-app"}}, high_risk_capabilities |-> {{}, {"spend_money"}},
               always_approve |-> {{"read_file"}}, provider_mode |-> {"local"},
               memory_consent |-> {{}, {"gbrain"}}, writeback_consent |-> BOOLEAN ]
MCDecisions == {defaultExecutiveDecisions, [c \in DANGEROUS_CAPABILITIES |-> "allow"]}
MCInits == [profile : {"personal", "enterprise"}, allowUnknown : {TRUE}, force : BOOLEAN]
MCOverrides == {[mode |-> "enterprise"], [classes |-> {"pii"}, enforcementMode |-> "enforce"]}
MCPhaseAnswers ==
  << {[agentTools |-> {"delete_user", "read_file", "transform"}, dataAccess |-> {"user_pii"}],
      [agentTools |-> {"delete_user"}, dataAccess |-> {}]},
     [highRiskTools : {{"delete_user"}, {"read_file", "charge.card"}}, mediumRiskTools : {{"delete_user", "data.pii.read"}},
      canSpendMoney : {TRUE}, piiHandling : BOOLEAN],
     [riskProfile : {"personal", "enterprise"}, compliance : {TRUE}, approvalWorkflow : ApprovalWorkflows],
     {[providerMode |-> "host"]} >>
=============================================================================
