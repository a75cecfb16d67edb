------------------------------- MODULE Setup --------------------------------
(***************************************************************************)
(* Onboarding (src/src/surfaces/cli/commands/setup.ts, enforce.ts, init.ts,*)
(* src/src/skills/onboarding): commands that draft a profile, interview    *)
(* the operator, write the files, back up what they replace, and turn      *)
(* enforcement on; and the tools of the MCP server, which keep one profile *)
(* and the session of an interview in memory.  One command runs at a time; *)
(* it can be killed between any two writes.                                *)
(***************************************************************************)
EXTENDS OnboardingService, AgentEnvironment

CONSTANTS
  Projects,    \* projects that setup may find
  Exports,     \* the memory exports given at once: whether each is valid, consented to, its items
  Flags,       \* command lines of setup
  Answers,     \* what may be answered to each question
  Decisions,   \* executive decisions
  Inits,       \* command lines of init
  Overrides,   \* fields given to dc_setup_generate
  MaxWork      \* bound of the work: a call of a tool counts one, a command three

\* The flags of setup; neither --agent nor --profile nor --provider is checked.  --output
\* names another directory than .decision-core, and one that is not below it.
FlagsType ==
  [ agent : SUBSET (Harnesses \cup Misnomers), profile : SUBSET (Modes \cup Misnomers),
    provider : SUBSET (Providers \cup Misnomers), export : Seq(ExportType),
    memorySource : MemoryKinds \cup {"none", "auto", "hermes", "generic-export"} \cup Misnomers,
    live : BOOLEAN, interactive : BOOLEAN, dryRun : BOOLEAN, forceConfig : BOOLEAN, noWriteMemory : BOOLEAN,
    output : BOOLEAN ]

ASSUME SetupAssumption ==
  /\ Projects \subseteq ProjectOf(Actions) /\ Decisions \subseteq [DANGEROUS_CAPABILITIES -> DefaultActions]
  /\ Exports \subseteq Seq(ExportType) /\ \A f \in Flags : f \in FlagsType
  /\ Inits \subseteq [profile : Modes, allowUnknown : BOOLEAN, force : BOOLEAN]
  /\ Answers.mode \subseteq Modes /\ Answers.harness \subseteq Harnesses /\ Answers.provider_mode \subseteq Providers
  /\ Answers.primary_jobs \cup Answers.writeback_consent \subseteq BOOLEAN
  /\ Answers.destructive_tools \cup Answers.always_approve \subseteq SUBSET Actions
  /\ MaxWork \in Nat

VARIABLES
  files,       \* in each directory the generated files but the pack: path -> content
  policyPack,  \* in each directory policy-pack.yaml
  config,      \* decision-core.yaml
  copies,      \* what the backups hold
  run,         \* the command that runs
  summary,     \* in each directory the profile of onboarding-summary.md, as a set of at most one
  active,      \* the profile of the MCP server, as a set of at most one
  work         \* the work done so far

disk == <<files, policyPack, config, copies, summary>>
setupVars == <<disk, run, active, session, work>>

\* .decision-core, and the directory that --output names.
Directories == {"own", "elsewhere"}

NoPack == Pack("none", {}, FALSE)
NoConfig == [enforcementMode |-> "none", persistent |-> FALSE]
NoRun == [at |-> "idle", flags |-> {}, profile |-> createEmptyProfile, plan |-> {}, left |-> <<>>]

-----------------------------------------------------------------------------
(* setup: up to its first write                                            *)

\* --agent, --profile and --provider override what was detected; a known harness has a provider.
Drafted(project, found, f) ==
  LET harness == OneOf(f.agent, detectHarness(project.markers)) IN
  [createEmptyProfile EXCEPT
     !.harness = harness, !.detectedTools = found, !.tools = candidatesToProfileTools(found),
     !.listed = filterMemorySources(f.memorySource),
     !.detected = detectMemorySources(project.markers) \cap filterMemorySources(f.memorySource),
     !.mode = OneOf(f.profile, "personal"),
     !.provider = IF f.provider # {} THEN OneOf(f.provider, @)
                  ELSE IF harness \in {"openclaw", "hermes"} THEN "host"
                  ELSE suggestedMode(project.markers)]

setupCommand(project, f) ==
  /\ run.at = "idle" /\ work + 3 =< MaxWork
  /\ \E answering \in SUBSET project.servers :
       LET found == detectToolsFromManifests(project)
                      \cup IF f.live THEN discoverLiveTools(project, FALSE, answering) ELSE {}
           p == Imported(Drafted(project, found, f), f.export)
           draft == applyModeDefaults(p)
       IN run' = IF ~HasDefaults(p) THEN NoRun
                 ELSE [at |-> IF f.interactive THEN "asking" ELSE "confirmed", flags |-> {f}, profile |-> draft,
                       plan |-> IF f.interactive THEN planInterview(draft) ELSE {}, left |-> <<>>]
  /\ work' = work + 3
  /\ UNCHANGED <<disk, active, session>>

\* The questions of the plan, one after the other; the plan is not made again.
askSetupQuestion ==
  /\ run.at = "asking"
  /\ \E i \in run.plan : \E value \in Answers[ALL_QUESTIONS[i]] :
       /\ \A j \in run.plan : i =< j
       /\ run' = [run EXCEPT !.profile = applyAnswer(@, ALL_QUESTIONS[i], value), !.plan = @ \ {i}]
  /\ UNCHANGED <<disk, active, session, work>>

Decided(p, decisions) == applyModeDefaults([p EXCEPT !.executiveDecisions = decisions])

DecidePowers ==
  /\ run.at = "asking" /\ run.plan = {}
  /\ \E decisions \in Decisions :
       run' = [run EXCEPT !.at = "confirmed", !.profile = Decided(@, decisions)]
  /\ UNCHANGED <<disk, active, session, work>>

-----------------------------------------------------------------------------
(* setup: the files                                                        *)

Flag(name) == \E f \in run.flags : f[name]

\* Where the run writes.
Here == IF Flag("output") THEN "elsewhere" ELSE "own"

Exists_both == policyPack[Here] # NoPack /\ config # NoConfig
Exists == policyPack[Here] # NoPack \/ config # NoConfig
Saved(p, c) == copies \cup {[pack |-> p, config |-> c]}

\* A backup copies what is below .decision-core, and the root configuration.
Copied == IF Here = "own" THEN policyPack["own"] ELSE NoPack

\* What the run is to write; it ends here if there is nothing, or on a dry run.
Admitted ==
  /\ generateArtifacts(run.profile) # <<>> /\ validateGeneratedArtifacts(generateArtifacts(run.profile))
  /\ ~Flag("dryRun")

Generate ==
  /\ run.at = "confirmed"
  /\ run' = IF Admitted THEN [run EXCEPT !.at = "writing", !.left = generateArtifacts(run.profile)] ELSE NoRun
  /\ copies' = IF Admitted /\ Exists THEN Saved(Copied, config) ELSE copies
  /\ UNCHANGED <<files, policyPack, config, summary, active, session, work>>

\* One file after the other; what an earlier run wrote and this one does not, stays.
WriteArtifact ==
  /\ run.at = "writing" /\ run.left # <<>>
  /\ LET file == Head(run.left) IN
       IF file.path = "pack" THEN policyPack' = [policyPack EXCEPT ![Here] = file.content] /\ UNCHANGED files
       ELSE /\ files' = [files EXCEPT ![Here] = [path \in DOMAIN @ \cup {file.path} |->
                                                  IF path = file.path THEN file.content ELSE @[path]]]
            /\ UNCHANGED policyPack
  /\ run' = [run EXCEPT !.left = Tail(@)]
  /\ UNCHANGED <<config, copies, summary, active, session, work>>

\* An existing configuration is kept without --force-config.
RootConfig(sqlite) ==
  IF config = NoConfig \/ Flag("forceConfig") THEN generateRootConfigYaml(run.profile, sqlite) ELSE config

WriteRootConfig ==
  /\ run.at = "writing" /\ run.left = <<>>
  /\ \E sqlite \in BOOLEAN : config' = RootConfig(sqlite)
  /\ run' = [run EXCEPT !.at = "written"]
  /\ UNCHANGED <<files, policyPack, copies, summary, active, session, work>>

writeOnboardingSummary ==
  summary' = IF run.profile.writeBack # {} THEN [summary EXCEPT ![Here] = {run.profile}] ELSE summary

\* The summary, and the announcement of the mode of the profile.
Announce ==
  /\ run.at = "written"
  /\ IF Flag("noWriteMemory") THEN UNCHANGED summary ELSE writeOnboardingSummary
  /\ run' = NoRun
  /\ UNCHANGED <<files, policyPack, config, copies, active, session, work>>

-----------------------------------------------------------------------------
(* enforce and init                                                        *)

\* flipToEnforce: the backup holds the configuration; a confirmation and a pack are needed.
enforceCommand ==
  /\ run.at = "idle" /\ work + 3 =< MaxWork /\ config.enforcementMode = "observe"
  /\ run' = [NoRun EXCEPT !.at = "enforcing"]
  /\ copies' = Saved(NoPack, config)
  /\ work' = work + 3
  /\ UNCHANGED <<files, policyPack, config, summary, active, session>>

flipToEnforce ==
  /\ run.at = "enforcing"
  /\ config' = [config EXCEPT !.enforcementMode = "enforce"]
  /\ run' = NoRun
  /\ UNCHANGED <<files, policyPack, copies, summary, active, session, work>>

\* Without --force nothing is backed up, and only the configuration is protected.
initCommand(i) ==
  /\ run.at = "idle" /\ work + 3 =< MaxWork
  /\ config = NoConfig \/ i.force
  /\ run' = [NoRun EXCEPT !.at = "starting", !.flags = {i}]
  /\ copies' = IF i.force THEN Saved(policyPack["own"], config) ELSE copies
  /\ work' = work + 3
  /\ UNCHANGED <<files, policyPack, config, summary, active, session>>

WriteStarterPack ==
  /\ run.at = "starting"
  /\ \E i \in run.flags :
       policyPack' = [policyPack EXCEPT !["own"] = Pack("init", generateStarterRules(i.profile), ~i.allowUnknown)]
  /\ run' = [run EXCEPT !.at = "started"]
  /\ UNCHANGED <<files, config, copies, summary, active, session, work>>

\* init names no enforcement mode, which is to enforce, and keeps the decision log in memory.
WriteStarterConfig ==
  /\ run.at = "started"
  /\ config' = [enforcementMode |-> "enforce", persistent |-> FALSE]
  /\ run' = NoRun
  /\ UNCHANGED <<files, policyPack, copies, summary, active, session, work>>

Crash ==
  /\ run.at # "idle"
  /\ run' = NoRun
  /\ UNCHANGED <<disk, active, session, work>>

-----------------------------------------------------------------------------
(* The setup tools of the MCP server                                       *)

Calls ==
  /\ run.at = "idle" /\ work < MaxWork
  /\ work' = work + 1
  /\ UNCHANGED <<disk, run>>

Call(new) == Calls /\ active' = {new} /\ UNCHANGED session

\* The tools that are detected are listed, but not made tools of the profile.
dc_setup_detect(project) ==
  Call([profile |-> [createEmptyProfile EXCEPT
                       !.harness = detectHarness(project.markers),
                       !.detectedTools = detectToolsFromManifests(project), !.listed = MemoryKinds,
                       !.detected = detectMemorySources(project.markers)], activated |-> FALSE])

\* The profile is replaced before the defaults of its mode are looked up.
dc_setup_infer(exports, modes) == \E a \in active :
  LET p == [Imported(a.profile, exports) EXCEPT !.evidenceImported = importMemoryEvidence(exports) # {},
                                                !.mode = OneOf(modes, @)]
  IN Call([a EXCEPT !.profile = IF HasDefaults(p) THEN applyModeDefaults(p) ELSE p])

\* The fields given replace those of the profile; no default of the mode is applied to them.
dc_setup_generate(over) == \E a \in active :
  Call([a EXCEPT !.profile = [x \in DOMAIN a.profile |-> IF x \in DOMAIN over THEN over[x] ELSE a.profile[x]]])

dc_setup_activate(verify) == \E a \in active :
  /\ verify => policyPack["own"] # NoPack /\ config # NoConfig
  /\ Call([a EXCEPT !.activated = TRUE])

-----------------------------------------------------------------------------
SetupInit ==
  /\ files = [d \in Directories |-> <<>>] /\ policyPack = [d \in Directories |-> NoPack]
  /\ summary = [d \in Directories |-> {}] /\ config = NoConfig /\ copies = {}
  /\ run = NoRun /\ active = {} /\ session = {} /\ work = 0

SetupCommands ==
  \/ \E project \in Projects, f \in Flags : setupCommand(project, f)
  \/ askSetupQuestion \/ DecidePowers \/ Generate \/ WriteArtifact \/ WriteRootConfig \/ Announce
  \/ enforceCommand \/ flipToEnforce
  \/ (\E i \in Inits : initCommand(i)) \/ WriteStarterPack \/ WriteStarterConfig
  \/ Crash

Tools ==
  \/ \E project \in Projects : dc_setup_detect(project)
  \/ \E exports \in Exports, modes \in {{}} \cup {{m} : m \in Modes \cup Misnomers} : dc_setup_infer(exports, modes)
  \/ \E over \in Overrides : dc_setup_generate(over)
  \/ \E verify \in BOOLEAN : dc_setup_activate(verify)
  \/ Calls /\ (startOnboarding \/ AnswerPhase) /\ UNCHANGED active

SetupNext == SetupCommands \/ Tools

SetupSpec == SetupInit /\ [][SetupNext]_setupVars

-----------------------------------------------------------------------------
(* What an action meets with the files on disk                             *)

ContextOf(a) == [action |-> a, point |-> "pre_decision", roles |-> {}, impact |-> {}, quality |-> {},
                 confidence |-> {}, time |-> 0]
VerdictOnDisk(a) == evaluate(policyPack[Here].rules, policyPack[Here].denyUnknown, ContextOf(a))

Strictness == [allow |-> 0, approve_required |-> 1, deny |-> 2]
AtLeast(verdict, other) == Strictness[verdict] >= Strictness[other]

\* A run that has written its files and not yet ended.
Written == run.at = "written"
Clauses(path) == IF path \in files[Here]["manifest"] THEN files[Here][path] ELSE {}

\* Every part of the state has its shape.
SetupTypeOK ==
  /\ \A d \in Directories :
       /\ DOMAIN files[d] \subseteq Paths \ {"pack"}
       /\ policyPack[d].by \in {"none", "setup", "init"} /\ policyPack[d].denyUnknown \in BOOLEAN
       /\ policyPack[d].rules \subseteq RuleOf(Actions, {}, {})
  /\ config \in [enforcementMode : {"none", "enforce", "observe"}, persistent : BOOLEAN]
  /\ run.at \in {"idle", "asking", "confirmed", "writing", "written", "enforcing", "starting", "started"}
  /\ run.profile \in ProfilesOf(MemoryKinds) /\ run.profile.read \cup run.profile.writeBack \subseteq run.profile.listed
  /\ \A a \in active : DOMAIN a.profile = ProfileFields /\ a.activated \in BOOLEAN
  /\ SessionOK
  /\ work \in 0 .. MaxWork

\* The pack that a setup leaves is at least as strict as what it tells the operator: the
\* clause of each tool (under the name the pack has for it: an action that asks under a name
\* that is not sanitized meets no rule of the tool's), the scenario of each tool, and each
\* executive decision of the report.
\* It may be stricter than a decision, also than one that allows: the strictest rule wins,
\* whatever the priorities (generate-artifacts.ts:540-541 has the decision win over the tiers).
AsStrictAsDocumented ==
  Written => \A a \in Actions :
    /\ \A c \in Clauses("tools") : c.about = a => AtLeast(VerdictOnDisk(Sanitized[a]), c.decision)
    /\ \A s \in files[Here]["scenarios"] : s[1] = a => AtLeast(VerdictOnDisk(a), s[2])
    /\ \A c \in DANGEROUS_CAPABILITIES : a \in execPatterns(c) =>
         AtLeast(VerdictOnDisk(a), toPolicyDecision(files[Here]["report"].executiveDecisions[c]))

\* setup, enforce and init --force replace no configuration, and no pack in .decision-core, that
\* no backup holds (src/src/surfaces/cli/backup-utils.ts, "before overwriting").
OverwrittenWasSaved ==
  [][ LET own == policyPack["own"] IN
      /\ policyPack'["own"] # own /\ own # NoPack /\ (run.at = "starting" => Flag("force"))
        => \E b \in copies : b.pack = own
      /\ config' # config /\ config # NoConfig => \E b \in copies : b.config = config ]_setupVars

=============================================================================
