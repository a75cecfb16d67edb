---------------------------- MODULE ObserveMode ----------------------------
(***************************************************************************)
(* From watching to enforcing: one-call evaluations (sdk/evaluate.ts, the  *)
(* evaluate command), the report of what would have been blocked (the      *)
(* observations command) and the promotion (the enforce command), over one *)
(* decision-core.yaml, its policy packs, the agent registry and one SQLite *)
(* decision log.  Each surface is a process of its own and reads the files *)
(* when it gets to them, while operators edit them; what runs between two  *)
(* reads, an await or a prompt is one action.                              *)
(***************************************************************************)
EXTENDS CoreConfig, Observations

CONSTANTS
  Calls,         \* evaluations, each made once
  Requests,      \* [action, roles, agent, flags]: what a call asks and claims, --persistence given
  ConfigEdits,   \* what an operator may leave in a config file
  PackEdits,     \* and in a pack: [rules, deny]
  RegistryEdits, \* and in the registry: a function from agents to their roles
  FirstConfigs,  \* what decision-core.yaml may hold at first
  FirstNamed,    \* and the file that --config names
  FirstPack,     \* and .decision-core/policy-pack.yaml
  FirstRegistry, \* and the registry
  ReadStyle,     \* the actions whose name reads as a read
  Frequent,      \* frequentThreshold, 5 in the code
  ReportLimit,   \* --limit of observations, 1000 unless given
  MaxEdits,      \* bound: how often an operator edits a file
  MaxLog         \* bound: the records of the decision log

ASSUME ObserveAssumption ==
  /\ ConfigEdits \subseteq ConfigType
  /\ FirstConfigs \cup {FirstNamed} \subseteq ConfigType \cup {Missing, Broken}
  /\ \A r \in Requests : r.flags \in BOOLEAN
  /\ {MaxEdits, MaxLog, ReportLimit} \subseteq Nat

VARIABLES
  configs,  \* "default" (decision-core.yaml) and "named" (what --config names)
  packs,    \* the pack at each place
  registry,
  decisionLog, \* in SQLite
  calls,
  promoter, \* the enforce command
  report,   \* the last report printed, with what it was due at that time
  backups,  \* configs saved under .decision-core
  edits     \* how often an operator has edited a file

observeVars == <<configs, packs, registry, decisionLog, calls, promoter, report, backups, edits>>
files == <<configs, packs, registry>>

Sources == {"default", "named", "host"}
Phases == {"idle", "started", "loaded", "judged", "answered", "failed"}

\* A call whose fields are not set yet, or read no more.
Fresh == [pc |-> "idle", named |-> FALSE, request |-> {}, settings |-> NoConfig, pack |-> {},
          tool |-> {}, observed |-> "allow", answer |-> "allow", promised |-> FALSE, stamp |-> 0]

\* The call has its answer, and observe mode hid another one behind it in the decision log.
Hidden(call) == /\ call.pc = "answered" /\ call.settings.sqlite
                /\ call.settings.mode = {"observe"} /\ call.observed # "allow"

-----------------------------------------------------------------------------
(* Operators                                                               *)

EditConfig(file, content) ==
  /\ edits < MaxEdits /\ configs[file] # content
  /\ configs' = [configs EXCEPT ![file] = content]
  /\ edits' = edits + 1
  /\ UNCHANGED <<packs, registry, decisionLog, calls, promoter, report, backups>>

EditPack(place, content) ==
  /\ edits < MaxEdits /\ packs[place] # content
  /\ packs' = [packs EXCEPT ![place] = content]
  /\ edits' = edits + 1
  /\ UNCHANGED <<configs, registry, decisionLog, calls, promoter, report, backups>>

EditRegistry(content) ==
  /\ edits < MaxEdits /\ registry # content
  /\ registry' = content
  /\ edits' = edits + 1
  /\ UNCHANGED <<configs, packs, decisionLog, calls, promoter, report, backups>>

-----------------------------------------------------------------------------
(* An evaluation                                                           *)

Fails(c) == calls' = [calls EXCEPT ![c] = [Fresh EXCEPT !.pc = "failed"]]

\* ctx.config of the command line: --config names a file that must be there.
Opened(source) ==
  CASE source = "default" -> loadCliConfig(configs["default"], packs["auto"])
    [] source = "named"   -> IF configs["named"] = Missing THEN Broken ELSE configs["named"]
    [] source = "host"    -> NoConfig

\* runCli, up to the options that evaluateCommand makes; a host calls evaluate with none.
Invoke(c, source, request) ==
  /\ calls[c].pc = "idle"
  /\ source = "host" => ~request.flags
  /\ \/ Opened(source) = Broken /\ Fails(c)
     \/ /\ Opened(source) # Broken
        /\ calls' = [calls EXCEPT ![c] =
             [ Fresh EXCEPT !.pc = "started", !.named = source = "named", !.request = {request},
                 !.settings = [Opened(source) EXCEPT !.sqlite = @ \/ request.flags,
                                                     !.path = @ \/ request.flags],
                 !.promised = promoter.said = {edits}, !.stamp = edits ]]
  /\ UNCHANGED <<files, decisionLog, promoter, report, backups, edits>>

\* evaluate, up to the awaits of seeding the guard's own repository: the working directory's
\* config, and the pack.  A file that is there and does not load fails the call.
Load(c) ==
  LET config == loadCliConfig(configs["default"], packs["auto"])
      merged == Merged(calls[c].settings, config, packs["auto"])
      Unreadable(p) == packs[p] \in {Missing, Broken} IN
  /\ calls[c].pc = "started"
  /\ \/ config = Broken /\ Fails(c)
     \/ config # Broken /\ (\E p \in merged.pack : Unreadable(p)) /\ Fails(c)
     \/ /\ config # Broken /\ \A p \in merged.pack : ~Unreadable(p)
        /\ calls' = [calls EXCEPT ![c].pc = "loaded", ![c].settings = merged,
                                  ![c].pack = {packs[p] : p \in merged.pack}]
  /\ UNCHANGED <<files, decisionLog, promoter, report, backups, edits>>

\* The verdict of the guard that the rest of createPolicyGuard makes of what was loaded.
GuardVerdict(call) ==
  LET request == CHOOSE r \in call.request : TRUE
      roles == RolesOf(call.settings.registry, registry, request)
      denyUnknown == TRUE \in call.settings.deny \cup {p.deny : p \in call.pack} IN
  evaluate(UNION {p.rules : p \in call.pack}, denyUnknown, ContextOf(request.action, roles))

\* createPolicyGuard and the guard's evaluate.
Judge(c) ==
  LET call == calls[c]
      verdict == GuardVerdict(call) IN
  /\ call.pc = "loaded"
  /\ calls' = [calls EXCEPT ![c] =
       [ call EXCEPT !.pc = "judged", !.pack = {}, !.request = {},
           !.tool = {r.action : r \in call.request},
           !.settings = [call.settings EXCEPT !.pack = {}, !.deny = {}, !.registry = FALSE],
           !.observed = verdict, !.answer = Shown(call.settings.mode, verdict) ]]
  /\ UNCHANGED <<files, decisionLog, promoter, report, backups, edits>>

\* Mutant of StatusOf: the answer is stored as it is.
StatusOf_raw(answer) == answer

\* The status of a record.
StatusOf(answer) == CASE answer = "deny" -> "blocked"
                      [] answer = "approve_required" -> "pending"
                      [] answer = "allow" -> "generated"

RecordOf(call) ==
  [ tool |-> CHOOSE t \in call.tool : TRUE, status |-> StatusOf(call.answer),
    observed |-> {call.observed},
    mode |-> IF call.settings.mode = {"observe"} THEN {"observe"} ELSE {"enforce"} ]

\* Mutant of Answer: the append is not awaited, and may be lost.
Answer_unawaited(c) ==
  LET call == calls[c] IN
  /\ call.pc = "judged"
  /\ Len(decisionLog) < MaxLog
  /\ decisionLog' \in {decisionLog, Append(decisionLog, RecordOf(call))}
  /\ calls' = [calls EXCEPT ![c].pc = "answered"]
  /\ UNCHANGED <<files, promoter, report, backups, edits>>

\* With SQLite the answer waits for its record; without a path the verdict is lost.
Answer(c) ==
  LET call == calls[c] IN
  /\ call.pc = "judged"
  /\ \/ /\ ~call.settings.sqlite
        /\ calls' = [calls EXCEPT ![c].pc = "answered"] /\ UNCHANGED decisionLog
     \/ /\ call.settings.sqlite /\ call.settings.path /\ Len(decisionLog) < MaxLog
        /\ decisionLog' = Append(decisionLog, RecordOf(call))
        /\ calls' = [calls EXCEPT ![c].pc = "answered"]
     \/ call.settings.sqlite /\ ~call.settings.path /\ Fails(c) /\ UNCHANGED decisionLog
  /\ UNCHANGED <<files, promoter, report, backups, edits>>

\* The database cannot be opened or written.
AppendFails(c) ==
  /\ calls[c].pc = "judged" /\ calls[c].settings.sqlite /\ calls[c].settings.path
  /\ Fails(c)
  /\ UNCHANGED <<files, decisionLog, promoter, report, backups, edits>>

\* A decision core over the same file (EmbeddedCore) logs a decision: its records have no mode.
HostRecords(tool, status) ==
  /\ Len(decisionLog) < MaxLog
  /\ decisionLog' = Append(decisionLog, [tool |-> tool, status |-> status, observed |-> {}, mode |-> {}])
  /\ UNCHANGED <<files, calls, promoter, report, backups, edits>>

-----------------------------------------------------------------------------
(* The observations and enforce commands                                   *)

Logs(config) == config # Broken /\ config.sqlite /\ config.path

\* Without --since, over decision-core.yaml.
ObservationsCommand ==
  LET summary == aggregateObservations(findAll(decisionLog, ReportLimit)) IN
  /\ Logs(loadCliConfig(configs["default"], packs["auto"]))
  /\ report' = { [ summary |-> summary, whole |-> Len(decisionLog) <= ReportLimit,
                   advice |-> recommendFromObservations(summary, ReadStyle, Frequent),
                   due |-> {c \in Calls : Hidden(calls[c])} ] }
  /\ UNCHANGED <<files, decisionLog, calls, promoter, backups, edits>>

\* inspectPromote and the preview; the prompt is next, unless there is nothing to do.
StartEnforce ==
  LET config == configs["default"] IN
  /\ promoter.pc = "idle" /\ config \notin {Missing, Broken}
  /\ \/ Enforces(config) /\ promoter' = [promoter EXCEPT !.said = {edits}]
     \/ /\ ~Enforces(config) /\ HasPack(config, packs["auto"])
        /\ promoter' = [promoter EXCEPT !.pc = "asking"]
  /\ UNCHANGED <<files, decisionLog, calls, report, backups, edits>>

Decline ==
  /\ promoter.pc = "asking"
  /\ promoter' = [promoter EXCEPT !.pc = "idle"]
  /\ UNCHANGED <<files, decisionLog, calls, report, backups, edits>>

\* flipToEnforce reads the file again, and again finds it missing, broken, without a pack or
\* enforcing already; or saves it and makes the text to write, which may not parse.
Flip ==
  LET config == configs["default"]
      gone == config \in {Missing, Broken}
      stays == gone \/ (~gone /\ (Enforces(config) \/ ~HasPack(config, packs["auto"]))) IN
  /\ promoter.pc = "asking"
  /\ \/ /\ stays
        /\ promoter' = [promoter EXCEPT !.pc = "idle",
                          !.said = IF ~gone /\ Enforces(config) THEN {edits} ELSE @]
        /\ UNCHANGED backups
     \/ /\ ~stays
        /\ backups' = backups \cup {config}
        /\ promoter' = IF Promoted(config) = Broken THEN [promoter EXCEPT !.pc = "idle"]
                       ELSE [promoter EXCEPT !.pc = "writing", !.text = {Promoted(config)}]
  /\ UNCHANGED <<files, decisionLog, calls, report, edits>>

\* The write, over whatever the file holds by now.
FlipWrite ==
  /\ promoter.pc = "writing"
  /\ \E text \in promoter.text : configs' = [configs EXCEPT !["default"] = text]
  /\ promoter' = [pc |-> "idle", text |-> {}, said |-> {edits}]
  /\ UNCHANGED <<packs, registry, decisionLog, calls, report, backups, edits>>

-----------------------------------------------------------------------------
ObserveInit ==
  /\ configs \in [default : FirstConfigs, named : {FirstNamed}]
  /\ packs = [auto |-> FirstPack, other |-> Missing]
  /\ registry = FirstRegistry
  /\ decisionLog = <<>>
  /\ calls = [c \in Calls |-> Fresh]
  /\ promoter = [pc |-> "idle", text |-> {}, said |-> {}]
  /\ report = {} /\ backups = {} /\ edits = 0

Edit ==
  \/ \E file \in {"default", "named"}, content \in ConfigEdits \cup {Missing, Broken} :
       EditConfig(file, content)
  \/ \E content \in PackEdits \cup {Missing, Broken} : EditPack("auto", content)
  \/ \E content \in RegistryEdits \cup {Missing, Broken} : EditRegistry(content)

CallStep(c) ==
  \/ \E source \in Sources, request \in Requests : Invoke(c, source, request)
  \/ Load(c) \/ Judge(c) \/ Answer(c) \/ AppendFails(c)

Tools == {r.action : r \in Requests}

ObserveNext ==
  \/ Edit
  \/ \E c \in Calls : CallStep(c)
  \/ \E tool \in Tools, status \in {"blocked"} : HostRecords(tool, status)
  \/ ObservationsCommand \/ StartEnforce \/ Decline \/ Flip \/ FlipWrite

ObserveSpec == ObserveInit /\ [][ObserveNext]_observeVars

-----------------------------------------------------------------------------
(* Properties                                                              *)

CallType ==
  [ pc : Phases, named : BOOLEAN, request : Optional(Requests), settings : ConfigType,
    pack : SUBSET (PackEdits \cup {FirstPack}), tool : Optional(Tools), observed : VerdictResults,
    answer : VerdictResults, promised : BOOLEAN, stamp : 0 .. MaxEdits ]

ObserveTypeOK ==
  /\ configs \in [{"default", "named"} -> ConfigType \cup {Missing, Broken}]
  /\ packs \in [Places -> PackEdits \cup {FirstPack, Missing, Broken}]
  /\ registry \in RegistryEdits \cup {FirstRegistry, Missing, Broken}
  /\ decisionLog \in Seq(RecordType(Tools)) /\ Len(decisionLog) <= MaxLog
  /\ calls \in [Calls -> CallType]
  /\ promoter \in [pc : {"idle", "asking", "writing"}, text : SUBSET ConfigType,
                   said : Optional(0 .. MaxEdits)]
  /\ Cardinality(report) <= 1 /\ backups \subseteq ConfigType /\ edits \in 0 .. MaxEdits

\* Once the enforce command has said that enforcement is on, and while nobody edits a file, what a
\* call gets is what the policy says, whatever was read when, and by whom, before and after the
\* switch (evaluate's two reads of the config, and flipToEnforce's write over a read of its own).
PromotedForGood ==
  \A c \in Calls :
    /\ calls[c].pc = "answered" /\ ~calls[c].named
    /\ calls[c].promised /\ calls[c].stamp = edits
    => calls[c].answer = calls[c].observed

\* A report that had room for the whole log counts, by tool and verdict, every call that got its
\* answer with a denial or an approval hidden behind it: the operator who promotes on the strength
\* of it has seen what will be blocked.
ReportsCoverCalls ==
  \A r \in report :
    r.whole =>
      \A key \in {<<t, {v}>> : t \in Tools, v \in {"deny", "approve_required"}} :
        LET due == {c \in r.due : /\ calls[c].tool = {key[1]}
                                  /\ {calls[c].observed} = key[2]} IN
        due # {} => /\ key \in DOMAIN r.summary.groups
                    /\ r.summary.groups[key] >= Cardinality(due)
=============================================================================
