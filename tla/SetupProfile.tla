---------------------------- MODULE SetupProfile ----------------------------
(***************************************************************************)
(* The onboarding profile (src/src/contracts/onboarding-profile.contracts, *)
(* src/src/onboarding): the draft that detection and imported memory make  *)
(* of it, the interview, and the defaults of its mode.  The name of a tool *)
(* is the action the agent will ask for; of a name the code reads only its *)
(* first word, what separates it from the rest, and the words within it.   *)
(***************************************************************************)
EXTENDS Naturals, Sequences, FiniteSetsExt

CONSTANTS Actions,    \* the actions an agent may ask for, tools among them
          FirstWord,  \* the word an action begins with
          Separator,  \* what follows it: "_", "-", ".", or "none"
          Words,      \* the words of the classifier within an action's name
          Nested,     \* the actions with a dot in what follows the separator: no `*` matches it
          Sanitized,  \* an action's name as the pack has it: only letters, digits, ".", "_" and "-"
          Misnomers   \* what may be given for a mode, a harness or a provider and names none

Modes == {"personal", "team", "business", "enterprise"}
Postures == {"locked_down", "guided", "balanced", "high_autonomy"}
DefaultActions == {"allow", "ask", "block"}
Providers == {"host", "disabled", "direct", "local"}
Harnesses == {"openclaw", "hermes", "generic", "standalone", "unknown"}
DANGEROUS_CAPABILITIES == {"delete_data", "move_money", "deploy", "external_contact", "credentials"}
Powers == {"spend_money", "delete_data", "contact_people", "publish_content", "deploy_code",
           "access_sensitive_data"}
DATA_CLASSES == {"public", "internal", "confidential", "restricted", "pii", "financial",
                 "credentials", "health", "legal"}

ASSUME SetupProfileAssumption ==
  /\ FirstWord \in [Actions -> STRING] /\ Words \in [Actions -> SUBSET STRING]
  /\ Separator \in [Actions -> {"_", "-", ".", "none"}]
  /\ Nested \subseteq Actions /\ Sanitized \in [Actions -> Actions]
  /\ Misnomers \cap (Modes \cup Harnesses \cup Providers) = {}

ProfileTools == [name : Actions, riskTier : 0 .. 4, powers : SUBSET Powers, defaultAction : DefaultActions]

\* Memory sources are the sets of those listed, detected, and consented to.
ProfilesOf(kinds) ==
  [ mode : Modes, harness : Harnesses \cup Misnomers, detectedTools : SUBSET Actions, jobs : BOOLEAN,
    posture : Postures, defaultAction : DefaultActions, enforcementMode : {"enforce", "observe"},
    executiveDecisions : [DANGEROUS_CAPABILITIES -> DefaultActions],
    alwaysRequireApproval : SUBSET Actions, provider : Providers \cup Misnomers,
    listed : SUBSET kinds, detected : SUBSET kinds, read : SUBSET kinds, writeBack : SUBSET kinds,
    classes : SUBSET DATA_CLASSES, tools : SUBSET ProfileTools, evidenceImported : BOOLEAN ]

defaultExecutiveDecisions ==
  [c \in DANGEROUS_CAPABILITIES |-> IF c \in {"deploy", "external_contact"} THEN "ask" ELSE "block"]

createEmptyProfile ==
  [ mode |-> "personal", harness |-> "unknown", detectedTools |-> {}, jobs |-> FALSE,
    posture |-> "guided", defaultAction |-> "ask", enforcementMode |-> "observe",
    executiveDecisions |-> defaultExecutiveDecisions, alwaysRequireApproval |-> {},
    provider |-> "disabled", listed |-> {}, detected |-> {}, read |-> {}, writeBack |-> {},
    classes |-> {}, tools |-> {}, evidenceImported |-> FALSE ]

ProfileFields == DOMAIN createEmptyProfile

-----------------------------------------------------------------------------
(* Tools                                                                   *)

HIGH_RISK_PATTERNS == {"delete", "drop", "rm", "destroy", "purge", "admin", "sudo", "deploy",
                       "payment", "transfer", "billing", "refund"}
MEDIUM_RISK_PATTERNS == {"write", "create", "update", "edit", "send", "contact", "publish", "post",
                         "upload", "execute", "run", "invoke"}
LOW_RISK_PATTERNS == {"read", "list", "get", "fetch", "search", "query", "view", "describe",
                      "count", "status", "check", "ping"}

Holds(name, words) == Words[name] \cap words # {}

classify(name) ==
  CASE Holds(name, HIGH_RISK_PATTERNS) -> <<4, "block">>
    [] ~Holds(name, HIGH_RISK_PATTERNS) /\ Holds(name, MEDIUM_RISK_PATTERNS) -> <<2, "ask">>
    [] ~Holds(name, HIGH_RISK_PATTERNS \cup MEDIUM_RISK_PATTERNS) /\ Holds(name, LOW_RISK_PATTERNS) -> <<1, "allow">>
    [] OTHER -> <<3, "ask">>

\* The words behind each power; that deploy stands for money is the code's slice.
PowerWords ==
  [ spend_money |-> {"deploy", "payment", "transfer", "billing", "refund"},
    delete_data |-> {"delete", "drop", "rm", "destroy", "purge"},
    contact_people |-> {"send", "contact"}, publish_content |-> {"publish", "post"},
    deploy_code |-> {"deploy"}, access_sensitive_data |-> {} ]

candidatesToProfileTools(names) ==
  { [name |-> n, riskTier |-> classify(n)[1], defaultAction |-> classify(n)[2],
     powers |-> {p \in Powers : Holds(n, PowerWords[p])}] : n \in names }

-----------------------------------------------------------------------------
(* Imported memory: items with a confidence, words and a suggested mode     *)

MODE_SIGNALS == << <<"enterprise", "enterprise">>, <<"compliance", "enterprise">>,
                   <<"company", "business">>, <<"team", "team">>, <<"solo", "personal">> >>
POSTURE_SIGNALS == << <<"no autonomy", "locked_down">>, <<"supervised", "guided">>,
                      <<"moderate", "balanced">>, <<"autonomous", "high_autonomy">> >>
DATA_CLASS_SIGNALS == << <<"gdpr", "pii">>, <<"revenue", "financial">>, <<"api key", "credentials">>,
                         <<"medical", "health">>, <<"contract", "legal">>, <<"proprietary", "confidential">>,
                         <<"internal", "internal">>, <<"restricted", "restricted">> >>

Keywords == {"manages"} \cup UNION {{signals[i][1] : i \in DOMAIN signals} :
               signals \in {MODE_SIGNALS, POSTURE_SIGNALS, DATA_CLASS_SIGNALS}}

\* An export: whether it parses, its consent to be read, and its items; a patch may name any mode.
ExportType ==
  [ valid : BOOLEAN, consent : BOOLEAN,
    items : Seq([confidence : Nat, patch : SUBSET (Modes \cup Misnomers), says : SUBSET Keywords]) ]

\* The places of the keywords a text holds; the first of them decides.
Held(says, signals) == {i \in DOMAIN signals : signals[i][1] \in says}
searchKeywords(says, signals) ==
  {signals[i][2] : i \in {i \in Held(says, signals) : \A j \in Held(says, signals) : i =< j}}

\* The ballots of an item, in their order: for the mode it suggests, and for what it says.
Ballots(at, turn, values, weight) ==
  {[place |-> <<at[1], at[2], turn>>, value |-> v, weight |-> weight] : v \in values}

Precedes(a, b) == \/ a[1] < b[1]
                  \/ a[1] = b[1] /\ a[2] < b[2]
                  \/ a[1] = b[1] /\ a[2] = b[2] /\ a[3] =< b[3]

\* The value of the most weight; of two the one that was voted for first.
Weight(votes, v) == MapThenSumSet(LAMBDA b : b.weight, {b \in votes : b.value = v})
Earlier(votes, v, w) == \E a \in votes : a.value = v /\ \A b \in votes : b.value = w => Precedes(a.place, b.place)
Winner(votes) ==
  LET candidates == {b.value : b \in votes} IN
  {v \in candidates : \A w \in candidates :
     Weight(votes, w) < Weight(votes, v) \/ (Weight(votes, w) = Weight(votes, v) /\ Earlier(votes, v, w))}

\* An export that is not valid, or whose consent to read is not granted, is not imported.
importMemoryEvidence(exports) == {e \in DOMAIN exports : exports[e].valid /\ exports[e].consent}

\* A suggested mode weighs twice what a keyword does.
inferProfileFromEvidence(exports) ==
  LET places == UNION {{<<e, i>> : i \in DOMAIN exports[e].items} : e \in importMemoryEvidence(exports)}
      item(at) == exports[at[1]].items[at[2]]
  IN [ mode |-> Winner(UNION {Ballots(at, 1, item(at).patch, 2 * item(at).confidence)
                              \cup Ballots(at, 2, searchKeywords(item(at).says, MODE_SIGNALS), item(at).confidence) :
                                at \in places}),
       posture |-> Winner(UNION {Ballots(at, 1, searchKeywords(item(at).says, POSTURE_SIGNALS), item(at).confidence) :
                                   at \in places}),
       classes |-> {DATA_CLASS_SIGNALS[i][2] : i \in UNION {Held(item(at).says, DATA_CLASS_SIGNALS) : at \in places}},
       jobs |-> \E at \in places : "manages" \in item(at).says ]

OneOf(values, default) == IF values = {} THEN default ELSE CHOOSE v \in values : TRUE

\* Only what is still at its default is replaced.
applyInferenceToProfile(p, inference) ==
  [p EXCEPT !.mode = IF @ = "personal" THEN OneOf(inference.mode, @) ELSE @,
            !.posture = IF @ = "guided" THEN OneOf(inference.posture, @) ELSE @,
            !.jobs = @ \/ inference.jobs,
            !.classes = IF @ = {} THEN inference.classes ELSE @]

Imported(p, exports) ==
  IF importMemoryEvidence(exports) = {} THEN p
  ELSE [applyInferenceToProfile(p, inferProfileFromEvidence(exports)) EXCEPT !.evidenceImported = TRUE]

-----------------------------------------------------------------------------
(* The interview                                                           *)

ALL_QUESTIONS == <<"mode", "harness", "primary_jobs", "destructive_tools", "high_risk_capabilities",
                   "always_approve", "provider_mode", "memory_consent", "writeback_consent">>

Asked(q, p) ==
  CASE q = "harness" -> p.harness = "unknown"
    [] q = "primary_jobs" -> ~p.jobs
    [] q \in {"destructive_tools", "high_risk_capabilities"} -> p.tools = {}
    [] q = "always_approve" -> p.alwaysRequireApproval = {}
    [] q = "provider_mode" -> p.provider = "disabled" /\ p.harness # "unknown"
    [] q = "memory_consent" -> p.detected \ p.read # {}
    [] OTHER -> TRUE

\* The places of the questions to ask.
planInterview(p) == {i \in DOMAIN ALL_QUESTIONS : Asked(ALL_QUESTIONS[i], p)}

Empowered_raising(tool, caps) == [tool EXCEPT !.powers = @ \cup caps, !.riskTier = @ + 2]
\* The capabilities are given to every tool of the answer before.
Empowered(tool, caps) ==
  LET powers == tool.powers \cup (caps \cap Powers)
      risky == {"spend_money", "delete_data", "deploy_code"}
  IN IF caps \cap risky # {} /\ powers \cap risky # {}
     THEN [tool EXCEPT !.powers = powers, !.riskTier = 4, !.defaultAction = "block"]
     ELSE [tool EXCEPT !.powers = powers]

Destructive(name) == [name |-> name, riskTier |-> 3, powers |-> {"delete_data"}, defaultAction |-> "ask"]

WriteBack(p, granted) == [p EXCEPT !.writeBack = IF granted THEN p.read ELSE {}]

applyAnswer(p, q, value) ==
  CASE q = "mode" -> [p EXCEPT !.mode = value]
    [] q = "harness" -> [p EXCEPT !.harness = value]
    [] q = "primary_jobs" -> [p EXCEPT !.jobs = value]
    [] q = "destructive_tools" -> [p EXCEPT !.tools = {Destructive(n) : n \in value}]
    [] q = "high_risk_capabilities" -> [p EXCEPT !.tools = {Empowered(t, value) : t \in @}]
    [] q = "always_approve" -> [p EXCEPT !.alwaysRequireApproval = value]
    [] q = "provider_mode" -> [p EXCEPT !.provider = value]
    [] q = "memory_consent" -> [p EXCEPT !.read = value \cap p.listed]
    [] q = "writeback_consent" -> WriteBack(p, value)

MODE_DEFAULTS ==
  [ personal |-> [posture |-> "guided", action |-> "ask", provider |-> "disabled", enforcement |-> "observe"],
    team |-> [posture |-> "balanced", action |-> "ask", provider |-> "host", enforcement |-> "observe"],
    business |-> [posture |-> "guided", action |-> "ask", provider |-> "host", enforcement |-> "observe"],
    enterprise |-> [posture |-> "locked_down", action |-> "block", provider |-> "host", enforcement |-> "enforce"] ]

\* A mode of another name has no defaults: to take one of them fails.
HasDefaults(p) ==
  \/ p.mode \in Modes
  \/ p.posture # "guided" /\ p.defaultAction # "ask" /\ p.enforcementMode # "observe" /\ p.provider # "disabled"

\* Only what is at the default of an empty profile takes the default of the mode.
applyModeDefaults(p) ==
  LET d == MODE_DEFAULTS[p.mode] IN
  [p EXCEPT !.posture = IF @ = "guided" THEN d.posture ELSE @,
            !.defaultAction = IF @ = "ask" THEN d.action ELSE @,
            !.enforcementMode = IF @ = "observe" THEN d.enforcement ELSE @,
            !.provider = IF @ = "disabled" THEN d.provider ELSE @]
=============================================================================
