---------------------------- MODULE PolicyAuthor ----------------------------
(***************************************************************************)
(* The policy authoring skill (src/src/skills/policy-author) and the       *)
(* author command: statements in natural language become candidate rules,  *)
(* a reviewer accepts, rejects or rewrites them, and a commit writes the   *)
(* accepted ones as the rules of a pack, which an operator may then        *)
(* enable.  A statement is what the patterns see of it: the phrases it     *)
(* says, the tools it names, a number, and how long it is.                 *)
(***************************************************************************)
EXTENDS PolicyRules, Sequences

CONSTANTS ActionTypes,   \* the action types that the rules are about
          Undotted,      \* those of them whose names have no dot: what the pattern '*' matches
          KNOWN_TOOLS,   \* a sequence of sets of actions: the patterns of the keywords, in order
          Texts,         \* the requests: sequences of statements
          Documents,     \* the documents: sequences of lines
          Rewrites,      \* the entries a reviewer may write in place of a candidate's
          AuthorRoles,   \* the roles that such an entry may name
          MaxSessions    \* bound: the sessions of one process

VARIABLES sessions,  \* the authoring sessions, in the order of their creation
          authored   \* the entries of authored-policies.yaml

authorVars == <<sessions, authored>>

-----------------------------------------------------------------------------
(* Statements and the rule each one becomes *)

Denials == {"never", "do not", "prohibited"}
ApprovalPhrases == {"needs approval", "must be approved"}
Phrases == Denials \cup ApprovalPhrases \cup {"more than", "only can", "per day", "business hours", "must"}

Statements == [says : SUBSET Phrases, names : SUBSET DOMAIN KNOWN_TOOLS, number : SUBSET Nat,
               money : BOOLEAN, size : Nat]

\* The phrases that trigger a pattern, in the order the patterns are tried.
RULE_PATTERNS == << <<"deny", Denials>>,
                    <<"approve_required", ApprovalPhrases>>,
                    <<"threshold", {"more than"}>>,
                    <<"role_based", {"only can"}>>,
                    <<"rate_limit", {"per day"}>>,
                    <<"time_window", {"business hours"}>> >>

\* The first keyword of the list decides; without one the pattern is '*', a single segment.
extractToolPattern(st) ==
  IF st.names = {} THEN Undotted ELSE KNOWN_TOOLS[CHOOSE i \in st.names : \A j \in st.names : i =< j]

\* A rule of the generated YAML as the policy decision point reads it: no generated rule has
\* roles, a window or a default verdict, and a limit on a count is never evaluated.
generate(kind, st) ==
  [ actions |-> extractToolPattern(st),
    point |-> IF kind = "rate_limit" THEN "action_dispatch" ELSE "pre_decision",
    roles |-> {}, all |-> FALSE,
    maxAmount |-> IF kind = "threshold" /\ st.money THEN st.number ELSE {},
    minQuality |-> {}, minConfidence |-> {}, window |-> {},
    approval |-> kind \in {"approve_required", "threshold", "time_window"},
    default |-> "allow" ]

\* Whether a statement is too vague for a rule.
Vague(kind, st) ==
  /\ st.names = {}
  /\ \/ kind \in {"deny", "approve_required"}
     \/ kind = "threshold" /\ st.number = {}

Entry(rule, enabled) == [rule |-> rule, enabled |-> enabled]
PolicyEntries == [rule : RuleOf(ActionTypes, AuthorRoles, Nat), enabled : BOOLEAN]
generateYaml(rule) == {Entry(rule, FALSE)}

buildCandidateRule(kind, st) ==
  [ type |-> kind, source |-> st, yaml |-> generateYaml(generate(kind, st)),
    status |-> IF Vague(kind, st) THEN "needs_human_policy_authoring" ELSE "draft" ]

\* A comment in place of a rule.
buildAmbiguousRule(st) ==
  [type |-> "unknown", source |-> st, yaml |-> {}, status |-> "needs_human_policy_authoring"]

CandidateRules ==
  [ type : {RULE_PATTERNS[i][1] : i \in DOMAIN RULE_PATTERNS} \cup {"unknown"}, source : Statements,
    yaml : SUBSET PolicyEntries, status : {"draft", "accepted", "rejected", "needs_human_policy_authoring"} ]

Matching(st) == {i \in DOMAIN RULE_PATTERNS : RULE_PATTERNS[i][2] \cap st.says # {}}

First_last(ids) == CHOOSE i \in ids : \A j \in ids : j =< i
First(ids) == CHOOSE i \in ids : \A j \in ids : i =< j

processStatement(st) ==
  IF Matching(st) = {} THEN buildAmbiguousRule(st)
  ELSE buildCandidateRule(RULE_PATTERNS[First(Matching(st))][1], st)

-----------------------------------------------------------------------------
(* Texts and documents *)

\* A line of a document: blank (or a heading), an item of a list, or a line of a paragraph.
Line(kind, st) == [kind |-> kind, st |-> st]
Lines == [kind : {"blank", "item", "text"}, st : Statements]

\* Two pieces of text run together.
Joined(a, b) == [says |-> a.says \cup b.says, names |-> a.names \cup b.names,
                 number |-> IF a.number = {} THEN b.number ELSE a.number,
                 money |-> a.money \/ b.money, size |-> a.size + b.size]

NoText == [says |-> {}, names |-> {}, number |-> {}, money |-> FALSE, size |-> 0]

\* A blank line ends a clause of more than ten characters; a shorter one runs into what follows.
After(line, current) ==
  CASE line.kind = "blank" -> IF current.size > 10 THEN NoText ELSE current
    [] line.kind = "item" -> line.st
    [] line.kind = "text" -> Joined(current, line.st)

\* What has been read of the current clause after each line.
Reading(doc) ==
  LET current[n \in 0 .. Len(doc)] == IF n = 0 THEN NoText ELSE After(doc[n], current[n - 1])
  IN current

\* The statements of more than five characters, or the text as a whole.
splitStatements(text) ==
  LET long == {i \in DOMAIN text : text[i].size > 5} IN
  IF long # {} THEN [i \in long |-> text[i]]
  ELSE << Reading([i \in DOMAIN text |-> Line("text", text[i])])[Len(text)] >>

\* Of the phrases that trigger a pattern the filter knows these.
policyKeywords == {"never", "prohibited", "must be approved", "only can", "must"}

\* The clauses, at the lines they end with: what comes next is no more of the paragraph.
extractDocumentClauses(doc) ==
  [ n \in {n \in 0 .. Len(doc) : /\ n < Len(doc) => doc[n + 1].kind # "text"
                                 /\ Reading(doc)[n].size > 10
                                 /\ policyKeywords \cap Reading(doc)[n].says # {}}
      |-> Reading(doc)[n] ]

ASSUME PolicyAuthorAssumption ==
  /\ KNOWN_TOOLS \in Seq(SUBSET ActionTypes) /\ Undotted \subseteq ActionTypes
  /\ Texts \subseteq Seq(Statements) /\ Documents \subseteq Seq(Lines)
  /\ Rewrites \subseteq PolicyEntries

-----------------------------------------------------------------------------
(* The service *)

Rules(statements) == [i \in DOMAIN statements |-> processStatement(statements[i])]

Created(s, from) == sessions' = Append(sessions, [from |-> from, rules |-> Rules(s)])

authorFromText(text) ==
  /\ Len(sessions) < MaxSessions
  /\ Created(splitStatements(text), [kind |-> "text", lines |-> <<>>])
  /\ UNCHANGED authored

authorFromDocument(doc) ==
  /\ Len(sessions) < MaxSessions
  /\ Created(extractDocumentClauses(doc), [kind |-> "document", lines |-> doc])
  /\ UNCHANGED authored

\* reviewRule: any rule, whatever its status, as often as the reviewer likes.
Reviewed_decision(rule, status) ==
  [rule EXCEPT !.status = IF status = "accepted" THEN "accept" ELSE "reject"]
Reviewed(rule, status) == [rule EXCEPT !.status = status]

Review(s, i, rule) ==
  /\ sessions' = [sessions EXCEPT ![s].rules[i] = rule]
  /\ UNCHANGED authored

reviewRule(s) == \E i \in DOMAIN sessions[s].rules :
  LET rule == sessions[s].rules[i] IN
  \/ Review(s, i, Reviewed(rule, "accepted"))
  \/ Review(s, i, Reviewed(rule, "rejected"))
  \/ \E e \in Rewrites : Review(s, i, [Reviewed(rule, "accepted") EXCEPT !.yaml = {e}])

Accepted(rules) == {i \in DOMAIN rules : rules[i].status = "accepted"}

\* The entries of the policies that a commit returns.
policiesYaml(rules) == UNION {rules[i].yaml : i \in Accepted(rules)}

\* A commit changes no session; its caller writes the policies it returns.
commitRules(s) ==
  /\ Accepted(sessions[s].rules) # {}
  /\ authored' = policiesYaml(sessions[s].rules)
  /\ UNCHANGED sessions

-----------------------------------------------------------------------------
(* The command and the operator *)

\* The unattended author command accepts every draft.
Undrafted(rule) == IF rule.status = "draft" THEN Reviewed(rule, "accepted") ELSE rule

writeOutput(statements, from) ==
  LET rules == [i \in DOMAIN statements |-> Undrafted(processStatement(statements[i]))] IN
  /\ Len(sessions) < MaxSessions
  /\ sessions' = Append(sessions, [from |-> from, rules |-> rules])
  /\ authored' = IF Accepted(rules) = {} THEN authored ELSE policiesYaml(rules)

Unattended ==
  \/ \E text \in Texts : writeOutput(splitStatements(text), [kind |-> "text", lines |-> <<>>])
  \/ \E doc \in Documents : writeOutput(extractDocumentClauses(doc), [kind |-> "document", lines |-> doc])

\* The operator turns a drafted rule on, or off again.
Activate == \E e \in authored :
  /\ authored' = (authored \ {e}) \cup {[e EXCEPT !.enabled = ~@]}
  /\ UNCHANGED sessions

-----------------------------------------------------------------------------
AuthorInit == sessions = <<>> /\ authored = {}

Service == \/ \E text \in Texts : authorFromText(text)
           \/ \E doc \in Documents : authorFromDocument(doc)
           \/ \E s \in DOMAIN sessions : reviewRule(s) \/ commitRules(s)

AuthorNext == Service \/ Unattended \/ Activate

AuthorSpec == AuthorInit /\ [][AuthorNext]_authorVars

-----------------------------------------------------------------------------
(* Properties *)

Enabled == {e.rule : e \in {x \in authored : x.enabled}}
Verdict(ctx) == evaluate(Enabled, FALSE, ctx)
Context(action) == [action |-> action, point |-> "pre_decision", roles |-> {}, impact |-> {},
                    quality |-> {}, confidence |-> {}, time |-> 0]

\* The sessions and the pack keep their types.
AuthorTypeOK ==
  /\ \A s \in DOMAIN sessions : \A i \in DOMAIN sessions[s].rules : sessions[s].rules[i] \in CandidateRules
  /\ authored \subseteq PolicyEntries

\* The rules that are on as they were drafted.
Candidates == UNION {{sessions[s].rules[i] : i \in DOMAIN sessions[s].rules} : s \in DOMAIN sessions}
InForce == {rule \in Candidates : \E e \in rule.yaml : e.rule \in Enabled /\ e \notin Rewrites}
AsksApproval(st) == st.says \cap ApprovalPhrases # {} /\ st.says \cap Denials = {}

\* policy-author.service.ts:155,182: a statement that asks for an approval, once its rule is on,
\* is never answered with an allow for the actions of the tool it names, or, if it names none, for
\* those without a dot, which are all that its pattern '*' matches (policy-author.service.ts:94).
\* Deny phrases in the same statement take precedence.
ApprovalsAsk == \A rule \in InForce : AsksApproval(rule.source) =>
  \A a \in extractToolPattern(rule.source) : Verdict(Context(a)) # "allow"

=============================================================================
