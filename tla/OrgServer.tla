----------------------------- MODULE OrgServer ------------------------------
(***************************************************************************)
(* The server of an organisation (src/src/identity, serve and the HTTP     *)
(* surface).  The operator edits the registry of the agents, the access    *)
(* policy and the auth bindings; runs of `provision` read the first two    *)
(* and write a token and the mounts of one agent after another and, last   *)
(* of all, the bindings of every token; the server loads registry and      *)
(* bindings once, when it starts, and answers requests.  Every file        *)
(* operation is a step, and a run can be killed between any two; a request *)
(* is one, since what it reads of the server never changes.                *)
(***************************************************************************)
EXTENDS AccessPolicy, PolicyRules, FiniteSets

CONSTANTS
  Agents,       \* ids of agents
  Tenants,      \* ids of tenants
  Actions,      \* actions that are evaluated
  Registries,   \* contents agents.yaml may be given
  Policies,     \* contents access-policy.yaml may be given
  ServerTenant, \* tenantId of decision-core.yaml
  PackRules,    \* rules of the policy pack
  DenyUnknown,  \* denyUnknownDefault of the pack or of decision-core.yaml
  SingleToken,  \* is a bearer token configured?
  Provisions,   \* runs of provision
  MaxEdits,     \* bound of the operator's edits
  MaxStarts,    \* bound of the starts of the server
  MaxLog        \* bound of the decision log

CONSTANTS None, Bearer

\* The agents of agents.yaml, in the order of the file.
RegistryOf ==
  [tenant : Tenants, agents : Seq([agentId : Agents, roles : (SUBSET Roles) \ {{}}, enabled : BOOLEAN])]

ASSUME OrgAssumption ==
  /\ Registries \subseteq RegistryOf
  /\ Policies \subseteq Seq(Classification) /\ Policies # {}
  /\ Templated \subseteq Brains /\ Self \notin Roles
  /\ ServerTenant \in Tenants /\ None \notin Agents \cup Tenants
  /\ DenyUnknown \in BOOLEAN /\ SingleToken \in BOOLEAN
  /\ MaxEdits \in Nat /\ MaxStarts \in Nat /\ MaxLog \in Nat

\* A token is known by the run that made it and its place in that run; no two are alike.
Tokens == [by : Provisions, nth : Nat]
Bindings == [subject : Tokens, agentId : Agents, tenantId : Tenants, enabled : BOOLEAN]

VARIABLES
  registryFile, \* agents.yaml, None when it is missing or does not parse
  policyFile,   \* access-policy.yaml
  env,          \* the token in the agent.env of each agent
  mounts,       \* the shared brains in his mounts.json
  store,        \* the bindings of agent-auth.yaml; a file without any does not parse
  provision,    \* the runs of provision: alone and order, for the properties, say whether
                \* another was under way during one and how many started before it
  server,       \* what the server loaded
  log,          \* the decision log, which the server keeps in memory
  answer,       \* what the last step answered, if it was a read
  edits,        \* edits so far
  starts        \* starts so far

files == <<registryFile, policyFile>>
issued == <<env, mounts, store, provision>>
vars == <<files, issued, server, log, answer, edits, starts>>

NoAnswer == [kind |-> "none", token |-> None, seen |-> {}]
Off == [mode |-> "off", registry |-> None, store |-> {}]
Waiting ==
  [pc |-> "waiting", registry |-> None, policy |-> <<>>, next |-> 1, bindings |-> {},
   alone |-> TRUE, order |-> 0]

Init ==
  /\ registryFile \in Registries
  /\ policyFile \in Policies
  /\ env = [a \in Agents |-> None]
  /\ mounts = [a \in Agents |-> None]
  /\ store = {}
  /\ provision = [p \in Provisions |-> Waiting]
  /\ server = Off
  /\ log = {}
  /\ answer = NoAnswer
  /\ edits = 0
  /\ starts = 0

-----------------------------------------------------------------------------
(* The operator *)

Edit ==
  /\ edits < MaxEdits
  /\ edits' = edits + 1
  /\ answer' = NoAnswer
  /\ UNCHANGED <<env, mounts, provision, server, log, starts>>

EditRegistry ==
  /\ Edit
  /\ registryFile' \in (Registries \cup {None}) \ {registryFile}
  /\ UNCHANGED <<policyFile, store>>

EditPolicy ==
  /\ Edit
  /\ policyFile' \in Policies \ {policyFile}
  /\ UNCHANGED <<registryFile, store>>

\* A binding is disabled, or moved to another tenant.
EditStore ==
  /\ Edit
  /\ \E b \in store, enabled \in BOOLEAN, t \in Tenants :
       store' = (store \ {b}) \cup {[b EXCEPT !.enabled = enabled, !.tenantId = t]}
  /\ store' # store
  /\ UNCHANGED files

-----------------------------------------------------------------------------
(* provisionAgents *)

\* A run that starts while another is under way shares its files with it.
Active(p) == provision[p].pc \in {"env", "mounts", "truncate", "store"}

\* The enabled agents of a registry, from place i on: the places of those that follow.
Following(registry, i) == {j \in DOMAIN registry.agents : j >= i /\ registry.agents[j].enabled}
Least(S) == CHOOSE n \in S : \A m \in S : n <= m

\* The loop goes on with the next enabled agent, or is over.
Onward(run, i) ==
  LET rest == Following(run.registry, i) IN
  IF rest = {} THEN [run EXCEPT !.pc = "truncate"]
               ELSE [run EXCEPT !.pc = "env", !.next = Least(rest)]

StartProvision(p) ==
  /\ provision[p].pc = "waiting"
  /\ registryFile # None
  /\ LET busy == \E q \in Provisions : Active(q)
         run  == [Waiting EXCEPT !.registry = registryFile, !.policy = policyFile, !.alone = ~busy,
                    !.order = Cardinality({q \in Provisions : provision[q].pc # "waiting"})]
     IN provision' = [q \in Provisions |->
                        IF q = p THEN Onward(run, 1)
                        ELSE IF Active(q) THEN [provision[q] EXCEPT !.alone = FALSE]
                        ELSE provision[q]]
  /\ answer' = NoAnswer
  /\ UNCHANGED <<files, env, mounts, store, server, log, edits, starts>>

\* A run that leaves an agent.env that is already there as it is.
WriteEnv_keeping(p) ==
  LET run == provision[p]
      agent == run.registry.agents[run.next]
      token == [by |-> p, nth |-> run.next]
      binding == [subject |-> token, agentId |-> agent.agentId,
                  tenantId |-> run.registry.tenant, enabled |-> TRUE] IN
  /\ run.pc = "env"
  /\ env' = [env EXCEPT ![agent.agentId] = IF @ = None THEN token ELSE @]
  /\ provision' = [provision EXCEPT ![p].pc = "mounts", ![p].bindings = @ \cup {binding}]
  /\ answer' = NoAnswer
  /\ UNCHANGED <<files, mounts, store, server, log, edits, starts>>

\* A new token: its binding is kept for later, its text goes to agent.env.
WriteEnv(p) ==
  LET run == provision[p]
      agent == run.registry.agents[run.next]
      token == [by |-> p, nth |-> run.next]
      binding == [subject |-> token, agentId |-> agent.agentId,
                  tenantId |-> run.registry.tenant, enabled |-> TRUE] IN
  /\ run.pc = "env"
  /\ env' = [env EXCEPT ![agent.agentId] = token]
  /\ provision' = [provision EXCEPT ![p].pc = "mounts", ![p].bindings = @ \cup {binding}]
  /\ answer' = NoAnswer
  /\ UNCHANGED <<files, mounts, store, server, log, edits, starts>>

WriteMounts(p) ==
  LET run == provision[p]
      agent == run.registry.agents[run.next] IN
  /\ run.pc = "mounts"
  /\ mounts' = [mounts EXCEPT ![agent.agentId] = getAuthorisedBrainsForAgent(run.policy, agent.roles)]
  /\ provision' = [provision EXCEPT ![p] = Onward(run, run.next + 1)]
  /\ answer' = NoAnswer
  /\ UNCHANGED <<files, env, store, server, log, edits, starts>>

\* writeFileSync truncates the file before it writes.
TruncateStore(p) ==
  /\ provision[p].pc = "truncate"
  /\ store' = {}
  /\ provision' = [provision EXCEPT ![p].pc = "store"]
  /\ answer' = NoAnswer
  /\ UNCHANGED <<files, env, mounts, server, log, edits, starts>>

WriteStore(p) ==
  /\ provision[p].pc = "store"
  /\ store' = provision[p].bindings
  /\ provision' = [provision EXCEPT ![p].pc = "done"]
  /\ answer' = NoAnswer
  /\ UNCHANGED <<files, env, mounts, server, log, edits, starts>>

KillProvision(p) ==
  /\ Active(p)
  /\ provision' = [provision EXCEPT ![p].pc = "killed"]
  /\ answer' = NoAnswer
  /\ UNCHANGED <<files, env, mounts, store, server, log, edits, starts>>

-----------------------------------------------------------------------------
(* serve *)

\* With neither file the server is a single agent's, behind one token or, when it may, none;
\* with one of the two it refuses to start.
ModeOf(registry, bindings) ==
  CASE registry # None /\ bindings # {} -> "org"
    [] registry = None /\ bindings = {} -> IF SingleToken THEN "single" ELSE "open"
    [] OTHER -> "refused"

\* A server that runs is stopped first; its log is gone.
StartServer ==
  /\ starts < MaxStarts
  /\ ModeOf(registryFile, store) # "refused"
  /\ server' = [mode |-> ModeOf(registryFile, store), registry |-> registryFile, store |-> store]
  /\ log' = {}
  /\ answer' = NoAnswer
  /\ starts' = starts + 1
  /\ UNCHANGED <<files, issued, edits>>

\* findAgentById takes the first agent of that id.
isAgentEnabled(registry, id) ==
  \E i \in DOMAIN registry.agents :
    /\ registry.agents[i].agentId = id /\ registry.agents[i].enabled
    /\ \A j \in 1..(i - 1) : registry.agents[j].agentId # id

\* The roles of the first enabled agent of that id.
resolveAgentRoles(registry, id) ==
  LET places == {i \in DOMAIN registry.agents :
                   registry.agents[i].agentId = id /\ registry.agents[i].enabled}
  IN IF places = {} THEN {} ELSE registry.agents[Least(places)].roles

\* A resolution that believes the agentId of the request.
resolveIdentity_claimed(token, claimed) ==
  LET bound == {b \in server.store : b.subject = token /\ b.enabled}
      binding == CHOOSE b \in bound : TRUE
      id == IF claimed = None THEN binding.agentId ELSE claimed IN
  IF bound = {} \/ ~isAgentEnabled(server.registry, id) THEN [ok |-> FALSE, code |-> "unknown_token"]
  ELSE [ok |-> TRUE, agentId |-> id, tenantId |-> binding.tenantId,
        roles |-> resolveAgentRoles(server.registry, id)]

\* The identity of a token, or what is wrong with it.
resolveIdentity(token, claimed) ==
  LET bound == {b \in server.store : b.subject = token}
      binding == CHOOSE b \in bound : TRUE
      Error(code) == [ok |-> FALSE, code |-> code] IN
  CASE bound = {} -> Error("unknown_token")
    [] bound # {} /\ ~binding.enabled -> Error("disabled_binding")
    [] bound # {} /\ binding.enabled /\ claimed \notin {None, binding.agentId} -> Error("agent_mismatch")
    [] OTHER ->
         IF ~isAgentEnabled(server.registry, binding.agentId) THEN Error("agent_disabled")
         ELSE [ok |-> TRUE, agentId |-> binding.agentId, tenantId |-> binding.tenantId,
               roles |-> resolveAgentRoles(server.registry, binding.agentId)]

\* Every request is refused, with 401 or 403, unless its token is good.
Admitted(token) ==
  CASE server.mode = "org" -> token # None /\ resolveIdentity(token, None).ok
    [] server.mode = "single" -> token = Bearer
    [] server.mode = "open" -> TRUE

\* A server that always works for the tenant it is configured with.
RequestTenant_configured(token) == ServerTenant

\* The tenant of a request: the identity's, or the one the server is configured with.
RequestTenant(token) ==
  IF server.mode = "org" THEN resolveIdentity(token, None).tenantId ELSE ServerTenant

RulesOf(tenant) == IF tenant = ServerTenant THEN PackRules ELSE {}

\* The tokens that exist: an overwritten one is as unknown as no token at all.
Presented ==
  {None, Bearer} \cup {env[a] : a \in Agents} \cup {b.subject : b \in server.store}

Request ==
  /\ server.mode # "off"
  /\ UNCHANGED <<files, issued, server, edits, starts>>

\* A refused request leaves nothing behind.
Refused == answer' = NoAnswer /\ UNCHANGED log

\* What the policy is asked about: the context of the body, in which the registry's agent and
\* roles replace whatever is claimed; without an organisation the claimed agent stays and the
\* roles are dropped.  The amounts are left out.
EvaluateContext(identity, claimed, claimedRoles, action) ==
  LET body == [agentId |-> claimed, roles |-> claimedRoles, action |-> action, point |-> "pre_decision",
               impact |-> {}, quality |-> {}, confidence |-> {}, time |-> 0] IN
  IF server.mode = "org" THEN [body EXCEPT !.agentId = identity.agentId, !.roles = identity.roles]
                         ELSE [body EXCEPT !.roles = {}]

\* POST /evaluate.  The claim is the agentId of the body or, without one, of its context, where
\* the roles are claimed too.
Evaluate(token, claimed, claimedRoles, action) ==
  /\ Request /\ Cardinality(log) < MaxLog
  /\ IF ~Admitted(token) THEN Refused
     ELSE LET identity == IF server.mode = "org" THEN resolveIdentity(token, claimed)
                          ELSE [ok |-> TRUE]
          IN IF ~identity.ok THEN Refused
             ELSE LET ctx == EvaluateContext(identity, claimed, claimedRoles, action)
                      verdict == evaluate(RulesOf(RequestTenant(token)), DenyUnknown, ctx)
                  IN /\ log' = log \cup
                          {[kind |-> "evaluation", tenantId |-> RequestTenant(token),
                            agentId |-> ctx.agentId, action |-> action, verdict |-> verdict,
                            by |-> token]}
                     /\ answer' = NoAnswer

\* POST /record-execution: any identity records, under its own name.
RecordExecution(token, action) ==
  /\ Request /\ Cardinality(log) < MaxLog
  /\ IF ~Admitted(token) THEN Refused
     ELSE /\ log' = log \cup
               {[kind |-> "execution", tenantId |-> RequestTenant(token),
                 agentId |-> IF server.mode = "org" THEN resolveIdentity(token, None).agentId ELSE None,
                 action |-> action, verdict |-> "none", by |-> token]}
          /\ answer' = NoAnswer

ConfigRoles == {"ceo", "owner", "operator", "admin"}
AuditRoles == ConfigRoles \cup {"auditor", "compliance_officer"}

\* findAll of the log and of the rules is scoped by the tenant.
Visible(token, kind) ==
  IF kind = "rules" THEN RulesOf(RequestTenant(token))
  ELSE {r \in log : r.tenantId = RequestTenant(token)}

\* POST /record and GET /audit; GET /policy and GET /clauses.
ReadAudit(token, kind) ==
  /\ Request
  /\ IF \/ ~Admitted(token)
        \/ server.mode = "org" /\ resolveIdentity(token, None).roles \cap AuditRoles = {}
     THEN Refused
     ELSE /\ answer' = [kind |-> kind, token |-> token, seen |-> Visible(token, kind)]
          /\ UNCHANGED log

\* The files, what each role reaches, and the roles of the policy that no agent has.
generateOrgReport ==
  LET held == UNION {registryFile.agents[i].roles : i \in DOMAIN registryFile.agents} IN
  [agents |-> registryFile.agents, accessMatrix |-> getAccessMatrix(policyFile),
   classifications |-> policyFile, warnings |-> Unheld(policyFile, held)]

\* GET /agents, /access-policy and /org/report: the files as they are now, not as the server
\* loaded them.  Without an organisation there is nothing to find, without the file an error.
ReadConfig(token) ==
  /\ Request
  /\ IF \/ server.mode # "org" \/ ~Admitted(token) \/ registryFile = None
        \/ resolveIdentity(token, None).roles \cap ConfigRoles = {}
     THEN Refused
     ELSE /\ answer' = [kind |-> "config", token |-> token, seen |-> {generateOrgReport}]
          /\ UNCHANGED log

-----------------------------------------------------------------------------
Next ==
  \/ EditRegistry \/ EditPolicy \/ EditStore
  \/ \E p \in Provisions :
       \/ StartProvision(p) \/ WriteEnv(p) \/ WriteMounts(p)
       \/ TruncateStore(p) \/ WriteStore(p) \/ KillProvision(p)
  \/ StartServer
  \/ \E token \in Presented :
       \/ \E claimed \in Agents \cup {None}, roles \in {{}, Roles}, action \in Actions :
            Evaluate(token, claimed, roles, action)
       \/ \E action \in Actions : RecordExecution(token, action)
       \/ \E kind \in {"records", "rules"} : ReadAudit(token, kind)
       \/ ReadConfig(token)

Spec == Init /\ [][Next]_vars

-----------------------------------------------------------------------------
(* Properties *)

\* Every variable keeps its kind.
TypeOK ==
  /\ registryFile \in Registries \cup {None} /\ policyFile \in Policies
  /\ env \in [Agents -> Tokens \cup {None}]
  /\ \A a \in Agents : mounts[a] # None => mounts[a] \subseteq Brains \ Templated
  /\ store \subseteq Bindings
  /\ \A p \in Provisions :
       /\ provision[p].bindings \subseteq [subject : [by : {p}, nth : Nat], agentId : Agents,
                                          tenantId : Tenants, enabled : {TRUE}]
       /\ Active(p) => provision[p].registry \in Registries
       /\ provision[p].pc \in {"env", "mounts"} =>
            provision[p].registry.agents[provision[p].next].enabled
  /\ server.mode = "org" => server.registry \in Registries /\ server.store \in (SUBSET Bindings) \ {{}}
  /\ \A r \in log :
       /\ r.tenantId \in Tenants /\ r.agentId \in Agents \cup {None} /\ r.action \in Actions
       /\ r.verdict \in VerdictResults \cup {"none"}
       /\ server.mode # "off"
  /\ answer.kind \in {"none", "records", "rules", "config"} /\ answer.token \in Tokens \cup {None, Bearer}

\* What the registry that the server loaded gives an agent, under any of its entries.
Held(id) ==
  UNION {server.registry.agents[i].roles : i \in {j \in DOMAIN server.registry.agents :
           server.registry.agents[j].agentId = id /\ server.registry.agents[j].enabled}}

\* Whatever a request claims, the log of an organisation's server names the agent its token is
\* bound to and that agent's tenant, the agent is not disabled in the registry loaded, and what
\* was not denied was open to a role the registry gives him (resolveIdentity and /evaluate).
LogIsTheHolders ==
  server.mode = "org" =>
    \A r \in log :
      /\ \E b \in server.store :
           b.subject = r.by /\ b.enabled /\ b.agentId = r.agentId /\ b.tenantId = r.tenantId
      /\ Held(r.agentId) # {}
      /\ r.kind = "evaluation" /\ r.verdict # "deny" /\ DenyUnknown =>
           \E rule \in PackRules :
             r.action \in rule.actions /\ (rule.roles = {} \/ rule.roles \cap Held(r.agentId) # {})

\* Who is given records or rules by an organisation's server has an audit role in the registry
\* loaded, and a configuration role for its files; and he sees his own tenant's records and
\* rules only, whichever tenant the server itself is configured with (requestDeps).
ReadsStayInTenant ==
  server.mode = "org" /\ answer # NoAnswer =>
    \E b \in server.store :
      /\ b.subject = answer.token
      /\ Held(b.agentId) \cap (IF answer.kind = "config" THEN ConfigRoles ELSE AuditRoles) # {}
      /\ answer.kind = "records" => \A r \in answer.seen : r.tenantId = b.tenantId
      /\ answer.kind = "rules" /\ b.tenantId # ServerTenant => answer.seen = {}

\* When the last run of provision to start ran alone and to its end, the token in the agent.env
\* of every agent it found enabled is bound to that agent, and no earlier run's token is bound
\* at all, whatever runs were killed before it.
ProvisionRotates ==
  \A p \in Provisions :
    LET run == provision[p] IN
    run.pc = "done" /\ run.alone /\ (\A q \in Provisions : provision[q].order <= run.order) =>
      /\ \A i \in Following(run.registry, 1) :
           \E b \in store : b.agentId = run.registry.agents[i].agentId /\ b.subject = env[b.agentId]
      /\ \A b \in store : b.subject.by = p

\* Of the mounts of the enabled agents `provision --verify` says what the policy of today says.
MountsAreVerified ==
  registryFile # None =>
    \A i \in Following(registryFile, 1) :
      LET agent == registryFile.agents[i] IN
      mounts[agent.agentId] # None =>
        VerifierAgrees(policyFile, agent.roles, mounts[agent.agentId])
=============================================================================
