---------------------------- MODULE MCOrgServer -----------------------------
(***************************************************************************)
(* Two agents, one of them with an audit role, and two runs of provision,  *)
(* which is what a race, a kill and a rotation take.  The registry may     *)
(* disable the second agent, list him a second time with another role or   *)
(* belong to another tenant than the server's; the policy classifies one   *)
(* brain twice, bars a role or takes one off.                         *)
(***************************************************************************)
EXTENDS OrgServer

MCAgent(id, roles, enabled) == [agentId |-> id, roles |-> roles, enabled |-> enabled]
MCAgents == {"ceo-agent", "staff-agent"}
MCRoles == {"ceo", "staff"}

MCRegistry(tenant, agents) == [tenant |-> tenant, agents |-> agents]
MCCeo == MCAgent("ceo-agent", {"ceo"}, TRUE)
MCRegistries ==
  { MCRegistry("own", <<MCCeo, MCAgent("staff-agent", {"staff"}, TRUE)>>),
    MCRegistry("other", <<MCAgent("staff-agent", {"staff"}, FALSE), MCCeo>>),
    MCRegistry("own", <<MCAgent("staff-agent", {"staff"}, TRUE),
                        MCAgent("staff-agent", {"ceo"}, TRUE)>>) }

MCClass(brain, accessible, never) ==
  [brain |-> brain, accessibleBy |-> accessible, neverAccessibleBy |-> never]
MCBrains == {"public", "finance", "{agent}"}
MCPolicies ==
  { << MCClass("public", {"{self}"}, {}), MCClass("finance", {"ceo"}, {}),
       MCClass("finance", {"staff"}, {}), MCClass("{agent}", {"{self}"}, {}) >>,
    << MCClass("finance", {"staff"}, {"ceo"}), MCClass("public", {"ceo"}, {}) >> }

MCRule(actions, roles) ==
  [actions |-> actions, point |-> "pre_decision", roles |-> roles, all |-> FALSE,
   maxAmount |-> {}, minQuality |-> {}, minConfidence |-> {}, window |-> {},
   approval |-> FALSE, default |-> "allow"]
MCActions == {"read", "pay"}
MCPackRules == {MCRule({"read"}, {}), MCRule({"pay"}, {"ceo"})}

\* They are rules as the code knows them.
ASSUME MCRulesAssumption == MCPackRules \subseteq RuleOf(MCActions, MCRoles, {})
=============================================================================
