--------------------------- MODULE MCObserveMode ---------------------------
(***************************************************************************)
(* Two calls and two edits around the promotion of what setup leaves: an   *)
(* observing config over SQLite, a pack that lets reads through, asks      *)
(* before a deployment and denies the unknown, and a registry that knows   *)
(* one agent.  The edits set, drop or comment the mode, move to memory, or *)
(* leave a file out or broken.  The report's limit is below the bound of   *)
(* the log, so that a report may miss the newest records.                  *)
(***************************************************************************)
EXTENDS ObserveMode, TLC

MCRule(actions, approval, verdict) ==
  [actions |-> actions, point |-> "pre_decision", roles |-> {}, all |-> FALSE, maxAmount |-> {},
   minQuality |-> {}, minConfidence |-> {}, window |-> {}, approval |-> approval,
   default |-> verdict]

MCPack == [deny |-> TRUE,
           rules |-> { MCRule({"read_file"}, FALSE, "allow"),
                       [MCRule({"deploy"}, TRUE, "allow") EXCEPT !.roles = {"operator"}] }]
MCPackEdits == {[deny |-> FALSE, rules |-> {MCRule({"read_file"}, FALSE, "deny")}]}

MCConfig == [NoConfig EXCEPT !.pack = {"auto"}, !.deny = {TRUE}, !.mode = {"observe"},
                             !.sqlite = TRUE, !.path = TRUE, !.registry = TRUE]
MCFirstConfigs == {MCConfig, [MCConfig EXCEPT !.plain = FALSE]}
MCConfigEdits == {[MCConfig EXCEPT !.mode = {}, !.registry = FALSE],
                  [NoConfig EXCEPT !.mode = {"observe"}, !.sqlite = TRUE, !.pack = {"other"}]}

\* It says nothing of the mode, nor of persistence.
MCNamed == [NoConfig EXCEPT !.pack = {"auto"}]

MCRegistry == [deployer |-> {"operator"}]

\* One caller claims a role, the other is whom the registry knows.
MCRequests ==
  { [action |-> "deploy", roles |-> {"operator"}, agent |-> {"guest"}, flags |-> FALSE],
    [action |-> "deploy", roles |-> {}, agent |-> {"deployer"}, flags |-> TRUE] }

MCSymmetry == Permutations(Calls)
=============================================================================
