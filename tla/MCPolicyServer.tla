--------------------------- MODULE MCPolicyServer ---------------------------
(***************************************************************************)
(* Two runs of the command line, a server and one edit by hand, over a     *)
(* pack with a rule that allows cheap reads and one that denies deletion.  *)
(* The commands can add a rule that allows deletion, disable the denial,   *)
(* upgrade with a rule for administrators, or roll back; rescan finds an   *)
(* administration tool.  The edit leaves a file that is no pack.  A race   *)
(* takes two: one run and whoever changes the file under it.               *)
(***************************************************************************)
EXTENDS PolicyServer

MCActions == {"read_file", "delete_file", "admin_user"}

MCRule(actions, verdict) ==
  [actions |-> actions, point |-> "pre_decision", roles |-> {}, all |-> FALSE, maxAmount |-> {},
   minQuality |-> {}, minConfidence |-> {}, window |-> {}, approval |-> FALSE, default |-> verdict]

MCNames == {"allow-read", "deny-delete", "allow-delete", "allow-admin"}
MCBody ==
  [n \in MCNames |->
     CASE n = "allow-read"   -> [MCRule({"read_file"}, "allow") EXCEPT !.maxAmount = {1}]
       [] n = "deny-delete"  -> MCRule({"delete_file"}, "deny")
       [] n = "allow-delete" -> MCRule({"delete_file"}, "allow")
       [] n = "allow-admin"  -> [MCRule({"admin_user"}, "allow") EXCEPT !.roles = {"admin"}]]

\* They are rules as the code knows them.
ASSUME MCBodyAssumption == \A n \in MCNames : MCBody[n] \in RuleOf(MCActions, {"admin"}, 0..2)

MCContexts ==
  [action : MCActions, point : {"pre_decision"}, roles : {{}, {"admin"}}, impact : {{}, {2}},
   quality : {{}}, confidence : {{}}, time : {0}]

MCOperations ==
  { [kind |-> "add", name |-> "allow-delete"],
    [kind |-> "toggle", name |-> "deny-delete", enabled |-> FALSE],
    [kind |-> "upgrade", names |-> {"allow-admin"}],
    [kind |-> "rescan", names |-> {"allow-admin"}],
    [kind |-> "rollback"] }

MCPack(format, denyUnknown) ==
  [format |-> format, denyUnknown |-> denyUnknown,
   rules |-> [name : {"allow-read", "deny-delete"}, enabled : {TRUE}]]

MCFirstPacks == {MCPack("sdk", TRUE), MCPack("contracts", FALSE)}
MCEdits == {[MCPack("sdk", FALSE) EXCEPT !.format = "neither"]}
=============================================================================
