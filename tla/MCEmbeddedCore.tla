--------------------------- MODULE MCEmbeddedCore ---------------------------
(***************************************************************************)
(* Two cores over one SQLite file or none.  The host declares deletion as  *)
(* its tool; the pack denies deletion, and the profiles allow it, ask      *)
(* before it or deny it.  Calls share one correlation id.                  *)
(***************************************************************************)
EXTENDS EmbeddedCore, TLC

MCToolLists == {{{"delete_file"}}}
MCPacks == {[deny |-> FALSE, rules |-> {RuleFor({"delete_file"}, FALSE, "deny")}]}
MCRules == UNION ({generateProfileRules(p, t) : p \in ProfileNames, t \in MCToolLists}
                  \cup {p.rules : p \in MCPacks})

MCContexts == {[action |-> a, point |-> "pre_decision", roles |-> {}, impact |-> {},
                quality |-> {}, confidence |-> {}, time |-> 0] : a \in {"delete_file", "admin_user"}}

MCSymmetry == Permutations(Cores)
=============================================================================
