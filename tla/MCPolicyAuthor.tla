--------------------------- MODULE MCPolicyAuthor ---------------------------
(***************************************************************************)
(* Two actions of one tool family, one of which has a keyword of its own,  *)
(* and an action without a dot; texts and documents whose statements deny, *)
(* ask for approval, set a limit, or say nothing clear; two sessions.      *)
(***************************************************************************)
EXTENDS PolicyAuthor

CONSTANTS drop, read, restart, admin

MCActionTypes == {drop, read, restart}
MCKnownTools == << {drop}, {drop, read}, {read} >>

Says(phrases, names, size) ==
  [says |-> phrases, names |-> names, number |-> {}, money |-> FALSE, size |-> size]
Limit(money, names) ==
  [says |-> {"more than"}, names |-> names, number |-> {2}, money |-> money, size |-> 20]

MCTexts == { << Says({"never"}, {1, 2}, 20) >>,
             << Says({"needs approval", "per day"}, {3}, 20), Says({"must"}, {1}, 4) >>,
             << Says({"do not"}, {}, 20), Limit(TRUE, {1}) >>,
             << Says({"only can"}, {1}, 20), Says({"business hours"}, {3}, 20) >>,
             << Says({}, {1}, 4) >>,
             << Says({"needs approval"}, {}, 20) >> }

MCDocuments == { << Line("item", Says({"must be approved"}, {1}, 20)), Line("blank", NoText),
                    Line("text", Says({"must"}, {}, 12)), Line("text", Says({"per day"}, {3}, 8)) >>,
                 << Line("item", Says({"never"}, {}, 9)), Line("blank", NoText),
                    Line("item", Says({"prohibited"}, {3}, 20)), Line("item", Says({"do not"}, {1}, 20)) >> }

MCRewrites == { Entry([generate("deny", Says({"never"}, {1}, 20)) EXCEPT !.default = "deny",
                                                                         !.roles = {admin}], TRUE) }
=============================================================================
