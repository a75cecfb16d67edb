--------------------------- MODULE MCModelGateway ---------------------------
(***************************************************************************)
(* Two calls, for two purposes, with or without a sensitive surface,       *)
(* through gateways of three profiles: a router over one provider or two,  *)
(* a lone provider, two providers that are each other's fallback, profiles *)
(* that are disabled, not configured, not allowed or of another lab.  Two  *)
(* concrete providers make every fallback cycle there is (selection takes  *)
(* the first match), the third profile is the router over them.            *)
(***************************************************************************)
EXTENDS ModelGateway

CONSTANTS c1, c2, pr, pa, pb

MCCalls == {c1, c2}
MCProfiles == {pr, pa, pb}
MCPurposes == {"general", "tribunal"}
MCSurfaces == {"", "payments"}

Profile(adapter, purposes, group) ==
  [adapter |-> adapter, purposes |-> purposes, group |-> group, ready |-> TRUE, home |-> TRUE]

Off == Profile("disabled", {"general"}, "tier1")
Router == Profile("router", {"general"}, "tier1")
Host == Profile("host", {"general"}, "tier1")
Direct == Profile("direct", {"tribunal"}, "tier1")
Local == Profile("local", {"general"}, "tier2")

Open == [allowed |-> {}, crossLab |-> TRUE, sensitive |-> [s \in MCSurfaces |-> "any"]]
Restricted(mode) == [Open EXCEPT !.sensitive["payments"] = mode]

Configured(router, a, b, policy) ==
  [order |-> <<pr, pa, pb>>, policy |-> policy,
   profile |-> [p \in MCProfiles |-> IF p = pr THEN router ELSE IF p = pa THEN a ELSE b]]

MCGateways ==
  { Configured(Router, Host, Off, Open),
    Configured(Router, Host, Local, [Open EXCEPT !.allowed = {pr, pb}]),
    Configured(Router, Direct, [Host EXCEPT !.ready = FALSE], Restricted("direct")),
    Configured([Router EXCEPT !.purposes = {"tribunal"}], Host, Local, Restricted("disabled")),
    Configured(Off, Host, Direct, Open),
    Configured(Router, [Host EXCEPT !.home = FALSE], Direct, [Open EXCEPT !.crossLab = FALSE]),
    Configured([Router EXCEPT !.group = ""], Host, Host, [Open EXCEPT !.allowed = {pr}]),
    Configured(Off, Off, [Direct EXCEPT !.group = ""], Restricted("host")) }
=============================================================================
