---------------------------- MODULE ModelGateway ----------------------------
(***************************************************************************)
(* ModelGateway.call (src/src/core/model-gateway.ts): profile selection,   *)
(* provider policy, dispatch with a timeout, fallback within the group,    *)
(* and the audit log.  callWithProfile calls itself, for a fallback and    *)
(* for the candidate of a router, so a call is a stack of at most two      *)
(* profiles: a router and the profile it routes to.  Everything up to the  *)
(* await of a provider's promise runs at once.                             *)
(*                                                                         *)
(* The audit log and the providers contacted are kept as sets, so that a   *)
(* call that goes around in circles is a cycle of the state graph.         *)
(***************************************************************************)
EXTENDS Naturals, FiniteSets, SequencesExt

CONSTANTS
  Calls,    \* calls of the gateway
  Profiles, \* provider ids
  Purposes, \* "general" is one of them
  Surfaces, \* what surfaceId may be, "" (not given) included
  Gateways  \* the configurations considered

Adapters == {"host", "direct", "local", "router", "disabled"}
Groups == {"", "tier1", "tier2"}

ProfileType ==
  [ adapter  : Adapters,
    purposes : SUBSET Purposes,
    group    : Groups,       \* fallbackGroup, "" if there is none
    ready    : BOOLEAN,      \* its callback or HTTP adapter, endpoint and credential exist
    home     : BOOLEAN ]     \* it is of currentLab, or there is no currentLab
PolicyType ==
  [ allowed   : SUBSET Profiles,                    \* allowedProviders; empty: all of them
    crossLab  : BOOLEAN,                            \* allowCrossLabFallback
    sensitive : [Surfaces -> Adapters \cup {"any"}] ] \* the mode a surface is restricted to

\* order: the profiles as they are listed, for the selections that take the first match.
ASSUME GatewaysAssumption ==
  \A g \in Gateways : /\ g.order \in Seq(Profiles) /\ Range(g.order) = Profiles
                      /\ Len(g.order) = Cardinality(Profiles)
                      /\ \A p \in Profiles : g.profile[p] \in ProfileType
                      /\ g.policy \in PolicyType

ASSUME RequestsAssumption == "general" \in Purposes /\ "" \in Surfaces

None == "none"

VARIABLES
  gateway,   \* the configuration, fixed
  request,   \* [purpose, surface] of each call
  at,        \* "idle", "waiting" for a provider, "failing", "returned" or "thrown"
  frames,    \* the profiles whose dispatch the call is in, outermost first
  answered,  \* the provider whose answer the call returned
  contacted, \* [call, provider]: the providers a call was sent to
  late,      \* [call, provider]: promises that lost the race against their timeout
  audit      \* [call, provider, success]: the records of auditLog

vars == <<gateway, request, at, frames, answered, contacted, late, audit>>

-----------------------------------------------------------------------------
(* Selection and policy                                                    *)

FirstOf(S) == LET hits == {i \in DOMAIN gateway.order : gateway.order[i] \in S}
              IN IF hits = {} THEN None ELSE gateway.order[Min(hits)]

With(adapters) == {p \in Profiles : gateway.profile[p].adapter \in adapters}
Serving(purpose) == {p \in Profiles : purpose \in gateway.profile[p].purposes}

selectProfileForPurpose(purpose) ==
  LET enabled == With(Adapters \ {"disabled"})
      exact == enabled \cap Serving(purpose)
  IN FirstOf(IF exact # {} THEN exact ELSE enabled \cap Serving("general"))

\* Mutant of GroupOf: the profile is not left out of its own group.
GroupOf_itself(p) ==
  {q \in With({"host", "direct", "local"}) :
     gateway.profile[p].group # "" /\ gateway.profile[q].group = gateway.profile[p].group}

\* The other concrete providers of a profile's fallback group.
GroupOf(p) ==
  {q \in With({"host", "direct", "local"}) \ {p} :
     gateway.profile[p].group # "" /\ gateway.profile[q].group = gateway.profile[p].group}

selectFallbackProfile(p, purpose) ==
  FirstOf(GroupOf(p) \cap (Serving(purpose) \cup Serving("general")))

\* enforceProviderPolicy: surface override, allowlist, lab.
Permitted(p, surface) ==
  /\ gateway.policy.sensitive[surface] \in {"any", gateway.profile[p].adapter} \ {"disabled"}
  /\ gateway.policy.allowed = {} \/ p \in gateway.policy.allowed
  /\ gateway.policy.crossLab \/ gateway.profile[p].home

\* The profile callWithProfile(p) dispatches to, None if there is none: while the policy blocks,
\* it calls itself with the fallback, until there is no fallback (POLICY_BLOCKED).  A fallback is
\* the first other profile of its group, so the third is the first again: when both are blocked
\* they go round until the stack overflows (RangeError).
Landing(p, r) ==
  LET Blocked(q) == q # None /\ ~Permitted(q, r.surface)
      second == selectFallbackProfile(p, r.purpose)
      third == selectFallbackProfile(second, r.purpose)
  IN IF ~Blocked(p) THEN p
     ELSE IF ~Blocked(second) THEN second
     ELSE IF ~Blocked(third) THEN third ELSE None

\* Mutant of Reach: a router dispatches to its candidate without going through the policy.
Reach_direct(p, r) ==
  LET q == Landing(p, r) IN
  IF q = None THEN <<>>
  ELSE IF gateway.profile[q].adapter # "router" \/ FirstOf(GroupOf(q)) = None THEN <<q>>
  ELSE <<q, FirstOf(GroupOf(q))>>

\* The dispatches that callWithProfile(p) starts: of a profile, and of a router's candidate.
Reach(p, r) ==
  LET q == Landing(p, r) IN
  IF q = None THEN <<>>
  ELSE LET candidate == Landing(FirstOf(GroupOf(q)), r) IN
       IF gateway.profile[q].adapter # "router" \/ candidate = None THEN <<q>> ELSE <<q, candidate>>

-----------------------------------------------------------------------------
(* Actions                                                                 *)

\* callWithProfile(p) in the frames of stack, up to its await.  Where nothing is dispatched the
\* error goes to the frame below; a dispatch to what is not configured throws.
Dispatch(c, stack, p, r) ==
  \E reached \in {Reach(p, r)} :
  LET top == Last(reached)
      sent == reached # <<>> /\ gateway.profile[top].ready /\ gateway.profile[top].adapter # "router" IN
  /\ frames' = [frames EXCEPT ![c] = stack \o reached]
  /\ at' = [at EXCEPT ![c] = IF sent THEN "waiting"
                             ELSE IF stack \o reached = <<>> THEN "thrown" ELSE "failing"]
  /\ contacted' = contacted \cup (IF sent THEN {[call |-> c, provider |-> top]} ELSE {})

\* call: without a profile for the purpose it throws NO_PROFILE.
Begin(c, r) ==
  /\ at[c] = "idle"
  /\ request' = [request EXCEPT ![c] = r]
  /\ Dispatch(c, <<>>, selectProfileForPurpose(r.purpose), r)
  /\ UNCHANGED <<gateway, answered, late, audit>>

Failed(c) == audit \cup {[call |-> c, provider |-> Last(frames[c]), success |-> FALSE]}

\* Mutants of Catch: the failure is recorded only when it is final; the fallback is called
\* inside the try block, so that its failure is caught by the same frame.
Catch_unaudited(c) ==
  /\ at[c] = "failing"
  /\ \E fallback \in {selectFallbackProfile(Last(frames[c]), request[c].purpose)} :
       /\ Dispatch(c, Front(frames[c]), fallback, request[c])
       /\ audit' = IF fallback = None THEN Failed(c) ELSE audit
  /\ UNCHANGED <<gateway, request, answered, late>>
Catch_inside(c) ==
  /\ at[c] = "failing"
  /\ \E fallback \in {selectFallbackProfile(Last(frames[c]), request[c].purpose)} :
       Dispatch(c, IF fallback = None THEN Front(frames[c]) ELSE frames[c], fallback, request[c])
  /\ audit' = Failed(c)
  /\ UNCHANGED <<gateway, request, answered, late>>

\* The catch block of the innermost dispatch: record the failure and call the fallback, whose
\* error, or this one if there is no fallback, goes to the frame below.
Catch(c) ==
  /\ at[c] = "failing"
  /\ \E fallback \in {selectFallbackProfile(Last(frames[c]), request[c].purpose)} :
       Dispatch(c, Front(frames[c]), fallback, request[c])
  /\ audit' = Failed(c)
  /\ UNCHANGED <<gateway, request, answered, late>>

\* The provider answers in time; each frame records its success on the way out.
Answer(c) ==
  /\ at[c] = "waiting"
  /\ at' = [at EXCEPT ![c] = "returned"]
  /\ answered' = [answered EXCEPT ![c] = Last(frames[c])]
  /\ audit' = audit \cup {[call |-> c, provider |-> p, success |-> TRUE] : p \in Range(frames[c])}
  /\ UNCHANGED <<gateway, request, frames, contacted, late>>

\* Promise.race settles with the provider's rejection, or with the timer's.
ProviderRejects(c) ==
  /\ at[c] = "waiting"
  /\ at' = [at EXCEPT ![c] = "failing"]
  /\ UNCHANGED <<gateway, request, frames, answered, contacted, late, audit>>

TimesOut(c) ==
  /\ at[c] = "waiting"
  /\ at' = [at EXCEPT ![c] = "failing"]
  /\ late' = late \cup {[call |-> c, provider |-> Last(frames[c])]}
  /\ UNCHANGED <<gateway, request, frames, answered, contacted, audit>>

\* A promise that lost its race settles, and nobody listens.
LateSettles(x) ==
  /\ x \in late
  /\ late' = late \ {x}
  /\ UNCHANGED <<gateway, request, at, frames, answered, contacted, audit>>

Init ==
  /\ gateway \in Gateways
  /\ request = [c \in Calls |-> [purpose |-> "general", surface |-> ""]]
  /\ at = [c \in Calls |-> "idle"]
  /\ frames = [c \in Calls |-> <<>>]
  /\ answered = [c \in Calls |-> None]
  /\ contacted = {}
  /\ late = {}
  /\ audit = {}

Settle(c) == Catch(c) \/ Answer(c) \/ ProviderRejects(c) \/ TimesOut(c)

Next ==
  \/ \E c \in Calls, r \in [purpose : Purposes, surface : Surfaces] : Begin(c, r)
  \/ \E c \in Calls : Settle(c)
  \/ \E x \in late : LateSettles(x)

\* The timer of withTimeout fires if nothing else happens, and a catch block runs.
Fairness == \A c \in Calls : WF_vars(Settle(c))

Spec == Init /\ [][Next]_vars
FairSpec == Spec /\ Fairness

-----------------------------------------------------------------------------
(* Properties                                                              *)

Contacts == [call : Calls, provider : Profiles]

TypeOK ==
  /\ gateway \in Gateways
  /\ request \in [Calls -> [purpose : Purposes, surface : Surfaces]]
  /\ at \in [Calls -> {"idle", "waiting", "failing", "returned", "thrown"}]
  /\ \A c \in Calls : frames[c] \in UNION {[1..n -> Profiles] : n \in 0..2}
  /\ answered \in [Calls -> Profiles \cup {None}]
  /\ contacted \subseteq Contacts
  /\ late \subseteq contacted
  /\ audit \subseteq [call : Calls, provider : Profiles, success : BOOLEAN]

\* No provider is ever contacted that the provider policy does not permit for the call's surface,
\* whether it was selected, routed to or fallen back on (model-gateway.ts:327-330).
PolicyRespected == \A x \in contacted : Permitted(x.provider, request[x.call].surface)

\* Every model call is audited (model-gateway.ts:5): a provider whose dispatch is over has a
\* record, the answer a call returns is that of the provider it was waiting for and is recorded
\* as a success, and a call that has not returned has no success on record.
AuditAccounts ==
  /\ \A x \in contacted :
       x.provider \notin Range(frames[x.call]) \/ at[x.call] \in {"returned", "thrown"}
         => \E success \in BOOLEAN :
              [call |-> x.call, provider |-> x.provider, success |-> success] \in audit
  /\ \A c \in Calls :
       LET successes == {r \in audit : r.call = c /\ r.success} IN
       IF at[c] = "returned"
       THEN [call |-> c, provider |-> answered[c], success |-> TRUE] \in successes
       ELSE successes = {}

Pending(c) == at[c] \in {"waiting", "failing"}
Settled(c) == at[c] \in {"returned", "thrown"}

\* No two providers of a group can stand in for each other.
FallbacksEnd(purpose) ==
  LET standIns == With({"host", "direct", "local"}) \cap (Serving(purpose) \cup Serving("general")) IN
  \A p, q \in standIns :
    p # q => gateway.profile[p].group = "" \/ gateway.profile[p].group # gateway.profile[q].group

\* A call returns or throws, whatever its providers do, if the fallbacks for its purpose end.
CallsSettle ==
  \A c \in Calls : Pending(c) /\ FallbacksEnd(request[c].purpose) ~> Settled(c)

=============================================================================
