---------------------------- MODULE AccessPolicy ----------------------------
(***************************************************************************)
(* The access policy of an organisation (src/src/identity): which roles    *)
(* may reach which brain, what provisioning mounts for an agent, and what  *)
(* `provision --verify` says of the mounts it finds.  A policy is the      *)
(* sequence of its classifications, for the verification takes the first   *)
(* one of a brain.  A brain is templated when its name holds a "{", which  *)
(* stands for each agent's own brain.                                      *)
(***************************************************************************)
EXTENDS Naturals, Sequences

CONSTANTS
  Brains,    \* names of brains
  Templated, \* those with a placeholder
  Roles      \* names of roles

\* The placeholder in accessibleBy: whoever asks.
CONSTANT Self

Classification ==
  [brain : Brains, accessibleBy : SUBSET (Roles \cup {Self}), neverAccessibleBy : SUBSET Roles]

Admits(c, role) == role \notin c.neverAccessibleBy /\ role \in c.accessibleBy
Grants(c, role) ==
  role \notin c.neverAccessibleBy /\ (role \in c.accessibleBy \/ Self \in c.accessibleBy)

getAuthorisedBrains(policy, role) ==
  {policy[i].brain : i \in {j \in DOMAIN policy : Grants(policy[j], role)}}

\* The shared brains of an agent with these roles; without the filter, the placeholders too.
getAuthorisedBrainsForAgent_templated(policy, roles) ==
  UNION {getAuthorisedBrains(policy, role) : role \in roles}

getAuthorisedBrainsForAgent(policy, roles) ==
  (UNION {getAuthorisedBrains(policy, role) : role \in roles}) \ Templated

\* policy.classifications.find: i is the place of the brain's first classification.
IsFirst(policy, i, brain) ==
  policy[i].brain = brain /\ \A j \in DOMAIN policy : policy[j].brain = brain => i <= j

\* A verification that only looks for roles that are barred.
verifyMounts_barred(policy, roles, mounted) ==
  {brain \in mounted :
     \E i \in DOMAIN policy :
       IsFirst(policy, i, brain) /\ roles \cap policy[i].neverAccessibleBy # {}}

\* verifyMounts of one agent: the mounted brains whose first classification admits no role of
\* his.  A brain without a classification is passed over.
verifyMounts(policy, roles, mounted) ==
  {brain \in mounted :
     \E i \in DOMAIN policy : IsFirst(policy, i, brain) /\ ~ \E role \in roles : Admits(policy[i], role)}

\* For the report of the organisation: what each role of the policy reaches, and the roles no agent has.
Named(c) == (c.accessibleBy \cup c.neverAccessibleBy) \ {Self}
getAccessMatrix(policy) ==
  [role \in UNION {Named(policy[i]) : i \in DOMAIN policy} |-> getAuthorisedBrains(policy, role)]
Unheld(policy, held) ==
  (UNION {policy[i].accessibleBy : i \in DOMAIN policy}) \ (held \cup {Self})

-----------------------------------------------------------------------------
\* A policy in which the verification and the provisioning say the same of a brain: it has at
\* most one classification, and nobody reaches it only as himself.
Plain(policy, brain) ==
  \A i, j \in DOMAIN policy :
    policy[i].brain = brain => Self \notin policy[i].accessibleBy /\ (policy[j].brain = brain => i = j)

Classified(policy, brain) == \E i \in DOMAIN policy : policy[i].brain = brain

\* Whatever the policy was when the brains were mounted: what the policy of today does not
\* authorise is reported, if it classifies the brain at all; and what it does authorise is not
\* reported, if it classifies it plainly (verifyProvision against provisionAgents).
VerifierAgrees(policy, roles, mounted) ==
  \A brain \in mounted \ Templated :
    LET authorised == brain \in getAuthorisedBrainsForAgent(policy, roles)
        reported   == brain \in verifyMounts(policy, roles, mounted) IN
    /\ ~authorised /\ Classified(policy, brain) => reported
    /\ authorised /\ Plain(policy, brain) => ~reported
=============================================================================
