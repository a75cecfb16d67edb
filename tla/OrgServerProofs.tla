-------------------------- MODULE OrgServerProofs ---------------------------
(***************************************************************************)
(* Theorems about AccessPolicy, for every policy, and about OrgServer, for *)
(* any agents, registries, policies and rules and any number of runs of    *)
(* provision.                                                              *)
(***************************************************************************)
EXTENDS OrgServer, FiniteSetTheorems, WellFoundedInduction, TLAPS

\* Among places of a file there is a first one, which is what `find` takes.
LEMMA LeastExists ==
  ASSUME NEW S, S \subseteq Nat, S # {}
  PROVE  \E n \in S : \A m \in S : n <= m
<1>1. PICK n \in S : \A m \in S : ~(<<m, n>> \in OpToRel(<, Nat))
  BY NatLessThanWellFounded, WFMin
<1>2. ASSUME NEW m \in S  PROVE  n <= m
  <2>1. CASE m < n
    <3>1. <<m, n>> \in OpToRel(<, Nat)
      BY <2>1 DEF OpToRel
    <3> QED
      BY <1>1, <3>1
  <2> QED
    BY <2>1
<1> QED
  BY <1>2

LEMMA LeastIn ==
  ASSUME NEW S, S \subseteq Nat, S # {}
  PROVE  Least(S) \in S
BY LeastExists DEF Least

-----------------------------------------------------------------------------
(* provision --verify *)

\* policy.classifications.find finds the first classification of every classified brain.
LEMMA FirstExists ==
  ASSUME NEW policy \in Seq(Classification), NEW brain, Classified(policy, brain)
  PROVE  \E i \in DOMAIN policy : IsFirst(policy, i, brain)
<1> DEFINE places == {i \in DOMAIN policy : policy[i].brain = brain}
<1>1. places \subseteq Nat /\ places # {}
  BY DEF Classified
<1>2. PICK i \in places : \A j \in places : i <= j
  BY <1>1, LeastExists
<1> QED
  BY <1>2 DEF IsFirst

\* Unless a policy authorises it, a mount of a classified brain is reported; and a mount that a
\* plain policy authorises is not.
THEOREM VerifierAgreesAlways ==
  ASSUME NEW policy \in Seq(Classification), NEW roles, NEW mounted
  PROVE  VerifierAgrees(policy, roles, mounted)
<1> SUFFICES ASSUME NEW brain \in mounted \ Templated
             PROVE  LET authorised == brain \in getAuthorisedBrainsForAgent(policy, roles)
                        reported   == brain \in verifyMounts(policy, roles, mounted) IN
                    /\ ~authorised /\ Classified(policy, brain) => reported
                    /\ authorised /\ Plain(policy, brain) => ~reported
  BY DEF VerifierAgrees
<1>1. ASSUME brain \notin getAuthorisedBrainsForAgent(policy, roles), Classified(policy, brain)
      PROVE  brain \in verifyMounts(policy, roles, mounted)
  <2>1. PICK i \in DOMAIN policy : IsFirst(policy, i, brain)
    BY <1>1, FirstExists
  <2>2. ASSUME NEW role \in roles  PROVE  ~Admits(policy[i], role)
    <3>1. brain \notin getAuthorisedBrains(policy, role)
      BY <1>1 DEF getAuthorisedBrainsForAgent
    <3>2. ~Grants(policy[i], role)
      BY <2>1, <3>1 DEF getAuthorisedBrains, IsFirst
    <3> QED
      BY <3>2 DEF Grants, Admits
  <2> QED
    BY <2>1, <2>2 DEF verifyMounts
<1>2. ASSUME brain \in getAuthorisedBrainsForAgent(policy, roles), Plain(policy, brain)
      PROVE  brain \notin verifyMounts(policy, roles, mounted)
  <2>1. PICK role \in roles : brain \in getAuthorisedBrains(policy, role)
    BY <1>2 DEF getAuthorisedBrainsForAgent
  <2>2. PICK i \in DOMAIN policy : policy[i].brain = brain /\ Grants(policy[i], role)
    BY <2>1 DEF getAuthorisedBrains
  <2>3. Admits(policy[i], role)
    BY <1>2, <2>2 DEF Plain, Grants, Admits
  <2>4. \A j \in DOMAIN policy : IsFirst(policy, j, brain) => j = i
    BY <1>2, <2>2 DEF Plain, IsFirst
  <2> QED
    BY <2>3, <2>4 DEF verifyMounts
<1> QED
  BY <1>1, <1>2

-----------------------------------------------------------------------------
(* provision: what the files and the runs hold *)

\* An agent of a registry file, as it is read.
LEMMA PlaceIsAnAgent ==
  ASSUME OrgAssumption, NEW registry \in Registries, NEW i \in Following(registry, 1)
  PROVE  /\ i \in Nat /\ registry.agents[i].agentId \in Agents /\ registry.agents[i].enabled
         /\ registry.tenant \in Tenants
<1> DEFINE Entry == [agentId : Agents, roles : (SUBSET Roles) \ {{}}, enabled : BOOLEAN]
<1>1. registry \in [tenant : Tenants, agents : Seq(Entry)]
  BY DEF OrgAssumption, RegistryOf
<1>2. i \in DOMAIN registry.agents /\ registry.agents[i].enabled
  BY DEF Following
<1>3. registry.agents[i] \in Entry /\ i \in Nat
  <2> HIDE DEF Entry
  <2> QED
    BY <1>1, <1>2
<1> QED
  BY <1>1, <1>2, <1>3

Pcs == {"waiting", "env", "mounts", "truncate", "store", "done", "killed"}
Run ==
  [pc : Pcs, registry : Registries \cup {None}, policy : Policies \cup {<<>>}, next : Nat,
   bindings : SUBSET Bindings, alone : BOOLEAN, order : Nat]

\* A run that has started has read both files, stands at an enabled agent, and has made all the
\* tokens that it will bind.
RunOK(p) ==
  LET run == provision[p] IN
  /\ run.pc # "waiting" => run.registry \in Registries /\ run.policy \in Policies
  /\ run.pc \in {"env", "mounts"} => run.next \in Following(run.registry, 1)
  /\ run.bindings \subseteq [subject : [by : {p}, nth : Nat], agentId : Agents, tenantId : Tenants,
                             enabled : {TRUE}]

Started == {p \in Provisions : provision[p].pc # "waiting"}

FilesOK == registryFile \in Registries \cup {None} /\ policyFile \in Policies
IssuedOK ==
  /\ env \in [Agents -> Tokens \cup {None}]
  /\ mounts \in [Agents -> (SUBSET (Brains \ Templated)) \cup {None}]
  /\ store \subseteq Bindings
  /\ provision \in [Provisions -> Run]
  /\ \A p \in Provisions : RunOK(p)
  /\ IsFiniteSet(Started)

\* What the next enabled agent is, or that there is none.
LEMMA OnwardIs ==
  ASSUME NEW run \in Run, NEW i \in Nat, run.registry \in Registries, OrgAssumption
  PROVE  /\ Onward(run, i) \in Run
         /\ Onward(run, i).registry = run.registry /\ Onward(run, i).policy = run.policy /\ Onward(run, i).bindings = run.bindings
         /\ Onward(run, i).alone = run.alone /\ Onward(run, i).order = run.order
         /\ \/ Following(run.registry, i) = {} /\ Onward(run, i).pc = "truncate"
            \/ /\ Onward(run, i).pc = "env"
               /\ Onward(run, i).next \in Following(run.registry, i)
               /\ \A j \in Following(run.registry, i) : Onward(run, i).next <= j
<1> DEFINE rest == Following(run.registry, i)
<1>1. run.registry.agents \in Seq([agentId : Agents, roles : (SUBSET Roles) \ {{}}, enabled : BOOLEAN])
  BY DEF OrgAssumption, RegistryOf
<1>2. rest \subseteq Nat
  BY <1>1 DEF Following
<1>3. CASE rest = {}
  BY <1>3 DEF Onward, Run, Pcs
<1>4. CASE rest # {}
  <2>1. Least(rest) \in rest /\ \A j \in rest : Least(rest) <= j
    BY <1>2, <1>4, LeastExists DEF Least
  <2>2. Onward(run, i) = [run EXCEPT !.pc = "env", !.next = Least(rest)]
    BY <1>4 DEF Onward
  <2>3. Least(rest) \in Nat
    BY <2>1, <1>2
  <2> HIDE DEF rest
  <2>4. Onward(run, i) \in Run
    BY <2>2, <2>3 DEF Run, Pcs
  <2> QED
    BY <2>1, <2>2, <2>4 DEF Run, rest
<1> QED
  BY <1>3, <1>4

\* A run that starts: the others are as they were, but those under way are not alone any more.
LEMMA StartIs ==
  ASSUME OrgAssumption, FilesOK, IssuedOK, NEW p \in Provisions, StartProvision(p)
  PROVE  /\ provision' \in [Provisions -> Run] /\ provision[p].pc = "waiting"
         /\ provision'[p].registry \in Registries /\ provision'[p].policy \in Policies
         /\ provision'[p].bindings = {} /\ provision'[p].order = Cardinality(Started)
         /\ provision'[p].alone => ~ \E q \in Provisions : Active(q)
         /\ \/ Following(provision'[p].registry, 1) = {} /\ provision'[p].pc = "truncate"
            \/ /\ provision'[p].pc = "env"
               /\ provision'[p].next \in Following(provision'[p].registry, 1)
               /\ \A j \in Following(provision'[p].registry, 1) : provision'[p].next <= j
         /\ \A q \in Provisions \ {p} :
              \/ provision'[q] = provision[q] /\ ~Active(q)
              \/ provision'[q] = [provision[q] EXCEPT !.alone = FALSE] /\ Active(q)
<1> DEFINE busy == \E q \in Provisions : Active(q)
           run == [Waiting EXCEPT !.registry = registryFile, !.policy = policyFile, !.alone = ~busy,
                     !.order = Cardinality({q \in Provisions : provision[q].pc # "waiting"})]
<1>1. /\ provision[p].pc = "waiting" /\ registryFile \in Registries /\ policyFile \in Policies
      /\ provision' = [q \in Provisions |->
                        IF q = p THEN Onward(run, 1)
                        ELSE IF Active(q) THEN [provision[q] EXCEPT !.alone = FALSE]
                        ELSE provision[q]]
  BY DEF StartProvision, FilesOK
<1>2. Cardinality(Started) \in Nat
  BY FS_CardinalityType DEF IssuedOK
<1>3. /\ run \in Run /\ run.registry = registryFile /\ run.policy = policyFile /\ run.bindings = {}
      /\ run.order = Cardinality(Started) /\ run.alone = ~busy
  BY <1>1, <1>2 DEF Waiting, Run, Pcs, Started
<1> HIDE DEF run
<1>4. /\ Onward(run, 1) \in Run
      /\ Onward(run, 1).registry = registryFile /\ Onward(run, 1).policy = policyFile
      /\ Onward(run, 1).bindings = {} /\ Onward(run, 1).order = Cardinality(Started)
      /\ Onward(run, 1).alone = ~busy
      /\ \/ Following(registryFile, 1) = {} /\ Onward(run, 1).pc = "truncate"
         \/ /\ Onward(run, 1).pc = "env"
            /\ Onward(run, 1).next \in Following(registryFile, 1)
            /\ \A j \in Following(registryFile, 1) : Onward(run, 1).next <= j
  <2>1. /\ Onward(run, 1) \in Run
        /\ Onward(run, 1).registry = run.registry /\ Onward(run, 1).policy = run.policy
        /\ Onward(run, 1).bindings = run.bindings /\ Onward(run, 1).order = run.order
        /\ Onward(run, 1).alone = run.alone
        /\ \/ Following(run.registry, 1) = {} /\ Onward(run, 1).pc = "truncate"
           \/ /\ Onward(run, 1).pc = "env"
              /\ Onward(run, 1).next \in Following(run.registry, 1)
              /\ \A j \in Following(run.registry, 1) : Onward(run, 1).next <= j
    <3>1. run \in Run /\ run.registry \in Registries
      BY <1>1, <1>3
    <3> QED
      BY <3>1, OnwardIs
  <2> QED
    BY <2>1, <1>3
<1>5. provision'[p] = Onward(run, 1)
  BY <1>1
<1>6. provision' \in [Provisions -> Run]
  <2>1. ASSUME NEW q \in Provisions  PROVE  [provision[q] EXCEPT !.alone = FALSE] \in Run
    BY DEF IssuedOK, Run
  <2> QED
    BY <1>1, <1>4, <2>1 DEF IssuedOK
<1> QED
  BY <1>1, <1>4, <1>5, <1>6

LEMMA StartedAdds ==
  ASSUME IssuedOK, OrgAssumption, FilesOK, NEW p \in Provisions, StartProvision(p)
  PROVE  Started' = Started \cup {p} /\ p \notin Started /\ IsFiniteSet(Started')
         /\ Cardinality(Started') = Cardinality(Started) + 1
<1>1. /\ provision[p].pc = "waiting" /\ provision'[p].pc # "waiting"
      /\ \A q \in Provisions \ {p} :
           \/ provision'[q] = provision[q]
           \/ provision'[q] = [provision[q] EXCEPT !.alone = FALSE]
  BY StartIs
<1>2. \A q \in Provisions \ {p} : provision'[q].pc = provision[q].pc
  BY <1>1 DEF IssuedOK, Run
<1>3. Started' = Started \cup {p} /\ p \notin Started
  BY <1>1, <1>2 DEF Started
<1> QED
  BY <1>3, FS_AddElement DEF IssuedOK

\* The steps that leave what was issued as it is.
LEMMA IssuedKept == ASSUME IssuedOK, UNCHANGED issued  PROVE  IssuedOK'
BY DEF IssuedOK, issued, RunOK, Started

\* A step of the run p that has started.
LEMMA StepOfOne ==
  ASSUME IssuedOK, NEW p \in Provisions, NEW run \in Run, p \in Started, run.pc # "waiting",
         provision' = [provision EXCEPT ![p] = run], RunOK(p)'
  PROVE  /\ provision' \in [Provisions -> Run] /\ \A q \in Provisions : RunOK(q)'
         /\ Started' = Started /\ IsFiniteSet(Started')
<1>1. provision' \in [Provisions -> Run] /\ \A q \in Provisions : RunOK(q)'
  BY DEF IssuedOK, RunOK
<1>2. Started' = Started
  BY DEF IssuedOK, Started
<1> QED
  BY <1>1, <1>2 DEF IssuedOK

LEMMA StartIssued ==
  ASSUME OrgAssumption, FilesOK, IssuedOK, NEW p \in Provisions, StartProvision(p)
  PROVE  IssuedOK'
<1>1. UNCHANGED <<env, mounts, store>>
  BY DEF StartProvision
<1>2. RunOK(p)'
  BY StartIs DEF RunOK
<1>3. ASSUME NEW q \in Provisions \ {p}  PROVE  RunOK(q)'
  <2>1. provision'[q] = provision[q] \/ provision'[q] = [provision[q] EXCEPT !.alone = FALSE]
    BY StartIs
  <2> QED
    BY <2>1 DEF IssuedOK, RunOK, Run
<1> QED
  BY <1>1, <1>2, <1>3, StartIs, StartedAdds DEF IssuedOK

LEMMA EnvIssued ==
  ASSUME OrgAssumption, IssuedOK, NEW p \in Provisions, WriteEnv(p)
  PROVE  IssuedOK'
<1> DEFINE run == provision[p]
           agent == run.registry.agents[run.next]
           token == [by |-> p, nth |-> run.next]
           binding == [subject |-> token, agentId |-> agent.agentId,
                       tenantId |-> run.registry.tenant, enabled |-> TRUE]
           after == [run EXCEPT !.pc = "mounts", !.bindings = @ \cup {binding}]
<1>1. /\ run \in Run /\ RunOK(p) /\ run.pc = "env" /\ p \in Started
      /\ env' = [env EXCEPT ![agent.agentId] = token]
      /\ UNCHANGED <<mounts, store>>
  BY DEF WriteEnv, IssuedOK, Started
<1>2. provision' = [provision EXCEPT ![p] = after]
  BY DEF WriteEnv, IssuedOK
<1>3. run.next \in Nat /\ agent.agentId \in Agents /\ run.registry.tenant \in Tenants
  BY <1>1, PlaceIsAnAgent DEF RunOK
<1>4. binding \in Bindings /\ binding \in [subject : [by : {p}, nth : Nat], agentId : Agents,
                                            tenantId : Tenants, enabled : {TRUE}]
  BY <1>3 DEF Bindings, Tokens
<1> HIDE DEF binding, token
<1>5. after \in Run
  BY <1>1, <1>4 DEF Run, Pcs
<1>6. RunOK(p)'
  <2>1. provision'[p] = after
    BY <1>2 DEF IssuedOK
  <2>2. /\ after.pc = "mounts" /\ after.registry = run.registry /\ after.policy = run.policy
        /\ after.next = run.next /\ after.bindings = run.bindings \cup {binding}
    BY <1>1 DEF Run
  <2> HIDE DEF after
  <2> QED
    BY <1>1, <1>4, <2>1, <2>2 DEF RunOK
<1>7. after.pc # "waiting"
  BY <1>1 DEF Run
<1> HIDE DEF after
<1>8. env' \in [Agents -> Tokens \cup {None}]
  BY <1>1, <1>3 DEF IssuedOK, token, Tokens
<1>9. /\ provision' \in [Provisions -> Run] /\ \A q \in Provisions : RunOK(q)'
      /\ IsFiniteSet(Started')
  BY <1>1, <1>2, <1>5, <1>6, <1>7, StepOfOne
<1> QED
  BY <1>1, <1>8, <1>9 DEF IssuedOK

\* What is mounted for an agent is no placeholder.
LEMMA MountsAreShared ==
  ASSUME OrgAssumption, NEW policy \in Policies, NEW roles
  PROVE  getAuthorisedBrainsForAgent(policy, roles) \subseteq Brains \ Templated
<1>1. policy \in Seq(Classification)
  BY DEF OrgAssumption
<1>2. \A i \in DOMAIN policy : policy[i].brain \in Brains
  <2>1. \A i \in DOMAIN policy : policy[i] \in Classification
    BY <1>1
  <2> QED
    BY <2>1 DEF Classification
<1>3. ASSUME NEW role  PROVE  getAuthorisedBrains(policy, role) \subseteq Brains
  BY <1>2 DEF getAuthorisedBrains
<1> QED
  BY <1>3 DEF getAuthorisedBrainsForAgent

LEMMA MountsIssued ==
  ASSUME OrgAssumption, IssuedOK, NEW p \in Provisions, WriteMounts(p)
  PROVE  IssuedOK'
<1> DEFINE run == provision[p]
           agent == run.registry.agents[run.next]
           after == Onward(run, run.next + 1)
<1>1. /\ run \in Run /\ RunOK(p) /\ run.pc = "mounts" /\ p \in Started
      /\ mounts' = [mounts EXCEPT ![agent.agentId] = getAuthorisedBrainsForAgent(run.policy, agent.roles)]
      /\ provision' = [provision EXCEPT ![p] = after]
      /\ UNCHANGED <<env, store>>
  BY DEF WriteMounts, IssuedOK, Started
<1>2. run.registry \in Registries /\ run.policy \in Policies /\ run.next \in Following(run.registry, 1)
  BY <1>1 DEF RunOK
<1>3. run.next \in Nat /\ agent.agentId \in Agents
  BY <1>2, PlaceIsAnAgent
<1>4. /\ after \in Run /\ after.registry = run.registry /\ after.policy = run.policy
      /\ after.bindings = run.bindings
      /\ \/ after.pc = "truncate"
         \/ after.pc = "env" /\ after.next \in Following(run.registry, run.next + 1)
  BY <1>1, <1>2, <1>3, OnwardIs
<1>5. Following(run.registry, run.next + 1) \subseteq Following(run.registry, 1)
  BY <1>2, <1>3 DEF Following, OrgAssumption, RegistryOf
<1> HIDE DEF after
<1>6. RunOK(p)'
  <2>1. provision'[p] = after
    BY <1>1 DEF IssuedOK
  <2> QED
    BY <1>1, <1>2, <1>4, <1>5, <2>1 DEF RunOK
<1>7. mounts' \in [Agents -> (SUBSET (Brains \ Templated)) \cup {None}]
  BY <1>1, <1>2, MountsAreShared DEF IssuedOK
<1>8. /\ provision' \in [Provisions -> Run] /\ \A q \in Provisions : RunOK(q)'
      /\ IsFiniteSet(Started')
  BY <1>1, <1>4, <1>6, StepOfOne
<1> QED
  BY <1>1, <1>7, <1>8 DEF IssuedOK

\* The last steps of a run, and its end before them, only change where it stands.
LEMMA EndIssued ==
  ASSUME IssuedOK, NEW p \in Provisions, TruncateStore(p) \/ WriteStore(p) \/ KillProvision(p)
  PROVE  /\ \E pc \in {"store", "done", "killed"} :
              provision' = [provision EXCEPT ![p] = [provision[p] EXCEPT !.pc = pc]]
         /\ IssuedOK'
<1>1. PICK pc \in {"store", "done", "killed"} :
        provision' = [provision EXCEPT ![p] = [provision[p] EXCEPT !.pc = pc]]
  BY DEF TruncateStore, WriteStore, KillProvision, IssuedOK
<1> DEFINE after == [provision[p] EXCEPT !.pc = pc]
<1>2. provision[p] \in Run /\ p \in Started /\ RunOK(p) /\ UNCHANGED <<env, mounts>>
  BY DEF TruncateStore, WriteStore, KillProvision, IssuedOK, Active, Started
<1>3. /\ after \in Run /\ after.pc = pc /\ after.registry = provision[p].registry
      /\ after.policy = provision[p].policy /\ after.bindings = provision[p].bindings
  BY <1>2 DEF Run, Pcs
<1>4. provision' = [provision EXCEPT ![p] = after]
  BY <1>1
<1> HIDE DEF after
<1>5. RunOK(p)'
  <2>1. provision'[p] = after
    BY <1>4 DEF IssuedOK
  <2> QED
    BY <1>2, <1>3, <2>1 DEF RunOK, Started
<1>6. /\ provision' \in [Provisions -> Run] /\ \A q \in Provisions : RunOK(q)'
      /\ IsFiniteSet(Started')
  BY <1>2, <1>3, <1>4, <1>5, StepOfOne
<1>7. store' \subseteq Bindings
  BY <1>2 DEF TruncateStore, WriteStore, KillProvision, IssuedOK, Run
<1> QED
  BY <1>1, <1>2, <1>6, <1>7 DEF IssuedOK

LEMMA StoreEdited ==
  ASSUME IssuedOK, EditStore
  PROVE  /\ IssuedOK' /\ UNCHANGED <<env, mounts, provision>>
         /\ \A c \in store' : \E b \in store : c.subject = b.subject
         /\ \A b \in store : \E c \in store' : c.subject = b.subject /\ c.agentId = b.agentId
<1>1. UNCHANGED <<env, mounts, provision>>
  BY DEF EditStore, Edit
<1>2. \E b \in store, enabled \in BOOLEAN, t \in Tenants :
        store' = (store \ {b}) \cup {[b EXCEPT !.enabled = enabled, !.tenantId = t]}
  BY DEF EditStore
<1>3. PICK b \in store : \E enabled \in BOOLEAN : \E t \in Tenants :
        store' = (store \ {b}) \cup {[b EXCEPT !.enabled = enabled, !.tenantId = t]}
  BY <1>2
<1>4. PICK enabled \in BOOLEAN : \E t \in Tenants :
        store' = (store \ {b}) \cup {[b EXCEPT !.enabled = enabled, !.tenantId = t]}
  BY <1>3
<1>5. PICK t \in Tenants :
        store' = (store \ {b}) \cup {[b EXCEPT !.enabled = enabled, !.tenantId = t]}
  BY <1>4
<1> DEFINE c == [b EXCEPT !.enabled = enabled, !.tenantId = t]
<1>6. c \in Bindings /\ c.subject = b.subject /\ c.agentId = b.agentId
  BY DEF IssuedOK, Bindings
<1> HIDE DEF c
<1>7. store' = (store \ {b}) \cup {c}
  BY <1>5 DEF c
<1>8. store' \subseteq Bindings
  BY <1>6, <1>7 DEF IssuedOK
<1> QED
  BY <1>1, <1>6, <1>7, <1>8 DEF IssuedOK, RunOK, Started

-----------------------------------------------------------------------------
(* provision: whose tokens are bound *)

\* The orders say which run started first: they are below the number of runs that have started,
\* and a run that is alone started before every other that is still under way.
OrdersOK ==
  /\ \A p \in Provisions \ Started : provision[p] = Waiting
  /\ \A p \in Started : provision[p].order < Cardinality(Started)
  /\ \A p \in Started, q \in Provisions :
       p # q /\ provision[p].alone /\ Active(q) => provision[p].order < provision[q].order

Latest(p) == \A q \in Provisions : provision[q].order <= provision[p].order

\* The agents whose agent.env a run has written.
Written(run) ==
  {i \in Following(run.registry, 1) :
     (run.pc = "env" => i < run.next) /\ (run.pc = "mounts" => i <= run.next)}

\* As long as the last run to start is alone, it is about to bind the tokens in the agent.env
\* that it has written, and when it is done they are bound and no others are.
Rotating(p) ==
  LET run == provision[p] IN
  (Active(p) \/ run.pc = "done") /\ run.alone /\ Latest(p) =>
    /\ \A i \in Written(run) :
         \E b \in run.bindings : b.agentId = run.registry.agents[i].agentId /\ b.subject = env[b.agentId]
    /\ run.pc = "done" =>
         /\ \A c \in store : c.subject.by = p
         /\ \A b \in run.bindings : \E c \in store : c.agentId = b.agentId /\ c.subject = b.subject

RotationOK == OrdersOK /\ \A p \in Provisions : Rotating(p)

LEMMA RotationInit == Init => RotationOK
BY DEF Init, RotationOK, OrdersOK, Rotating, Waiting, Started, Active

\* A run that starts is the latest, and its own first step.
LEMMA StartRotates ==
  ASSUME OrgAssumption, FilesOK, IssuedOK, RotationOK, NEW p \in Provisions, StartProvision(p)
  PROVE  RotationOK'
<1>1. \A q \in Provisions \ {p} :
        /\ provision'[q].order = provision[q].order /\ provision'[q].pc = provision[q].pc
        /\ provision'[q].alone => provision[q].alone /\ ~Active(q)
        /\ q \notin Started => provision'[q] = provision[q]
        /\ Active(q)' <=> Active(q)
  <2> SUFFICES ASSUME NEW q \in Provisions \ {p}
               PROVE  /\ provision'[q].order = provision[q].order /\ provision'[q].pc = provision[q].pc
                      /\ provision'[q].alone => provision[q].alone /\ ~Active(q)
                      /\ q \notin Started => provision'[q] = provision[q]
                      /\ Active(q)' <=> Active(q)
    OBVIOUS
  <2>1. CASE provision'[q] = provision[q] /\ ~Active(q)
    BY <2>1 DEF Active
  <2>2. CASE provision'[q] = [provision[q] EXCEPT !.alone = FALSE] /\ Active(q)
    BY <2>2 DEF Active, IssuedOK, Run, Started
  <2> QED
    BY <2>1, <2>2, StartIs
<1>2. /\ Started' = Started \cup {p} /\ p \notin Started
      /\ Cardinality(Started') = Cardinality(Started) + 1 /\ Cardinality(Started) \in Nat
  BY StartedAdds, FS_CardinalityType DEF IssuedOK
<1>3. provision'[p].order = Cardinality(Started)
  BY StartIs
<1>4. \A q \in Provisions : provision[q].order \in Nat
  BY DEF IssuedOK, Run
<1>5. \A q \in Started : provision[q].order < Cardinality(Started)
  BY DEF RotationOK, OrdersOK
<1>6. OrdersOK'
  <2>1. ASSUME NEW q \in Provisions, q \notin Started'  PROVE  provision'[q] = Waiting
    BY <1>1, <1>2, <2>1 DEF RotationOK, OrdersOK
  <2>2. ASSUME NEW q \in Started'  PROVE  provision'[q].order < Cardinality(Started')
    <3>1. CASE q = p
      BY <1>2, <1>3, <3>1
    <3>2. CASE q # p
      <4>1. q \in Provisions /\ q \in Started
        BY <1>2, <3>2 DEF Started
      <4> QED
        BY <1>1, <1>2, <1>4, <1>5, <3>2, <4>1
    <3> QED
      BY <3>1, <3>2
  <2>3. ASSUME NEW r \in Started', NEW q \in Provisions, r # q, provision'[r].alone, Active(q)'
        PROVE  provision'[r].order < provision'[q].order
    <3>1. r \in Provisions
      BY DEF Started
    <3>2. CASE r = p
      <4>1. ~Active(q)
        BY <2>3, <3>2, StartIs
      <4> QED
        BY <1>1, <2>3, <3>2, <4>1
    <3>3. CASE r # p /\ q = p
      BY <1>1, <1>2, <1>3, <1>5, <3>1, <3>3
    <3>4. CASE r # p /\ q # p
      <4>1. r \in Started /\ provision[r].alone /\ Active(q)
        BY <1>1, <1>2, <2>3, <3>1, <3>4
      <4>2. provision[r].order < provision[q].order
        BY <2>3, <4>1 DEF RotationOK, OrdersOK
      <4> QED
        BY <1>1, <3>1, <3>4, <4>2
    <3> QED
      BY <3>2, <3>3, <3>4
  <2> QED
    BY <2>1, <2>2, <2>3 DEF OrdersOK
<1>7. Rotating(p)'
  <2>1. CASE provision'[p].pc = "truncate"
    <3>1. Following(provision'[p].registry, 1) = {}
      BY <2>1, StartIs
    <3> QED
      BY <2>1, <3>1 DEF Rotating, Written
  <2>2. CASE provision'[p].pc = "env"
    <3>1. \A j \in Following(provision'[p].registry, 1) : provision'[p].next <= j
      BY <2>2, StartIs
    <3>2. \A j \in Following(provision'[p].registry, 1) : j \in Nat
      BY PlaceIsAnAgent, StartIs
    <3>3. provision'[p].next \in Nat
      BY <2>2, <3>2, StartIs
    <3>4. Written(provision'[p]) = {}
      BY <2>2, <3>1, <3>2, <3>3 DEF Written
    <3> QED
      BY <2>2, <3>4 DEF Rotating
  <2> QED
    BY <2>1, <2>2, StartIs
<1>8. ASSUME NEW q \in Provisions \ {p}, Latest(q)', Active(q)' \/ provision'[q].pc = "done"  PROVE  FALSE
  <2>1. q \in Started
    BY <1>1, <1>8 DEF Started, Active
  <2>2. provision'[p].order <= provision'[q].order
    BY <1>8 DEF Latest
  <2> QED
    BY <1>1, <1>2, <1>3, <1>4, <1>5, <2>1, <2>2
<1>9. ASSUME NEW q \in Provisions \ {p}  PROVE  Rotating(q)'
  BY <1>8 DEF Rotating, Latest, Active
<1> QED
  BY <1>6, <1>7, <1>9 DEF RotationOK

\* A step of a run that neither starts one nor lets any go on after its end.
LEMMA OrdersKept ==
  ASSUME IssuedOK, OrdersOK, Started' = Started,
         \A q \in Provisions : /\ provision'[q].order = provision[q].order
                               /\ provision'[q].alone = provision[q].alone
                               /\ Active(q)' => Active(q)
                               /\ q \notin Started => provision'[q] = provision[q]
  PROVE  OrdersOK'
<1>1. Started \subseteq Provisions
  BY DEF Started
<1>2. \A q \in Provisions \ Started' : provision'[q] = Waiting
  BY DEF OrdersOK
<1>3. \A q \in Started' : provision'[q].order < Cardinality(Started')
  BY <1>1 DEF OrdersOK
<1>4. \A q \in Started', r \in Provisions :
        q # r /\ provision'[q].alone /\ Active(r)' => provision'[q].order < provision'[r].order
  BY <1>1 DEF OrdersOK
<1> QED
  BY <1>2, <1>3, <1>4 DEF OrdersOK

\* While a run is under way, no other is the last to start and alone.
LEMMA OthersAreNotLatest ==
  ASSUME IssuedOK, OrdersOK, NEW p \in Provisions, NEW q \in Provisions, p # q, Active(p),
         Active(q) \/ provision[q].pc = "done", provision[q].alone
  PROVE  ~Latest(q)
<1>1. q \in Started
  BY DEF Started, Active
<1>2. provision[q].order < provision[p].order
  BY <1>1 DEF OrdersOK
<1>3. provision[q].order \in Nat /\ provision[p].order \in Nat
  BY DEF IssuedOK, Run
<1> QED
  BY <1>2, <1>3 DEF Latest

\* A step of the run p, which is under way, that leaves it its place among the runs.
LEMMA StepRotates ==
  ASSUME IssuedOK, RotationOK, NEW p \in Provisions, Active(p), NEW run \in Run,
         provision' = [provision EXCEPT ![p] = run],
         run.order = provision[p].order, run.alone = provision[p].alone, run.pc # "waiting",
         run.alone /\ Latest(p) => Rotating(p)'
  PROVE  RotationOK'
<1>1. provision'[p] = run /\ \A q \in Provisions \ {p} : provision'[q] = provision[q]
  BY DEF IssuedOK
<1>2. p \in Started
  BY DEF Started, Active
<1>3. Started' = Started
  BY <1>1, <1>2 DEF Started
<1>4. \A q \in Provisions : /\ provision'[q].order = provision[q].order
                            /\ provision'[q].alone = provision[q].alone
                            /\ Active(q)' => Active(q)
                            /\ q \notin Started => provision'[q] = provision[q]
  BY <1>1, <1>2 DEF Active
<1>5. OrdersOK'
  BY <1>3, <1>4, OrdersKept DEF RotationOK
<1>6. \A q \in Provisions : Latest(q)' <=> Latest(q)
  BY <1>4 DEF Latest
<1>7. Rotating(p)'
  BY <1>1, <1>6 DEF Rotating
<1>8. ASSUME NEW q \in Provisions, q # p  PROVE  Rotating(q)'
  <2>1. provision'[q] = provision[q]
    BY <1>1, <1>8
  <2>2. (Active(q) \/ provision[q].pc = "done") /\ provision[q].alone => ~Latest(q)
    BY <1>8, OthersAreNotLatest DEF RotationOK
  <2> QED
    BY <1>6, <2>1, <2>2 DEF Rotating, Active
<1> QED
  BY <1>5, <1>7, <1>8 DEF RotationOK

\* The steps that are not a run's leave what the runs are about to bind as it is.
LEMMA RotationKept ==
  ASSUME IssuedOK, RotationOK, UNCHANGED <<env, provision>>,
         \A c \in store' : \E b \in store : c.subject = b.subject,
         \A b \in store : \E c \in store' : c.subject = b.subject /\ c.agentId = b.agentId
  PROVE  RotationOK'
<1>1. OrdersOK'
  BY DEF RotationOK, OrdersOK, Started, Active
<1>2. ASSUME NEW p \in Provisions  PROVE  Rotating(p)'
  <2>1. Rotating(p)
    BY DEF RotationOK
  <2>2. (\A c \in store : c.subject.by = p) => \A c \in store' : c.subject.by = p
    OBVIOUS
  <2>3. \A b \in provision[p].bindings :
          (\E c \in store : c.agentId = b.agentId /\ c.subject = b.subject)
            => \E c \in store' : c.agentId = b.agentId /\ c.subject = b.subject
    OBVIOUS
  <2> QED
    BY <2>1, <2>2, <2>3 DEF Rotating, Active, Latest, Written
<1> QED
  BY <1>1, <1>2 DEF RotationOK

LEMMA EnvRotates ==
  ASSUME OrgAssumption, IssuedOK, RotationOK, NEW p \in Provisions, WriteEnv(p)
  PROVE  RotationOK'
<1> DEFINE run == provision[p]
           agent == run.registry.agents[run.next]
           token == [by |-> p, nth |-> run.next]
           binding == [subject |-> token, agentId |-> agent.agentId,
                       tenantId |-> run.registry.tenant, enabled |-> TRUE]
           after == [run EXCEPT !.pc = "mounts", !.bindings = @ \cup {binding}]
<1>1. /\ run \in Run /\ RunOK(p) /\ run.pc = "env" /\ Active(p)
      /\ env' = [env EXCEPT ![agent.agentId] = token]
      /\ UNCHANGED <<mounts, store>>
  BY DEF WriteEnv, IssuedOK, Active
<1>2. provision' = [provision EXCEPT ![p] = after]
  BY DEF WriteEnv, IssuedOK
<1>3. run.next \in Following(run.registry, 1) /\ run.registry \in Registries
  BY <1>1 DEF RunOK
<1>4. /\ after.pc = "mounts" /\ after.registry = run.registry /\ after.next = run.next
      /\ after.bindings = run.bindings \cup {binding}
      /\ after.order = run.order /\ after.alone = run.alone
  BY <1>1 DEF Run
<1>5. provision'[p] = after /\ provision' \in [Provisions -> Run] /\ after \in Run
  <2>1. provision' \in [Provisions -> Run]
    BY EnvIssued DEF IssuedOK
  <2>2. provision'[p] = after
    BY <1>2 DEF IssuedOK
  <2> QED
    BY <2>1, <2>2
<1> HIDE DEF after
<1>6. ASSUME run.alone, Latest(p)  PROVE  Rotating(p)'
  <2>1. \A i \in Written(run) :
          \E b \in run.bindings : b.agentId = run.registry.agents[i].agentId /\ b.subject = env[b.agentId]
    BY <1>1, <1>6 DEF RotationOK, Rotating
  <2>2. ASSUME NEW i \in Written(after)
        PROVE  \E b \in after.bindings :
                 b.agentId = run.registry.agents[i].agentId /\ b.subject = env'[b.agentId]
    <3>1. i \in Following(run.registry, 1) /\ i <= run.next
      BY <1>4 DEF Written
    <3>2. agent.agentId \in Agents /\ run.next \in Nat /\ i \in Nat /\ run.registry.agents[i].agentId \in Agents
      BY <1>3, <3>1, PlaceIsAnAgent
    <3>3. binding \in after.bindings /\ binding.agentId = agent.agentId
          /\ binding.subject = token /\ env'[agent.agentId] = token
      BY <1>1, <1>4, <3>2 DEF IssuedOK
    <3>4. CASE run.registry.agents[i].agentId = agent.agentId
      <4> HIDE DEF binding, agent
      <4> QED
        BY <3>3, <3>4
    <3>5. CASE run.registry.agents[i].agentId # agent.agentId
      <4>1. i < run.next
        BY <3>1, <3>2, <3>5
      <4>2. i \in Written(run)
        BY <1>1, <3>1, <4>1 DEF Written
      <4>3. PICK b \in run.bindings :
              b.agentId = run.registry.agents[i].agentId /\ b.subject = env[b.agentId]
        BY <2>1, <4>2
      <4>4. env'[b.agentId] = env[b.agentId]
        BY <1>1, <3>2, <3>5, <4>3 DEF IssuedOK
      <4> HIDE DEF binding
      <4> QED
        BY <1>4, <4>3, <4>4
    <3> QED
      BY <3>4, <3>5
  <2> HIDE DEF binding, agent
  <2> QED
    BY <1>4, <1>5, <2>2 DEF Rotating
<1> HIDE DEF binding
<1>7. after.pc # "waiting"
  BY <1>4
<1> QED
  BY <1>1, <1>2, <1>4, <1>5, <1>6, <1>7, StepRotates

LEMMA MountsRotate ==
  ASSUME OrgAssumption, IssuedOK, RotationOK, NEW p \in Provisions, WriteMounts(p)
  PROVE  RotationOK'
<1> DEFINE run == provision[p]
           after == Onward(run, run.next + 1)
<1>1. /\ run \in Run /\ RunOK(p) /\ run.pc = "mounts" /\ Active(p)
      /\ provision' = [provision EXCEPT ![p] = after]
      /\ UNCHANGED <<env, store>>
  BY DEF WriteMounts, IssuedOK, Active
<1>2. run.next \in Following(run.registry, 1) /\ run.registry \in Registries
  BY <1>1 DEF RunOK
<1>3. run.next \in Nat
  BY <1>2, PlaceIsAnAgent
<1>4. /\ after \in Run /\ after.registry = run.registry /\ after.bindings = run.bindings
      /\ after.order = run.order /\ after.alone = run.alone
      /\ \/ Following(run.registry, run.next + 1) = {} /\ after.pc = "truncate"
         \/ /\ after.pc = "env" /\ after.next \in Following(run.registry, run.next + 1)
            /\ \A j \in Following(run.registry, run.next + 1) : after.next <= j
  <2> DEFINE i == run.next + 1
  <2>1. run \in Run /\ i \in Nat /\ run.registry \in Registries
    BY <1>1, <1>2, <1>3
  <2> HIDE DEF i, run
  <2>2. /\ Onward(run, i) \in Run /\ Onward(run, i).registry = run.registry
        /\ Onward(run, i).bindings = run.bindings
        /\ Onward(run, i).order = run.order /\ Onward(run, i).alone = run.alone
        /\ \/ Following(run.registry, i) = {} /\ Onward(run, i).pc = "truncate"
           \/ /\ Onward(run, i).pc = "env" /\ Onward(run, i).next \in Following(run.registry, i)
              /\ \A j \in Following(run.registry, i) : Onward(run, i).next <= j
    BY <2>1, OnwardIs
  <2> QED
    BY <2>2 DEF i
<1> HIDE DEF after
<1>5. Written(after) \subseteq Written(run)
  <2> SUFFICES ASSUME NEW i \in Written(after)  PROVE  i \in Written(run)
    OBVIOUS
  <2>1. i \in Following(run.registry, 1) /\ i \in Nat
    BY <1>2, <1>4, PlaceIsAnAgent DEF Written
  <2>2. after.next \in Nat
    BY <1>4 DEF Run
  <2>3. i \notin Following(run.registry, run.next + 1)
    <3>1. CASE Following(run.registry, run.next + 1) = {}
      BY <3>1
    <3>2. CASE after.pc = "env" /\ \A j \in Following(run.registry, run.next + 1) : after.next <= j
      <4>1. i < after.next
        BY <3>2 DEF Written
      <4> QED
        BY <2>1, <2>2, <3>2, <4>1
    <3> QED
      BY <1>4, <3>1, <3>2
  <2>4. i <= run.next
    BY <1>3, <2>1, <2>3 DEF Following
  <2> QED
    BY <1>1, <2>1, <2>4 DEF Written
<1>6. ASSUME run.alone, Latest(p)  PROVE  Rotating(p)'
  <2>1. \A i \in Written(run) :
          \E b \in run.bindings : b.agentId = run.registry.agents[i].agentId /\ b.subject = env[b.agentId]
    BY <1>1, <1>6 DEF RotationOK, Rotating
  <2>2. provision'[p] = after /\ after.pc # "done"
    BY <1>1, <1>4 DEF IssuedOK
  <2> QED
    BY <1>1, <1>4, <1>5, <2>1, <2>2 DEF Rotating
<1>7. after.pc # "waiting"
  BY <1>4
<1> QED
  BY <1>1, <1>4, <1>6, <1>7, StepRotates

LEMMA EndRotates ==
  ASSUME IssuedOK, RotationOK, NEW p \in Provisions,
         TruncateStore(p) \/ WriteStore(p) \/ KillProvision(p)
  PROVE  RotationOK'
<1>1. PICK pc \in {"store", "done", "killed"} :
        provision' = [provision EXCEPT ![p] = [provision[p] EXCEPT !.pc = pc]]
  BY EndIssued
<1> DEFINE run == provision[p]
           after == [provision[p] EXCEPT !.pc = pc]
<1>2. run \in Run /\ Active(p) /\ UNCHANGED env /\ RunOK(p)
  BY DEF TruncateStore, WriteStore, KillProvision, IssuedOK, Active
<1>3. /\ after \in Run /\ after.pc = pc /\ after.registry = run.registry /\ after.next = run.next
      /\ after.bindings = run.bindings /\ after.order = run.order /\ after.alone = run.alone
  BY <1>2 DEF Run, Pcs
<1>4. provision' = [provision EXCEPT ![p] = after] /\ provision'[p] = after
  BY <1>1 DEF IssuedOK
<1> HIDE DEF after
<1>5. ASSUME run.alone, Latest(p)  PROVE  Rotating(p)'
  <2>1. \A i \in Written(run) :
          \E b \in run.bindings : b.agentId = run.registry.agents[i].agentId /\ b.subject = env[b.agentId]
    BY <1>2, <1>5 DEF RotationOK, Rotating
  <2>2. CASE KillProvision(p)
    <3>1. pc = "killed"
      BY <1>2, <1>3, <1>4, <2>2 DEF KillProvision, IssuedOK, Run
    <3> QED
      BY <1>3, <1>4, <3>1 DEF Rotating, Active
  <2>3. CASE TruncateStore(p)
    <3>1. pc = "store" /\ run.pc = "truncate"
      BY <1>2, <1>3, <1>4, <2>3 DEF TruncateStore, IssuedOK, Run
    <3>2. Written(after) = Written(run)
      BY <1>3, <3>1 DEF Written
    <3> QED
      BY <1>2, <1>3, <1>4, <2>1, <3>1, <3>2 DEF Rotating
  <2>4. CASE WriteStore(p)
    <3>1. pc = "done" /\ run.pc = "store" /\ store' = run.bindings
      BY <1>2, <1>3, <1>4, <2>4 DEF WriteStore, IssuedOK, Run
    <3>2. Written(after) = Written(run)
      BY <1>3, <3>1 DEF Written
    <3>3. \A c \in run.bindings : c.subject.by = p
      BY <1>2 DEF RunOK
    <3> QED
      BY <1>2, <1>3, <1>4, <2>1, <3>1, <3>2, <3>3 DEF Rotating
  <2> QED
    BY <2>2, <2>3, <2>4
<1>6. after.pc # "waiting"
  BY <1>3
<1> QED
  BY <1>2, <1>3, <1>4, <1>5, <1>6, StepRotates

-----------------------------------------------------------------------------
(* What the server loaded, and whom its log names *)

ServerOK ==
  /\ server.store \subseteq Bindings
  /\ server.mode = "org" => server.registry \in Registries /\ server.store # {}

\* The steps that touch neither the server nor its log.
LEMMA ServerKept ==
  ASSUME ServerOK, LogIsTheHolders, UNCHANGED <<server, log>>
  PROVE  ServerOK' /\ LogIsTheHolders'
BY DEF ServerOK, LogIsTheHolders, Held

\* The binding of a token.
Bound(token) == CHOOSE b \in {b \in server.store : b.subject = token} : TRUE

\* An identity is that of the binding of the token, enabled in the file and in the registry.
LEMMA IdentityIsBound ==
  ASSUME NEW token, NEW claimed, resolveIdentity(token, claimed).ok
  PROVE  /\ Bound(token) \in server.store /\ Bound(token).subject = token /\ Bound(token).enabled
         /\ isAgentEnabled(server.registry, Bound(token).agentId)
         /\ resolveIdentity(token, claimed) =
              [ok |-> TRUE, agentId |-> Bound(token).agentId, tenantId |-> Bound(token).tenantId,
               roles |-> resolveAgentRoles(server.registry, Bound(token).agentId)]
<1> DEFINE bound == {b \in server.store : b.subject = token}
<1>1. bound # {} /\ Bound(token).enabled
  BY DEF resolveIdentity, Bound
<1>2. Bound(token) \in bound
  BY <1>1 DEF Bound
<1>3. claimed \in {None, Bound(token).agentId} /\ isAgentEnabled(server.registry, Bound(token).agentId)
  BY <1>1 DEF resolveIdentity, Bound
<1>4. resolveIdentity(token, claimed) =
        [ok |-> TRUE, agentId |-> Bound(token).agentId, tenantId |-> Bound(token).tenantId,
         roles |-> resolveAgentRoles(server.registry, Bound(token).agentId)]
  BY <1>1, <1>3 DEF resolveIdentity, Bound
<1> QED
  BY <1>1, <1>2, <1>3, <1>4

\* The roles an enabled agent acts with are some that the registry gives him, and there are some.
LEMMA RolesAreHeld ==
  ASSUME OrgAssumption, ServerOK, server.mode = "org", NEW id, isAgentEnabled(server.registry, id)
  PROVE  resolveAgentRoles(server.registry, id) # {} /\ resolveAgentRoles(server.registry, id) \subseteq Held(id)
<1> DEFINE agents == server.registry.agents
           places == {i \in DOMAIN agents : agents[i].agentId = id /\ agents[i].enabled}
<1>1. agents \in Seq([agentId : Agents, roles : (SUBSET Roles) \ {{}}, enabled : BOOLEAN])
  BY DEF OrgAssumption, ServerOK, RegistryOf
<1>2. places \subseteq Nat /\ places # {}
  BY <1>1 DEF isAgentEnabled
<1>3. Least(places) \in places
  BY <1>2, LeastIn
<1>4. resolveAgentRoles(server.registry, id) = agents[Least(places)].roles
  BY <1>2 DEF resolveAgentRoles
<1>5. agents[Least(places)].roles # {}
  <2> DEFINE Entry == [agentId : Agents, roles : (SUBSET Roles) \ {{}}, enabled : BOOLEAN]
  <2>1. \A i \in DOMAIN agents : agents[i] \in Entry
    <3> HIDE DEF Entry, agents
    <3>1. agents \in Seq(Entry)
      BY <1>1 DEF Entry
    <3> QED
      BY <3>1
  <2>2. \A i \in DOMAIN agents : agents[i].roles # {}
    BY <2>1
  <2> QED
    BY <1>3, <2>2
<1>6. agents[Least(places)].roles \subseteq Held(id)
  BY <1>3 DEF Held
<1> QED
  BY <1>4, <1>5, <1>6

\* What is not denied where unknown actions are denied was open to a role of the context.
LEMMA OpenToARole ==
  ASSUME NEW rules, NEW ctx, evaluate(rules, TRUE, ctx) # "deny"
  PROVE  \E rule \in rules :
           ctx.action \in rule.actions /\ (rule.roles = {} \/ rule.roles \cap ctx.roles # {})
<1>1. PICK rule \in rules : Applies(rule, ctx)
  BY DEF evaluate
<1>2. ctx.action \in rule.actions /\ Scoped(rule, ctx)
  BY <1>1 DEF Applies
<1>3. rule.roles = {} \/ rule.roles \cap ctx.roles # {}
  BY <1>2 DEF Scoped
<1> QED
  BY <1>2, <1>3

\* What LogIsTheHolders says of one record.
Sound(r) ==
  /\ \E b \in server.store :
       b.subject = r.by /\ b.enabled /\ b.agentId = r.agentId /\ b.tenantId = r.tenantId
  /\ Held(r.agentId) # {}
  /\ r.kind = "evaluation" /\ r.verdict # "deny" /\ DenyUnknown =>
       \E rule \in PackRules :
         r.action \in rule.actions /\ (rule.roles = {} \/ rule.roles \cap Held(r.agentId) # {})

\* A request that adds a sound record to the log keeps the property.
LEMMA SoundAdded ==
  ASSUME ServerOK, LogIsTheHolders, UNCHANGED server,
         NEW r, log' = log \cup {r}, server.mode = "org" => Sound(r)
  PROVE  ServerOK' /\ LogIsTheHolders'
BY DEF ServerOK, LogIsTheHolders, Sound, Held

LEMMA EvaluateSound ==
  ASSUME OrgAssumption, ServerOK, LogIsTheHolders,
         NEW token, NEW claimed, NEW roles, NEW action, Evaluate(token, claimed, roles, action)
  PROVE  ServerOK' /\ LogIsTheHolders'
<1> DEFINE identity == IF server.mode = "org" THEN resolveIdentity(token, claimed) ELSE [ok |-> TRUE]
           ctx == EvaluateContext(identity, claimed, roles, action)
           verdict == evaluate(RulesOf(RequestTenant(token)), DenyUnknown, ctx)
           r == [kind |-> "evaluation", tenantId |-> RequestTenant(token), agentId |-> ctx.agentId,
                 action |-> action, verdict |-> verdict, by |-> token]
<1>1. UNCHANGED server
  BY DEF Evaluate, Request
<1>2. CASE ~Admitted(token) \/ ~identity.ok
  <2>1. UNCHANGED log
    BY <1>2 DEF Evaluate, Refused
  <2> QED
    BY <1>1, <2>1, ServerKept
<1>3. CASE Admitted(token) /\ identity.ok
  <2>1. log' = log \cup {r}
    BY <1>3 DEF Evaluate
  <2>2. ASSUME server.mode = "org"  PROVE  Sound(r)
    <3> DEFINE b == Bound(token)
    <3>1. resolveIdentity(token, None).ok
      BY <1>3, <2>2 DEF Admitted
    <3>2. RequestTenant(token) = b.tenantId
      BY <2>2, <3>1, IdentityIsBound DEF RequestTenant
    <3>3. /\ b \in server.store /\ b.subject = token /\ b.enabled
          /\ isAgentEnabled(server.registry, b.agentId)
          /\ identity = [ok |-> TRUE, agentId |-> b.agentId, tenantId |-> b.tenantId,
                         roles |-> resolveAgentRoles(server.registry, b.agentId)]
      BY <1>3, <2>2, IdentityIsBound
    <3>4. ctx.agentId = b.agentId /\ ctx.roles = identity.roles /\ ctx.action = action
      BY <2>2, <3>3 DEF EvaluateContext
    <3>5. ctx.roles # {} /\ ctx.roles \subseteq Held(b.agentId)
      BY <2>2, <3>3, <3>4, RolesAreHeld
    <3>6. ASSUME verdict # "deny", DenyUnknown
          PROVE  \E rule \in PackRules :
                   action \in rule.actions /\ (rule.roles = {} \/ rule.roles \cap Held(b.agentId) # {})
      <4>1. PICK rule \in RulesOf(RequestTenant(token)) :
              ctx.action \in rule.actions /\ (rule.roles = {} \/ rule.roles \cap ctx.roles # {})
        <5>1. DenyUnknown = TRUE
          BY <3>6 DEF OrgAssumption
        <5> QED
          BY <3>6, <5>1, OpenToARole
      <4> QED
        BY <3>4, <3>5, <4>1 DEF RulesOf
    <3>7. r.by = token /\ r.agentId = b.agentId /\ r.tenantId = b.tenantId /\ r.action = action
          /\ r.verdict = verdict
      BY <3>2, <3>4
    <3> HIDE DEF r, verdict, ctx, b
    <3> QED
      BY <3>3, <3>5, <3>6, <3>7 DEF Sound
  <2> HIDE DEF r
  <2> QED
    BY <1>1, <2>1, <2>2, SoundAdded
<1> QED
  BY <1>2, <1>3

LEMMA RecordSound ==
  ASSUME OrgAssumption, ServerOK, LogIsTheHolders, NEW token, NEW action, RecordExecution(token, action)
  PROVE  ServerOK' /\ LogIsTheHolders'
<1> DEFINE id == IF server.mode = "org" THEN resolveIdentity(token, None).agentId ELSE None
           r == [kind |-> "execution", tenantId |-> RequestTenant(token), agentId |-> id,
                 action |-> action, verdict |-> "none", by |-> token]
<1>1. UNCHANGED server
  BY DEF RecordExecution, Request
<1>2. CASE ~Admitted(token)
  <2>1. UNCHANGED log
    BY <1>2 DEF RecordExecution, Refused
  <2> QED
    BY <1>1, <2>1, ServerKept
<1>3. CASE Admitted(token)
  <2>1. log' = log \cup {r}
    BY <1>3 DEF RecordExecution
  <2>2. ASSUME server.mode = "org"  PROVE  Sound(r)
    <3> DEFINE b == Bound(token)
    <3>1. resolveIdentity(token, None).ok
      BY <1>3, <2>2 DEF Admitted
    <3>2. /\ b \in server.store /\ b.subject = token /\ b.enabled
          /\ isAgentEnabled(server.registry, b.agentId)
          /\ RequestTenant(token) = b.tenantId /\ id = b.agentId
      BY <2>2, <3>1, IdentityIsBound DEF RequestTenant
    <3>3. Held(b.agentId) # {}
      BY <2>2, <3>2, RolesAreHeld
    <3>4. r.by = token /\ r.agentId = b.agentId /\ r.tenantId = b.tenantId /\ r.kind = "execution"
      BY <3>2
    <3> HIDE DEF r, id, b
    <3> QED
      BY <3>2, <3>3, <3>4 DEF Sound
  <2> HIDE DEF r
  <2> QED
    BY <1>1, <2>1, <2>2, SoundAdded
<1> QED
  BY <1>2, <1>3

-----------------------------------------------------------------------------
(* What the log and the answers are made of *)

LogTyped ==
  \A r \in log :
    /\ r.tenantId \in Tenants /\ r.agentId \in Agents \cup {None} /\ r.action \in Actions
    /\ r.verdict \in VerdictResults \cup {"none"}
    /\ server.mode # "off"
AnswerTyped ==
  /\ answer.kind \in {"none", "records", "rules", "config"}
  /\ answer.token \in Tokens \cup {None, Bearer}

LEMMA PresentedToken ==
  ASSUME IssuedOK, ServerOK, NEW token \in Presented
  PROVE  token \in Tokens \cup {None, Bearer}
BY DEF IssuedOK, ServerOK, Presented, Bindings

\* The tenant and the agent of a request that is admitted.
LEMMA RequestIsTyped ==
  ASSUME OrgAssumption, ServerOK, NEW token, Admitted(token)
  PROVE  /\ RequestTenant(token) \in Tenants
         /\ \A claimed : server.mode = "org" /\ resolveIdentity(token, claimed).ok
                           => resolveIdentity(token, claimed).agentId \in Agents
<1>1. \A b \in server.store : b.agentId \in Agents /\ b.tenantId \in Tenants
  BY DEF ServerOK, Bindings
<1>2. ASSUME server.mode = "org"  PROVE  RequestTenant(token) \in Tenants
  <2>1. resolveIdentity(token, None).ok
    BY <1>2 DEF Admitted
  <2> QED
    BY <1>1, <1>2, <2>1, IdentityIsBound DEF RequestTenant
<1>3. server.mode # "org" => RequestTenant(token) \in Tenants
  BY DEF RequestTenant, OrgAssumption
<1>4. ASSUME NEW claimed, resolveIdentity(token, claimed).ok
      PROVE  resolveIdentity(token, claimed).agentId \in Agents
  BY <1>1, <1>4, IdentityIsBound
<1> QED
  BY <1>2, <1>3, <1>4

LEMMA VerdictIsTyped ==
  ASSUME NEW rules, NEW denyUnknown, NEW ctx
  PROVE  evaluate(rules, denyUnknown, ctx) \in VerdictResults
BY DEF evaluate, arbitrate, VerdictResults

LEMMA EvaluateTyped ==
  ASSUME OrgAssumption, ServerOK, LogTyped, NEW token, NEW claimed \in Agents \cup {None}, NEW roles,
         NEW action \in Actions, Evaluate(token, claimed, roles, action)
  PROVE  LogTyped' /\ answer' = NoAnswer
<1> DEFINE identity == IF server.mode = "org" THEN resolveIdentity(token, claimed) ELSE [ok |-> TRUE]
           ctx == EvaluateContext(identity, claimed, roles, action)
           verdict == evaluate(RulesOf(RequestTenant(token)), DenyUnknown, ctx)
           r == [kind |-> "evaluation", tenantId |-> RequestTenant(token), agentId |-> ctx.agentId,
                 action |-> action, verdict |-> verdict, by |-> token]
<1>1. UNCHANGED server /\ server.mode # "off" /\ answer' = NoAnswer
  BY DEF Evaluate, Request, Refused
<1>2. CASE ~Admitted(token) \/ ~identity.ok
  <2>1. UNCHANGED log
    BY <1>2 DEF Evaluate, Refused
  <2> QED
    BY <1>1, <2>1 DEF LogTyped
<1>3. CASE Admitted(token) /\ identity.ok
  <2>1. log' = log \cup {r}
    BY <1>3 DEF Evaluate
  <2>2. ctx.agentId \in Agents \cup {None}
    <3>1. CASE server.mode = "org"
      <4>1. identity.agentId \in Agents
        BY <1>3, <3>1, RequestIsTyped
      <4>2. ctx.agentId = identity.agentId
        BY <3>1 DEF EvaluateContext
      <4> QED
        BY <4>1, <4>2
    <3>2. CASE server.mode # "org"
      BY <3>2 DEF EvaluateContext
    <3> QED
      BY <3>1, <3>2
  <2>3. RequestTenant(token) \in Tenants /\ verdict \in VerdictResults
    BY <1>3, RequestIsTyped, VerdictIsTyped
  <2>4. /\ r.tenantId \in Tenants /\ r.agentId \in Agents \cup {None} /\ r.action \in Actions
        /\ r.verdict \in VerdictResults \cup {"none"}
    BY <2>2, <2>3
  <2> HIDE DEF r
  <2> QED
    BY <1>1, <2>1, <2>4 DEF LogTyped
<1> QED
  BY <1>1, <1>2, <1>3

LEMMA RecordTyped ==
  ASSUME OrgAssumption, ServerOK, LogTyped, NEW token, NEW action \in Actions, RecordExecution(token, action)
  PROVE  LogTyped' /\ answer' = NoAnswer
<1> DEFINE id == IF server.mode = "org" THEN resolveIdentity(token, None).agentId ELSE None
           r == [kind |-> "execution", tenantId |-> RequestTenant(token), agentId |-> id,
                 action |-> action, verdict |-> "none", by |-> token]
<1>1. UNCHANGED server /\ server.mode # "off" /\ answer' = NoAnswer
  BY DEF RecordExecution, Request, Refused
<1>2. CASE ~Admitted(token)
  <2>1. UNCHANGED log
    BY <1>2 DEF RecordExecution, Refused
  <2> QED
    BY <1>1, <2>1 DEF LogTyped
<1>3. CASE Admitted(token)
  <2>1. log' = log \cup {r}
    BY <1>3 DEF RecordExecution
  <2>2. id \in Agents \cup {None} /\ RequestTenant(token) \in Tenants
    BY <1>3, RequestIsTyped DEF Admitted
  <2>3. /\ r.tenantId \in Tenants /\ r.agentId \in Agents \cup {None} /\ r.action \in Actions
        /\ r.verdict \in VerdictResults \cup {"none"}
    BY <2>2
  <2> HIDE DEF r
  <2> QED
    BY <1>1, <2>1, <2>3 DEF LogTyped
<1> QED
  BY <1>1, <1>2, <1>3

\* An answer is the tenant's of whoever asked, and he had a role that may ask.
LEMMA ReadAuditStays ==
  ASSUME OrgAssumption, ServerOK, NEW token, NEW kind \in {"records", "rules"}, ReadAudit(token, kind)
  PROVE  ReadsStayInTenant'
<1>1. UNCHANGED <<server, log>>
  BY DEF ReadAudit, Request, Refused
<1> SUFFICES ASSUME server.mode = "org", answer' # NoAnswer
             PROVE  \E b \in server.store :
                      /\ b.subject = answer'.token
                      /\ Held(b.agentId) \cap (IF answer'.kind = "config" THEN ConfigRoles ELSE AuditRoles) # {}
                      /\ answer'.kind = "records" => \A r \in answer'.seen : r.tenantId = b.tenantId
                      /\ answer'.kind = "rules" /\ b.tenantId # ServerTenant => answer'.seen = {}
  BY <1>1 DEF ReadsStayInTenant, Held
<1>2. /\ Admitted(token) /\ resolveIdentity(token, None).roles \cap AuditRoles # {}
      /\ answer' = [kind |-> kind, token |-> token, seen |-> Visible(token, kind)]
  BY DEF ReadAudit, Refused
<1>3. resolveIdentity(token, None).ok
  BY <1>2 DEF Admitted
<1> DEFINE b == Bound(token)
<1>4. /\ b \in server.store /\ b.subject = token /\ isAgentEnabled(server.registry, b.agentId)
      /\ resolveIdentity(token, None).tenantId = b.tenantId
      /\ resolveIdentity(token, None).roles = resolveAgentRoles(server.registry, b.agentId)
  BY <1>3, IdentityIsBound
<1>5. resolveIdentity(token, None).roles \subseteq Held(b.agentId)
  BY <1>4, RolesAreHeld
<1>6. Held(b.agentId) \cap AuditRoles # {}
  BY <1>2, <1>5
<1>7. RequestTenant(token) = b.tenantId
  BY <1>4 DEF RequestTenant
<1>8. kind = "records" => \A r \in Visible(token, kind) : r.tenantId = b.tenantId
  BY <1>7 DEF Visible
<1>9. kind = "rules" /\ b.tenantId # ServerTenant => Visible(token, kind) = {}
  BY <1>7 DEF Visible, RulesOf
<1> HIDE DEF b
<1> QED
  BY <1>2, <1>4, <1>6, <1>8, <1>9

LEMMA ReadConfigStays ==
  ASSUME OrgAssumption, ServerOK, NEW token, ReadConfig(token)
  PROVE  ReadsStayInTenant'
<1>1. UNCHANGED <<server, log>>
  BY DEF ReadConfig, Request, Refused
<1> SUFFICES ASSUME server.mode = "org", answer' # NoAnswer
             PROVE  \E b \in server.store :
                      /\ b.subject = answer'.token
                      /\ Held(b.agentId) \cap (IF answer'.kind = "config" THEN ConfigRoles ELSE AuditRoles) # {}
                      /\ answer'.kind = "records" => \A r \in answer'.seen : r.tenantId = b.tenantId
                      /\ answer'.kind = "rules" /\ b.tenantId # ServerTenant => answer'.seen = {}
  BY <1>1 DEF ReadsStayInTenant, Held
<1>2. /\ Admitted(token) /\ resolveIdentity(token, None).roles \cap ConfigRoles # {}
      /\ answer'.kind = "config" /\ answer'.token = token
  BY DEF ReadConfig, Refused
<1>3. resolveIdentity(token, None).ok
  BY <1>2 DEF Admitted
<1> DEFINE b == Bound(token)
<1>4. /\ b \in server.store /\ b.subject = token /\ isAgentEnabled(server.registry, b.agentId)
      /\ resolveIdentity(token, None).roles = resolveAgentRoles(server.registry, b.agentId)
  BY <1>3, IdentityIsBound
<1>5. resolveIdentity(token, None).roles \subseteq Held(b.agentId)
  BY <1>4, RolesAreHeld
<1>6. Held(b.agentId) \cap ConfigRoles # {}
  BY <1>2, <1>5
<1> HIDE DEF b
<1> QED
  BY <1>2, <1>4, <1>6

-----------------------------------------------------------------------------
(* The invariant *)

IInv ==
  /\ FilesOK /\ IssuedOK /\ RotationOK
  /\ ServerOK /\ LogTyped /\ AnswerTyped
  /\ LogIsTheHolders /\ ReadsStayInTenant

LEMMA InitOK == OrgAssumption /\ Init => IInv
<1> SUFFICES ASSUME OrgAssumption, Init  PROVE  IInv
  OBVIOUS
<1>1. FilesOK /\ ServerOK /\ LogTyped /\ AnswerTyped /\ LogIsTheHolders /\ ReadsStayInTenant
  BY DEF Init, FilesOK, ServerOK, LogTyped, AnswerTyped, LogIsTheHolders, ReadsStayInTenant, Off, NoAnswer
<1>2. IssuedOK
  <2>1. Waiting \in Run /\ Started = {}
    BY DEF Init, Waiting, Run, Pcs, Started
  <2>2. IsFiniteSet(Started)
    BY <2>1, FS_EmptySet
  <2>3. ASSUME NEW p \in Provisions  PROVE  RunOK(p)
    BY DEF Init, RunOK, Waiting
  <2>4. /\ env \in [Agents -> Tokens \cup {None}] /\ store \subseteq Bindings
        /\ provision \in [Provisions -> Run]
    BY <2>1 DEF Init
  <2>5. mounts \in [Agents -> (SUBSET (Brains \ Templated)) \cup {None}]
    BY DEF Init
  <2> QED
    BY <2>2, <2>3, <2>4, <2>5 DEF IssuedOK
<1> QED
  BY <1>1, <1>2, RotationInit DEF IInv

\* The steps that no reader sees: those of the files.
LEMMA QuietSteps ==
  ASSUME ServerOK, LogTyped, AnswerTyped, LogIsTheHolders, ReadsStayInTenant, UNCHANGED <<server, log>>,
         answer' = NoAnswer \/ UNCHANGED answer
  PROVE  ServerOK' /\ LogTyped' /\ AnswerTyped' /\ LogIsTheHolders' /\ ReadsStayInTenant'
<1>1. ServerOK' /\ LogIsTheHolders'
  BY ServerKept
<1>2. LogTyped'
  BY DEF LogTyped
<1>3. AnswerTyped'
  BY DEF AnswerTyped, NoAnswer
<1>4. ReadsStayInTenant'
  BY DEF ReadsStayInTenant, Held
<1> QED
  BY <1>1, <1>2, <1>3, <1>4

\* The requests leave the files and what was issued as they are.
LEMMA RequestKeeps ==
  ASSUME FilesOK, IssuedOK, RotationOK, ServerOK, Request
  PROVE  FilesOK' /\ IssuedOK' /\ RotationOK' /\ ServerOK' /\ UNCHANGED server
<1>1. UNCHANGED <<registryFile, policyFile, env, mounts, store, provision, server>>
  BY DEF Request, files, issued
<1>2. IssuedOK'
  BY <1>1, IssuedKept DEF issued
<1>3. RotationOK'
  BY <1>1, RotationKept
<1> QED
  BY <1>1, <1>2, <1>3 DEF FilesOK, ServerOK

LEMMA NextOK == OrgAssumption /\ IInv /\ [Next]_vars => IInv'
<1> SUFFICES ASSUME OrgAssumption, IInv, [Next]_vars  PROVE  IInv'
  OBVIOUS
<1>1. /\ FilesOK /\ IssuedOK /\ RotationOK
      /\ ServerOK /\ LogTyped /\ AnswerTyped
      /\ LogIsTheHolders /\ ReadsStayInTenant
  BY DEF IInv
<1>2. CASE EditRegistry \/ EditPolicy \/ UNCHANGED vars
  <2>1. /\ UNCHANGED <<env, mounts, store, provision, server, log>>
        /\ answer' = NoAnswer \/ UNCHANGED answer
    BY <1>2 DEF EditRegistry, EditPolicy, Edit, vars, issued
  <2>2. FilesOK'
    BY <1>1, <1>2 DEF FilesOK, EditRegistry, EditPolicy, vars, files
  <2>3. IssuedOK' /\ RotationOK'
    BY <1>1, <2>1, IssuedKept, RotationKept DEF issued
  <2> QED
    BY <1>1, <2>1, <2>2, <2>3, QuietSteps DEF IInv
<1>3. CASE EditStore
  <2>1. UNCHANGED <<server, log>> /\ answer' = NoAnswer /\ FilesOK'
    BY <1>1, <1>3 DEF EditStore, Edit, files, FilesOK
  <2>2. IssuedOK' /\ RotationOK'
    BY <1>1, <1>3, StoreEdited, RotationKept
  <2> QED
    BY <1>1, <2>1, <2>2, QuietSteps DEF IInv
<1>4. ASSUME NEW p \in Provisions,
             \/ StartProvision(p) \/ WriteEnv(p) \/ WriteMounts(p)
             \/ TruncateStore(p) \/ WriteStore(p) \/ KillProvision(p)
      PROVE  IInv'
  <2>1. UNCHANGED <<server, log>> /\ answer' = NoAnswer /\ FilesOK'
    BY <1>1, <1>4 DEF StartProvision, WriteEnv, WriteMounts, TruncateStore, WriteStore, KillProvision,
       files, FilesOK
  <2>2. IssuedOK'
    BY <1>1, <1>4, StartIssued, EnvIssued, MountsIssued, EndIssued
  <2>3. RotationOK'
    BY <1>1, <1>4, StartRotates, EnvRotates, MountsRotate, EndRotates
  <2> QED
    BY <1>1, <2>1, <2>2, <2>3, QuietSteps DEF IInv
<1>5. CASE StartServer
  <2>1. /\ log' = {} /\ answer' = NoAnswer
        /\ server' = [mode |-> ModeOf(registryFile, store), registry |-> registryFile, store |-> store]
        /\ UNCHANGED <<registryFile, policyFile, env, mounts, store, provision>>
    BY <1>5 DEF StartServer, files, issued
  <2>2. ServerOK'
    BY <1>1, <2>1 DEF ServerOK, FilesOK, IssuedOK, ModeOf
  <2>3. FilesOK' /\ IssuedOK' /\ RotationOK'
    BY <1>1, <2>1, IssuedKept, RotationKept DEF FilesOK, issued
  <2>4. LogTyped' /\ AnswerTyped' /\ LogIsTheHolders' /\ ReadsStayInTenant'
    BY <2>1 DEF LogTyped, AnswerTyped, NoAnswer, LogIsTheHolders, ReadsStayInTenant
  <2> QED
    BY <2>2, <2>3, <2>4 DEF IInv
<1>6. ASSUME NEW token \in Presented, NEW claimed \in Agents \cup {None}, NEW roles,
             NEW action \in Actions,
             Evaluate(token, claimed, roles, action) \/ RecordExecution(token, action)
      PROVE  IInv'
  <2>1. FilesOK' /\ IssuedOK' /\ RotationOK'
    BY <1>1, <1>6, RequestKeeps DEF Evaluate, RecordExecution
  <2>2. ServerOK' /\ LogIsTheHolders'
    BY <1>1, <1>6, EvaluateSound, RecordSound
  <2>3. LogTyped' /\ answer' = NoAnswer
    BY <1>1, <1>6, EvaluateTyped, RecordTyped
  <2>4. AnswerTyped' /\ ReadsStayInTenant'
    BY <2>3 DEF AnswerTyped, NoAnswer, ReadsStayInTenant
  <2> QED
    BY <2>1, <2>2, <2>3, <2>4 DEF IInv
<1>7. ASSUME NEW token \in Presented, NEW kind \in {"records", "rules"}, ReadAudit(token, kind) \/ ReadConfig(token)
      PROVE  IInv'
  <2>1. FilesOK' /\ IssuedOK' /\ RotationOK' /\ ServerOK' /\ UNCHANGED server
    BY <1>1, <1>7, RequestKeeps DEF ReadAudit, ReadConfig
  <2>2. UNCHANGED log
    BY <1>7 DEF ReadAudit, ReadConfig, Refused
  <2>3. LogTyped' /\ LogIsTheHolders'
    BY <1>1, <2>1, <2>2, ServerKept DEF LogTyped
  <2>4. AnswerTyped'
    <3>1. \/ answer' = NoAnswer
          \/ answer'.kind \in {kind, "config"} /\ answer'.token = token
      BY <1>7 DEF ReadAudit, ReadConfig, Refused
    <3> QED
      BY <1>1, <1>7, <3>1, PresentedToken DEF AnswerTyped, NoAnswer
  <2>5. ReadsStayInTenant'
    BY <1>1, <1>7, ReadAuditStays, ReadConfigStays
  <2> QED
    BY <2>1, <2>3, <2>4, <2>5 DEF IInv
<1> QED
  BY <1>2, <1>3, <1>4, <1>5, <1>6, <1>7 DEF Next

\* What every reachable state satisfies.
LEMMA AlwaysIInv == Spec => []IInv
<1>1. Init => IInv
  BY OrgAssumption, InitOK
<1>2. IInv /\ [Next]_vars => IInv'
  BY OrgAssumption, NextOK
<1> QED
  BY <1>1, <1>2, PTL DEF Spec

\* Every variable keeps its kind: in particular a run under way stands at an enabled agent and
\* binds tokens of its own only, and a server in organisation mode has loaded both files.
THEOREM AlwaysTypeOK == Spec => []TypeOK
<1>1. IInv => TypeOK
  <2> SUFFICES ASSUME IInv  PROVE  TypeOK
    OBVIOUS
  <2>1. \A p \in Provisions : Active(p) => provision[p].pc # "waiting"
    BY DEF Active
  <2>2. \A p \in Provisions : RunOK(p)
    BY DEF IInv, IssuedOK
  <2>3. \A p \in Provisions :
          /\ provision[p].bindings \subseteq [subject : [by : {p}, nth : Nat], agentId : Agents,
                                              tenantId : Tenants, enabled : {TRUE}]
          /\ Active(p) => provision[p].registry \in Registries
          /\ provision[p].pc \in {"env", "mounts"} =>
               provision[p].registry.agents[provision[p].next].enabled
    BY <2>1, <2>2 DEF RunOK, Following
  <2>4. FilesOK /\ IssuedOK /\ ServerOK /\ LogTyped /\ AnswerTyped
    BY DEF IInv
  <2>5. \A a \in Agents : mounts[a] # None => mounts[a] \subseteq Brains \ Templated
    BY <2>4 DEF IssuedOK
  <2>6. server.mode = "org" => server.registry \in Registries /\ server.store \in (SUBSET Bindings) \ {{}}
    BY <2>4 DEF ServerOK
  <2>7. env \in [Agents -> Tokens \cup {None}] /\ store \subseteq Bindings
    BY <2>4 DEF IssuedOK
  <2> QED
    BY <2>3, <2>4, <2>5, <2>6, <2>7 DEF TypeOK, FilesOK, LogTyped, AnswerTyped
<1> QED
  BY <1>1, AlwaysIInv, PTL

\* In every reachable state the log of an organisation's server is its tokens' holders', whatever
\* the requests claimed and however the files were edited and provisioned meanwhile.
THEOREM LogIsAlwaysTheHolders == Spec => []LogIsTheHolders
<1>1. IInv => LogIsTheHolders
  BY DEF IInv
<1> QED
  BY <1>1, AlwaysIInv, PTL

\* Whatever was asked, by whom and with which token, the answer of an organisation's server was
\* for a holder of the role it takes and shows him nothing of another tenant.
THEOREM ReadsAlwaysStayInTenant == Spec => []ReadsStayInTenant
<1>1. IInv => ReadsStayInTenant
  BY DEF IInv
<1> QED
  BY <1>1, AlwaysIInv, PTL

\* However many runs of provision race, are killed or edited under, the last one to start binds,
\* if it is alone to its end, the tokens it has written and revokes every other.
THEOREM ProvisionAlwaysRotates == Spec => []ProvisionRotates
<1>1. IInv => ProvisionRotates
  <2> SUFFICES ASSUME IInv, NEW p \in Provisions, provision[p].pc = "done", provision[p].alone,
                      \A q \in Provisions : provision[q].order <= provision[p].order
               PROVE  /\ \A i \in Following(provision[p].registry, 1) :
                           \E b \in store : /\ b.agentId = provision[p].registry.agents[i].agentId
                                            /\ b.subject = env[b.agentId]
                      /\ \A b \in store : b.subject.by = p
    BY DEF ProvisionRotates
  <2>1. Rotating(p) /\ Latest(p)
    BY DEF IInv, RotationOK, Latest
  <2>2. Written(provision[p]) = Following(provision[p].registry, 1)
    BY DEF Written
  <2>3. /\ \A i \in Following(provision[p].registry, 1) :
             \E b \in provision[p].bindings :
               b.agentId = provision[p].registry.agents[i].agentId /\ b.subject = env[b.agentId]
        /\ \A c \in store : c.subject.by = p
        /\ \A b \in provision[p].bindings :
             \E c \in store : c.agentId = b.agentId /\ c.subject = b.subject
    BY <2>1, <2>2 DEF Rotating
  <2>4. ASSUME NEW i \in Following(provision[p].registry, 1)
        PROVE  \E c \in store : /\ c.agentId = provision[p].registry.agents[i].agentId
                                /\ c.subject = env[c.agentId]
    <3>1. PICK b \in provision[p].bindings :
            b.agentId = provision[p].registry.agents[i].agentId /\ b.subject = env[b.agentId]
      BY <2>3
    <3>2. PICK c \in store : c.agentId = b.agentId /\ c.subject = b.subject
      BY <2>3
    <3> QED
      BY <3>1, <3>2
  <2> QED
    BY <2>3, <2>4
<1> QED
  BY <1>1, AlwaysIInv, PTL

\* In every reachable state the verification says of the mounts of every enabled agent what the
\* policy of that moment says.
THEOREM MountsAreAlwaysVerified == Spec => []MountsAreVerified
<1>1. IInv => MountsAreVerified
  <2>1. IInv => policyFile \in Seq(Classification)
    BY OrgAssumption DEF IInv, FilesOK, OrgAssumption
  <2> QED
    BY <2>1, VerifierAgreesAlways DEF MountsAreVerified
<1> QED
  BY <1>1, AlwaysIInv, PTL
=============================================================================
