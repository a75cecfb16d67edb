------------------------- MODULE PolicyServerProofs -------------------------
(***************************************************************************)
(* Theorems about PolicyRules, for every set of rules and every context,   *)
(* about PolicyServer, for any rules, commands, operations and packs, and  *)
(* about what fills the packs: PolicyAuthor, for any statements and any    *)
(* reviews, and Setup with OnboardingService, for any projects, command    *)
(* lines, answers and memories.                                            *)
(***************************************************************************)
EXTENDS PolicyServer, PolicyAuthor, Setup, SequenceTheorems, FiniteSetTheorems, TLAPS

\* Deny wins: one rule that applies and denies is enough, whatever the others say and whether
\* or not unknown actions are denied (policy-decision-point.ts, arbitrate).
THEOREM DenyWins ==
  ASSUME NEW rules, NEW denyUnknown, NEW ctx, NEW rule \in rules,
         Applies(rule, ctx), VerdictOf(rule, ctx) = "deny"
  PROVE  evaluate(rules, denyUnknown, ctx) = "deny"
<1>1. rule \in {r \in rules : Applies(r, ctx)}
  OBVIOUS
<1>2. "deny" \in {VerdictOf(r, ctx) : r \in {r \in rules : Applies(r, ctx)}}
  BY <1>1
<1>3. QED
  BY <1>2 DEF evaluate, arbitrate

\* With deny-unknown, what is allowed was allowed by a rule that applies, and by none that
\* applies was it denied or put to approval (deny-unknown-wrapper.ts around arbitrate).
THEOREM OnlyExplicitAllow ==
  ASSUME NEW rules, NEW ctx, evaluate(rules, TRUE, ctx) = "allow"
  PROVE  /\ \E rule \in rules : Applies(rule, ctx)
         /\ \A rule \in rules :
              Applies(rule, ctx) => VerdictOf(rule, ctx) \notin {"deny", "approve_required"}
<1> DEFINE matched == {r \in rules : Applies(r, ctx)}
           results == {VerdictOf(r, ctx) : r \in matched}
<1>1. matched # {} /\ arbitrate(results) = "allow"
  BY DEF evaluate
<1>2. "deny" \notin results /\ "approve_required" \notin results
  BY <1>1 DEF arbitrate
<1>3. QED
  BY <1>1, <1>2

\* Without deny-unknown a rule more can only make the verdict stricter: no rule, of whatever
\* priority, can undo the denial or the approval another asks for (arbitrate is monotone).
THEOREM MoreRulesAreStricter ==
  ASSUME NEW rules, NEW more, NEW ctx, rules \subseteq more
  PROVE  /\ evaluate(rules, FALSE, ctx) = "deny" => evaluate(more, FALSE, ctx) = "deny"
         /\ evaluate(more, FALSE, ctx) = "allow" => evaluate(rules, FALSE, ctx) = "allow"
<1> DEFINE results(set) == {VerdictOf(r, ctx) : r \in {r \in set : Applies(r, ctx)}}
<1>1. results(rules) \subseteq results(more)
  OBVIOUS
<1>2. \A set : evaluate(set, FALSE, ctx) = arbitrate(results(set))
  BY DEF evaluate
<1> HIDE DEF results
<1>3. QED
  BY <1>1, <1>2 DEF arbitrate

-----------------------------------------------------------------------------


LEMMA TruncatedIsPack == Truncated \in Packs
BY DEF Truncated, Packs

LEMMA IdleIsRun == Idle \in Runs /\ Ended \in Runs
BY PolicyServerAssumption, TruncatedIsPack DEF Idle, Ended, Runs

\* A command writes a pack.
LEMMA RewrittenIsPack ==
  ASSUME NEW op \in Operations, op.kind # "rollback", NEW seen \in Packs
  PROVE  Rewritten(op, seen) \in Packs
<1> DEFINE Added(names) == Appended(seen, names)
<1>1. ASSUME NEW names \in SUBSET Names
      PROVE  Appended(seen, names) \in Packs
  BY DEF Appended, Packs, Entries
<1>2. CASE op.kind = "add"
  <2>1. op.name \in Names
    BY <1>2, PolicyServerAssumption DEF Requests
  <2>2. QED
    BY <1>1, <1>2, <2>1 DEF Rewritten
<1>3. CASE op.kind = "toggle"
  <2>1. op.name \in Names /\ op.enabled \in BOOLEAN
    BY <1>3, PolicyServerAssumption DEF Requests
  <2>2. Toggled(op, seen) \in Packs
    BY <2>1 DEF Toggled, Packs, Entries
  <2>3. QED
    BY <1>3, <2>2 DEF Rewritten
<1>4. CASE op.kind \in {"upgrade", "rescan"}
  <2>1. op.names \in SUBSET Names
    BY <1>4, PolicyServerAssumption DEF Requests
  <2>2. Appended(seen, op.names \ NamesIn(seen)) \in Packs
    BY <1>1, <2>1
  <2>3. Upgraded(op, seen) \in Packs
    BY <2>2 DEF Upgraded, Packs
  <2>4. Appended(seen, {n \in op.names : ~Covered(seen, n)}) \in Packs
    BY <1>1, <2>1
  <2>5. QED
    BY <1>4, <2>3, <2>4 DEF Rewritten
<1>5. QED
  BY <1>2, <1>3, <1>4, PolicyServerAssumption DEF Requests

LEMMA NoticedIsServer == ASSUME server \in Servers PROVE Noticed \in Servers
BY DEF Noticed, Servers

LEMMA RacedAreRuns ==
  ASSUME NEW others, NEW runs \in [Commands -> Runs]
  PROVE  RacedBy(others, runs) \in [Commands -> Runs]
BY DEF RacedBy, Runs

LEMMA RulesOfPack == ASSUME NEW p \in Packs PROVE RulesIn(p) \subseteq {Body[n] : n \in Names}
BY DEF RulesIn, Packs, Entries

LEMMA WrappedIsBoolean == ASSUME NEW p \in Packs PROVE Wrapped(p) \in BOOLEAN
BY PolicyServerAssumption DEF Wrapped, Packs

LEMMA BootedIsServer == ASSUME NEW p \in Packs PROVE Booted(p) \in Servers
BY RulesOfPack, WrappedIsBoolean, TruncatedIsPack DEF Booted, Stopped, Servers

LEMMA BackupsAreDirectories ==
  ASSUME TypeOK
  PROVE  /\ Len(backups) \in Nat
         /\ backups # <<>> => Len(backups) \in 1..Len(backups)
         /\ \A i \in 1..Len(backups) : backups[i] \in BackupDirectories
<1>1. backups \in Seq(BackupDirectories)
  BY DEF TypeOK
<1>2. QED
  BY <1>1, LenProperties, ElementOfSeq, EmptySeq

\* A run that has made its directory has one that exists: a rollback's and a backup's alike.
Placed(c) ==
  command[c].at \in {"directory", "copied", "ready", "truncated"} =>
    command[c].dir \in 1..Len(backups)

PlacedInv == TypeOK /\ \A c \in Commands : Placed(c)

\* A change of one directory leaves them all directories, and as many.
LEMMA ChangedDirectory ==
  ASSUME backups \in Seq(BackupDirectories), NEW i \in 1..Len(backups),
         NEW entry \in BackupDirectories, backups' = [backups EXCEPT ![i] = entry]
  PROVE  backups' \in Seq(BackupDirectories) /\ Len(backups') = Len(backups)
BY ExceptSeq

\* The model keeps its types, and no run touches a directory that was never made.
THEOREM PlacedCorrect == Spec => []PlacedInv
<1>1. Init => PlacedInv
  <2> SUFFICES ASSUME Init PROVE PlacedInv
    OBVIOUS
  <2>1. TypeOK
    BY PolicyServerAssumption, IdleIsRun, TruncatedIsPack, EmptySeq
    DEF Init, TypeOK, Stopped, Servers
  <2>2. ASSUME NEW c \in Commands PROVE Placed(c)
    BY DEF Init, Placed, Idle
  <2>3. QED
    BY <2>1, <2>2 DEF PlacedInv
<1>2. PlacedInv /\ [Next]_vars => PlacedInv'
  <2> SUFFICES ASSUME PlacedInv, [Next]_vars PROVE PlacedInv'
    OBVIOUS
  <2> USE PolicyServerAssumption DEF PlacedInv
  <2>1. ASSUME NEW c \in Commands, NEW op \in Operations, Read(c, op) PROVE PlacedInv'
    <3>1. command' \in [Commands -> Runs]
      BY <2>1, IdleIsRun DEF TypeOK, Read, Idle, Runs
    <3>2. ASSUME NEW d \in Commands PROVE Placed(d)'
      BY <2>1 DEF TypeOK, Read, Placed, Idle, Ended
    <3>3. QED
      BY <2>1, <3>1, <3>2 DEF TypeOK, Read
  <2>2. ASSUME NEW c \in Commands, NEW op \in Operations, Rollback(c, op) PROVE PlacedInv'
    <3>1. command' \in [Commands -> Runs]
      BY <2>2, IdleIsRun, BackupsAreDirectories DEF TypeOK, Rollback, Idle, Runs
    <3>2. backups # <<>> => Len(backups) \in 1..Len(backups)
      BY BackupsAreDirectories
    <3>3. ASSUME NEW d \in Commands PROVE Placed(d)'
      BY <2>2, <3>2 DEF TypeOK, Rollback, Placed, Idle, Ended
    <3>4. QED
      BY <2>2, <3>1, <3>3 DEF TypeOK, Rollback
  <2>3. ASSUME NEW c \in Commands, MakeDirectory(c) PROVE PlacedInv'
    <3>1. [copy |-> Truncated, manifest |-> FALSE, shared |-> FALSE] \in BackupDirectories
      BY TruncatedIsPack DEF BackupDirectories
    <3>2. backups' \in Seq(BackupDirectories) /\ Len(backups') = Len(backups) + 1
      BY <2>3, <3>1 DEF TypeOK, MakeDirectory
    <3>3. command' \in [Commands -> Runs]
      <4>1. Len(backups) + 1 \in Nat
        BY BackupsAreDirectories
      <4>2. QED
        BY <2>3, <4>1 DEF TypeOK, MakeDirectory, Runs
    <3>4. ASSUME NEW d \in Commands PROVE Placed(d)'
      BY <2>3, <3>2, BackupsAreDirectories DEF TypeOK, MakeDirectory, Placed, Runs
    <3>5. QED
      BY <2>3, <3>2, <3>3, <3>4 DEF TypeOK, MakeDirectory
  <2>4. ASSUME NEW c \in Commands, ShareDirectory(c) PROVE PlacedInv'
    <3>1. Len(backups) \in 1..Len(backups)
      BY <2>4, BackupsAreDirectories DEF ShareDirectory
    <3>2. [backups[Len(backups)] EXCEPT !.shared = TRUE] \in BackupDirectories
      BY <3>1, BackupsAreDirectories DEF TypeOK, BackupDirectories
    <3>3. backups' \in Seq(BackupDirectories) /\ Len(backups') = Len(backups)
      BY <2>4, <3>1, <3>2, ChangedDirectory DEF TypeOK, ShareDirectory
    <3>4. command' \in [Commands -> Runs]
      <4>1. command[c] \in Runs /\ Len(backups) \in Nat
        BY <3>1, BackupsAreDirectories DEF TypeOK
      <4>2. [command[c] EXCEPT !.at = "directory", !.dir = Len(backups)] \in Runs
        BY <4>1 DEF Runs
      <4>3. command' = [command EXCEPT ![c] = [command[c] EXCEPT !.at = "directory", !.dir = Len(backups)]]
        BY <2>4 DEF TypeOK, ShareDirectory
      <4>4. QED
        BY <4>2, <4>3 DEF TypeOK
    <3>5. ASSUME NEW d \in Commands PROVE Placed(d)'
      BY <2>4, <3>1, <3>3 DEF TypeOK, ShareDirectory, Placed, Runs
    <3>6. QED
      BY <2>4, <3>3, <3>4, <3>5 DEF TypeOK, ShareDirectory
  <2>5. ASSUME NEW c \in Commands, CopyPack(c) PROVE PlacedInv'
    <3>1. command[c].dir \in 1..Len(backups)
      BY <2>5 DEF CopyPack, Placed
    <3>2. [backups[command[c].dir] EXCEPT !.copy = pack] \in BackupDirectories
      BY <3>1, BackupsAreDirectories DEF TypeOK, BackupDirectories
    <3>3. backups' \in Seq(BackupDirectories) /\ Len(backups') = Len(backups)
      <4>1. CASE Owned
        BY <2>5, <3>1, <3>2, <4>1, ChangedDirectory DEF TypeOK, CopyPack
      <4>2. CASE ~Owned
        BY <2>5, <4>2 DEF TypeOK, CopyPack
      <4>3. QED
        BY <4>1, <4>2
    <3>4. command' \in [Commands -> Runs]
      BY <2>5 DEF TypeOK, CopyPack, Runs
    <3>5. ASSUME NEW d \in Commands PROVE Placed(d)'
      BY <2>5, <3>1, <3>3 DEF TypeOK, CopyPack, Placed, Runs
    <3>6. QED
      BY <2>5, <3>3, <3>4, <3>5 DEF TypeOK, CopyPack
  <2>6. ASSUME NEW c \in Commands, WriteManifest(c) PROVE PlacedInv'
    <3>1. command[c].dir \in 1..Len(backups)
      BY <2>6 DEF WriteManifest, Placed
    <3>2. [backups[command[c].dir] EXCEPT !.manifest = TRUE] \in BackupDirectories
      BY <3>1, BackupsAreDirectories DEF TypeOK, BackupDirectories
    <3>3. backups' \in Seq(BackupDirectories) /\ Len(backups') = Len(backups)
      BY <2>6, <3>1, <3>2, ChangedDirectory DEF TypeOK, WriteManifest
    <3>4. command' \in [Commands -> Runs]
      BY <2>6, IdleIsRun DEF TypeOK, WriteManifest, Runs
    <3>5. ASSUME NEW d \in Commands PROVE Placed(d)'
      BY <2>6, <3>1, <3>3 DEF TypeOK, WriteManifest, Placed, Runs, Ended, Idle
    <3>6. QED
      BY <2>6, <3>3, <3>4, <3>5 DEF TypeOK, WriteManifest
  <2>7. ASSUME NEW c \in Commands, Truncate(c) PROVE PlacedInv'
    <3>1. [command EXCEPT ![c].at = "truncated"] \in [Commands -> Runs]
      BY DEF TypeOK, Runs
    <3>2. command' \in [Commands -> Runs]
      BY <2>7, <3>1, RacedAreRuns DEF Truncate
    <3>3. ASSUME NEW d \in Commands PROVE Placed(d)'
      BY <2>7 DEF TypeOK, Truncate, Placed, RacedBy, Runs
    <3>4. QED
      BY <2>7, <3>2, <3>3, NoticedIsServer, TruncatedIsPack DEF TypeOK, Truncate
  <2>8. ASSUME NEW c \in Commands, Write(c) PROVE PlacedInv'
    <3>1. backups[command[c].dir].copy \in Packs
      BY <2>8, BackupsAreDirectories DEF TypeOK, Write, Placed, BackupDirectories
    <3>2. pack' \in Packs
      BY <2>8, <3>1, RewrittenIsPack DEF TypeOK, Write, Runs
    <3>3. [command EXCEPT ![c] = Ended] \in [Commands -> Runs]
      BY IdleIsRun DEF TypeOK
    <3>4. command' \in [Commands -> Runs]
      BY <2>8, <3>3, RacedAreRuns DEF Write
    <3>5. ASSUME NEW d \in Commands PROVE Placed(d)'
      BY <2>8 DEF TypeOK, Write, Placed, RacedBy, Runs, Ended, Idle
    <3>6. QED
      BY <2>8, <3>2, <3>4, <3>5, NoticedIsServer DEF TypeOK, Write
  <2>9. ASSUME NEW c \in Commands, Killed(c) PROVE PlacedInv'
    BY <2>9, IdleIsRun DEF TypeOK, Killed, Placed, Ended, Idle
  <2>10. ASSUME NEW p \in Edits, Edit(p) PROVE PlacedInv'
    <3>1. ASSUME NEW d \in Commands PROVE Placed(d)'
      BY <2>10 DEF TypeOK, Edit, Placed, RacedBy, Runs
    <3>2. QED
      BY <2>10, <3>1, RacedAreRuns, NoticedIsServer DEF TypeOK, Edit
  <2>11. CASE Start
    BY <2>11, BootedIsServer DEF TypeOK, Start, Placed
  <2>12. CASE Watch
    BY <2>12 DEF TypeOK, Watch, Servers, Placed
  <2>13. CASE Reload
    BY <2>13, RulesOfPack, WrappedIsBoolean DEF TypeOK, Reload, Reloaded, Servers, Placed
  <2>14. CASE Stop
    BY <2>14, TruncatedIsPack DEF TypeOK, Stop, Stopped, Servers, Placed
  <2>15. CASE UNCHANGED vars
    BY <2>15 DEF TypeOK, vars, Placed
  <2>16. QED
    BY <2>1, <2>2, <2>3, <2>4, <2>5, <2>6, <2>7, <2>8, <2>9, <2>10, <2>11, <2>12, <2>13,
       <2>14, <2>15 DEF Next
<1>3. QED
  BY <1>1, <1>2, PTL DEF Spec

\* What is in the file, in a backup or in memory is a pack, a run of a command or a server, of
\* the shape the code reads it with.
THEOREM PackTypeCorrect == Spec => []TypeOK
<1>1. PlacedInv => TypeOK
  BY DEF PlacedInv
<1>2. QED
  BY <1>1, PlacedCorrect, PTL

-----------------------------------------------------------------------------

\* The repository holds the rules of the pack that was last loaded or, after a load that
\* failed, none; deny-unknown is always that pack's.
Serving(s) ==
  s.at # "down" =>
    /\ s.rules = RulesIn(s.loaded) \/ s.rules = {}
    /\ s.denyUnknown = Wrapped(s.loaded)

\* A server of such a pack that denies the unknown allows what the pack allows, or nothing.
LEMMA ServingIsSafe == TypeOK /\ Serving(server) => AllowedByPackLoaded
<1> SUFFICES ASSUME TypeOK, Serving(server), server.at # "down", Wrapped(server.loaded),
                    NEW ctx \in Contexts, Answer(ctx) = "allow"
             PROVE  evaluate(RulesIn(server.loaded), TRUE, ctx) = "allow"
  BY DEF AllowedByPackLoaded
<1>1. server.denyUnknown = TRUE
  BY DEF Serving, TypeOK, Servers
<1>2. evaluate({}, TRUE, ctx) = "deny"
  BY DEF evaluate
<1>3. QED
  BY <1>1, <1>2 DEF Answer, Serving

\* Whatever commands, edits, crashes and failed reloads do, a server of a pack that denies the
\* unknown never lets an action through that the pack it loaded does not allow.
THEOREM ServesThePack == Spec => []AllowedByPackLoaded
<1>1. Init => Serving(server)
  BY DEF Init, Serving, Stopped
<1>2. PlacedInv /\ Serving(server) /\ [Next]_vars => Serving(server)'
  <2> SUFFICES ASSUME TypeOK, Serving(server), [Next]_vars PROVE Serving(server)'
    BY DEF PlacedInv
  <2>1. CASE server' = Noticed
    BY <2>1 DEF TypeOK, Servers, Serving, Noticed
  <2>2. CASE Start
    BY <2>2 DEF Start, Booted, Stopped, Serving
  <2>3. CASE Watch
    BY <2>3 DEF Watch, TypeOK, Servers, Serving
  <2>4. CASE Reload
    BY <2>4 DEF Reload, Reloaded, TypeOK, Servers, Serving
  <2>5. CASE Stop
    BY <2>5 DEF Stop, Stopped, Serving
  <2>6. CASE UNCHANGED server
    BY <2>6 DEF Serving
  <2>7. QED
    BY <2>1, <2>2, <2>3, <2>4, <2>5, <2>6
    DEF Next, vars, Read, Rollback, MakeDirectory, ShareDirectory, CopyPack, WriteManifest,
        Truncate, Write, Killed, Edit
<1>3. PlacedInv /\ Serving(server) => AllowedByPackLoaded
  BY ServingIsSafe DEF PlacedInv
<1>4. QED
  BY <1>1, <1>2, <1>3, PlacedCorrect, PTL DEF Spec

-----------------------------------------------------------------------------

\* A run that backs the pack up before it writes, from its directory to its write.
Backing(c) ==
  /\ command[c].at \in {"directory", "copied", "ready", "truncated"}
  /\ command[c].op.kind # "rollback"

\* What such a run can rely on: its directory is nobody else's unless it is marked as shared;
\* the file is what it read until it writes or somebody changes it; and from the copy on its
\* backup is what it read.
Alone(c) ==
  \A d \in Commands \ {c} :
    Backing(c) /\ Backing(d) /\ command[c].dir = command[d].dir => backups[command[c].dir].shared

Current(c) ==
  /\ command[c].at \in {"read", "directory", "copied"} => command[c].op.kind # "rollback"
  /\ command[c].at \in {"read", "directory", "copied", "ready"}
       /\ command[c].op.kind # "rollback" /\ ~command[c].raced => pack = command[c].seen

Secured(c) ==
  Owned /\ Backing(c) /\ command[c].at # "directory" /\ ~command[c].raced
    /\ ~backups[command[c].dir].shared =>
      /\ backups[command[c].dir].copy = command[c].seen
      /\ command[c].at # "copied" => backups[command[c].dir].manifest

SecuredInv == \A c \in Commands : Alone(c) /\ Current(c) /\ Secured(c)

\* So it is in every reachable state, for any number of commands and any interleaving of their
\* file operations.
LEMMA SecuredCorrect == Spec => []SecuredInv
<1>1. Init => SecuredInv
  BY DEF Init, SecuredInv, Alone, Current, Secured, Backing, Idle
<1>2. PlacedInv /\ SecuredInv /\ [Next]_vars => SecuredInv'
  <2> SUFFICES ASSUME PlacedInv, SecuredInv, [Next]_vars PROVE SecuredInv'
    OBVIOUS
  <2>0. TypeOK /\ command \in [Commands -> Runs] /\ \A c \in Commands : Placed(c)
    BY DEF PlacedInv, TypeOK
  <2>1. ASSUME NEW c \in Commands, NEW op \in Operations, Read(c, op) PROVE SecuredInv'
    BY <2>0, <2>1 DEF Read, SecuredInv, Alone, Current, Secured, Backing, Runs, Idle, Ended
  <2>2. ASSUME NEW c \in Commands, NEW op \in Operations, Rollback(c, op) PROVE SecuredInv'
    BY <2>0, <2>2 DEF Rollback, SecuredInv, Alone, Current, Secured, Backing, Runs, Idle, Ended
  <2>3. ASSUME NEW c \in Commands, MakeDirectory(c) PROVE SecuredInv'
    <3>1. Len(backups) \in Nat
      BY <2>0, BackupsAreDirectories
    <3>2. \A j \in 1..Len(backups) : backups'[j] = backups[j]
      BY <2>0, <2>3 DEF TypeOK, MakeDirectory
    <3>0. /\ command'[c] = [command[c] EXCEPT !.at = "directory", !.dir = Len(backups) + 1]
          /\ \A d \in Commands \ {c} : command'[d] = command[d]
          /\ command'[c].dir = Len(backups) + 1
      BY <2>0, <2>3 DEF MakeDirectory, Runs
    <3>3. ASSUME NEW d \in Commands PROVE Alone(d)'
      <4> SUFFICES ASSUME NEW e \in Commands \ {d}, Backing(d)', Backing(e)',
                          command'[d].dir = command'[e].dir
                   PROVE  backups'[command'[d].dir].shared
        BY DEF Alone
      <4>1. /\ d # c => Backing(d) /\ command[d].dir \in 1..Len(backups)
            /\ e # c => Backing(e) /\ command[e].dir \in 1..Len(backups)
        BY <2>0, <3>0 DEF Backing, Placed
      <4> DEFINE n == Len(backups)
      <4>2. n \in Nat
        BY <3>1
      <4>3. command'[c].dir = n + 1 /\ command'[c].dir \notin 1..n
        BY <3>0, <4>2
      <4>4. d # c => command'[d].dir \in 1..n
        BY <3>0, <4>1
      <4>5. e # c => command'[e].dir \in 1..n
        BY <3>0, <4>1
      <4> HIDE DEF n
      <4>6. d # c /\ e # c
        BY <4>3, <4>4, <4>5
      <4>7. Alone(d)
        BY DEF SecuredInv
      <4>8. command'[d].dir = command[d].dir /\ command'[e].dir = command[e].dir
        BY <3>0, <4>6
      <4>9. Backing(d) /\ Backing(e) /\ command[d].dir \in 1..Len(backups)
        BY <4>1, <4>6
      <4>10. backups[command[d].dir].shared
        BY <4>7, <4>8, <4>9 DEF Alone
      <4>11. QED
        BY <3>2, <4>8, <4>9, <4>10
    <3>4. ASSUME NEW d \in Commands PROVE Current(d)'
      BY <2>0, <2>3 DEF MakeDirectory, SecuredInv, Current, Runs
    <3>5. ASSUME NEW d \in Commands PROVE Secured(d)'
      BY <2>0, <2>3, <3>1, <3>2 DEF MakeDirectory, SecuredInv, Placed, Secured, Backing, Runs
    <3>6. QED
      BY <3>3, <3>4, <3>5 DEF SecuredInv
  <2>4. ASSUME NEW c \in Commands, ShareDirectory(c) PROVE SecuredInv'
    <3> DEFINE i == Len(backups)
               entry == [backups[i] EXCEPT !.shared = TRUE]
    <3>1. i \in 1..Len(backups)
      BY <2>4, <2>0, BackupsAreDirectories DEF ShareDirectory, Placed
    <3>2. /\ backups' = [backups EXCEPT ![i] = entry]
          /\ backups[i] \in BackupDirectories
      BY <2>4, <2>0, <3>1, BackupsAreDirectories DEF ShareDirectory
    <3>3. \A j \in 1..Len(backups) : backups'[j] = IF j = i THEN entry ELSE backups[j]
      BY <2>0, <3>1, <3>2 DEF TypeOK
    <3>4. entry.shared
      BY <3>2 DEF BackupDirectories
    <3>5. ASSUME NEW d \in Commands PROVE Alone(d)'
      BY <2>0, <2>4, <3>1, <3>3, <3>4
      DEF ShareDirectory, SecuredInv, Placed, Alone, Backing, Runs, Idle, Ended
    <3>6. ASSUME NEW d \in Commands PROVE Current(d)'
      BY <2>0, <2>4 DEF ShareDirectory, SecuredInv, Current, Runs, Idle, Ended
    <3>7. ASSUME NEW d \in Commands PROVE Secured(d)'
      <4>1. CASE d = c
        BY <2>0, <2>4, <4>1 DEF ShareDirectory, Secured, Runs
      <4>2. CASE d # c /\ command[d].dir = i
        BY <2>0, <2>4, <3>1, <3>3, <3>4, <4>2 DEF ShareDirectory, Secured, Runs
      <4>3. CASE d # c /\ command[d].dir # i
        BY <2>0, <2>4, <3>1, <3>3, <4>3
        DEF ShareDirectory, SecuredInv, Placed, Secured, Backing, Runs
      <4>4. QED
        BY <4>1, <4>2, <4>3
    <3>8. QED
      BY <3>5, <3>6, <3>7 DEF SecuredInv
  <2>5. ASSUME NEW c \in Commands, CopyPack(c) PROVE SecuredInv'
    <3> DEFINE i == command[c].dir
               entry == [backups[i] EXCEPT !.copy = IF Owned THEN pack ELSE @]
    <3>1. i \in 1..Len(backups)
      BY <2>5, <2>0, BackupsAreDirectories DEF CopyPack, Placed
    <3>2. backups[i] \in BackupDirectories
      BY <2>0, <3>1, BackupsAreDirectories
    <3>3. \A j \in 1..Len(backups) : backups'[j] = IF j = i THEN entry ELSE backups[j]
      BY <2>5, <2>0, <3>1, <3>2 DEF TypeOK, CopyPack, BackupDirectories
    <3>4. (Owned => entry.copy = pack) /\ entry.shared = backups[i].shared
      BY <3>2 DEF BackupDirectories
    <3>9. command' = [command EXCEPT ![c].at = "copied"] /\ command[c].at = "directory"
          /\ pack' = pack
      BY <2>5 DEF CopyPack
    <3> HIDE DEF entry
    <3>5. ASSUME NEW d \in Commands PROVE Alone(d)'
      BY <2>0, <3>9, <3>1, <3>3, <3>4
      DEF SecuredInv, Placed, Alone, Backing, Runs, Idle, Ended
    <3>6. ASSUME NEW d \in Commands PROVE Current(d)'
      BY <2>0, <3>9 DEF SecuredInv, Current, Runs, Idle, Ended
    <3>7. ASSUME NEW d \in Commands PROVE Secured(d)'
      <4>1. CASE d = c
        BY <2>0, <3>9, <3>1, <3>3, <3>4, <4>1
        DEF SecuredInv, Current, Secured, Backing, Runs
      <4>2. CASE d # c /\ command[d].dir = i
        BY <2>0, <3>9, <3>1, <3>3, <3>4, <4>2
        DEF SecuredInv, Alone, Current, Secured, Backing, Runs
      <4>3. CASE d # c /\ command[d].dir # i
        BY <2>0, <3>9, <3>1, <3>3, <4>3
        DEF SecuredInv, Placed, Secured, Backing, Runs
      <4>4. QED
        BY <4>1, <4>2, <4>3
    <3>8. QED
      BY <3>5, <3>6, <3>7 DEF SecuredInv
  <2>6. ASSUME NEW c \in Commands, WriteManifest(c) PROVE SecuredInv'
    <3> DEFINE i == command[c].dir
               entry == [backups[i] EXCEPT !.manifest = TRUE]
    <3>1. i \in 1..Len(backups)
      BY <2>6, <2>0, BackupsAreDirectories DEF WriteManifest, Placed
    <3>2. /\ backups' = [backups EXCEPT ![i] = entry]
          /\ backups[i] \in BackupDirectories
      BY <2>6, <2>0, <3>1, BackupsAreDirectories DEF WriteManifest
    <3>3. \A j \in 1..Len(backups) : backups'[j] = IF j = i THEN entry ELSE backups[j]
      BY <2>0, <3>1, <3>2 DEF TypeOK
    <3>4. entry.manifest /\ entry.copy = backups[i].copy /\ entry.shared = backups[i].shared
      BY <3>2 DEF BackupDirectories
    <3>5. ASSUME NEW d \in Commands PROVE Alone(d)'
      BY <2>0, <2>6, <3>1, <3>3, <3>4
      DEF WriteManifest, SecuredInv, Placed, Alone, Backing, Runs, Idle, Ended
    <3>6. ASSUME NEW d \in Commands PROVE Current(d)'
      BY <2>0, <2>6 DEF WriteManifest, SecuredInv, Current, Runs, Idle, Ended
    <3>7. ASSUME NEW d \in Commands PROVE Secured(d)'
      BY <2>0, <2>6, <3>1, <3>3, <3>4
      DEF WriteManifest, SecuredInv, Placed, Alone, Current, Secured, Backing, Runs, Idle, Ended
    <3>8. QED
      BY <3>5, <3>6, <3>7 DEF SecuredInv
  <2>7. ASSUME NEW c \in Commands, Truncate(c) PROVE SecuredInv'
    BY <2>0, <2>7 DEF Truncate, RacedBy, SecuredInv, Alone, Current, Secured, Backing, Runs
  <2>8. ASSUME NEW c \in Commands, Write(c) PROVE SecuredInv'
    BY <2>0, <2>8
    DEF Write, RacedBy, SecuredInv, Alone, Current, Secured, Backing, Runs, Idle, Ended
  <2>9. ASSUME NEW c \in Commands, Killed(c) PROVE SecuredInv'
    BY <2>0, <2>9 DEF Killed, SecuredInv, Alone, Current, Secured, Backing, Runs, Idle, Ended
  <2>10. ASSUME NEW p \in Edits, Edit(p) PROVE SecuredInv'
    BY <2>0, <2>10 DEF Edit, RacedBy, SecuredInv, Alone, Current, Secured, Backing, Runs
  <2>11. CASE UNCHANGED <<pack, backups, command>>
    BY <2>11 DEF SecuredInv, Alone, Current, Secured, Backing
  <2>12. QED
    BY <2>1, <2>2, <2>3, <2>4, <2>5, <2>6, <2>7, <2>8, <2>9, <2>10, <2>11
    DEF Next, Start, Watch, Reload, Stop, vars
<1>3. QED
  BY <1>1, <1>2, PlacedCorrect, PTL DEF Spec

\* A command never writes over a pack below .decision-core that a complete backup does not hold,
\* unless it was raced: for any number of commands and any interleaving of their file operations.
THEOREM BacksUpFirst == Spec => []BackedUp
<1>1. SecuredInv => BackedUp
  <2> SUFFICES ASSUME SecuredInv, NEW c \in Commands, Owned, Overwriting(command[c]),
                      ~command[c].raced, ~backups[command[c].dir].shared
               PROVE  InBackup(command[c])
    BY DEF BackedUp
  <2>1. Secured(c)
    BY DEF SecuredInv
  <2>2. QED
    BY <2>1 DEF Secured, Backing, Overwriting, InBackup
<1>2. QED
  BY <1>1, SecuredCorrect, PTL

\* Every rule a command has read is in what it writes, or is the one it toggles.
LEMMA RewritingKeeps ==
  ASSUME NEW op \in Operations, op.kind # "rollback", NEW seen \in Packs, NEW e \in seen.rules
  PROVE  e \in Rewritten(op, seen).rules \/ (op.kind = "toggle" /\ op.name = e.name)
<1>1. \A names : e \in Appended(seen, names).rules /\ "format" \in DOMAIN Appended(seen, names)
  BY DEF Appended, Packs
<1>2. CASE op.kind = "toggle"
  BY <1>2 DEF Rewritten, Toggled, Packs
<1>3. CASE op.kind = "upgrade"
  <2>1. e \in Upgraded(op, seen).rules
    BY <1>3 DEF Upgraded, Appended, Packs
  <2>2. QED
    BY <1>3, <2>1 DEF Rewritten
<1>4. CASE op.kind \in {"add", "rescan"}
  BY <1>1, <1>4 DEF Rewritten
<1>5. QED
  BY <1>2, <1>3, <1>4, PolicyServerAssumption DEF Requests

\* What a command writes loads if what it read did, but for an upgrade of a contracts pack.
LEMMA RewritingLoads ==
  ASSUME NEW op \in Operations, op.kind # "rollback", NEW seen \in Packs, Loads(seen)
  PROVE  Loads(Rewritten(op, seen)) \/ (op.kind = "upgrade" /\ seen.format = "contracts")
<1>1. \A names : Appended(seen, names).format = seen.format
  BY DEF Appended, Packs
<1>2. CASE op.kind = "toggle"
  BY <1>2 DEF Rewritten, Toggled, Packs, Loads
<1>3. CASE op.kind = "upgrade"
  <2>1. Upgraded(op, seen).format = seen.format \/ seen.format = "contracts"
    BY <1>3 DEF Upgraded, Appended, Packs
  <2>2. QED
    BY <1>3, <2>1 DEF Rewritten, Loads
<1>4. CASE op.kind \in {"add", "rescan"}
  BY <1>1, <1>4 DEF Rewritten, Loads
<1>5. QED
  BY <1>2, <1>3, <1>4, PolicyServerAssumption DEF Requests

\* No command by itself takes a rule out of the file it overwrites, or turns one on or off unasked,
\* or leaves a file that does not load in the place of one that did; but for the upgrade of a
\* contracts pack.
THEOREM CommandsKeepRules == Spec => KeepsRules
<1>1. PlacedInv /\ SecuredInv /\ [Next]_vars =>
        [\A c \in Commands :
           LET cmd == command[c]  text == Rewritten(cmd.op, cmd.seen) IN
           Truncate(c) /\ cmd.op.kind # "rollback" /\ ~cmd.raced =>
             /\ \A e \in pack.rules :
                  e \in text.rules \/ (cmd.op.kind = "toggle" /\ cmd.op.name = e.name)
             /\ Loads(pack) => Loads(text) \/ (cmd.op.kind = "upgrade" /\ pack.format = "contracts")]_vars
  <2> SUFFICES ASSUME PlacedInv, SecuredInv, NEW c \in Commands, Truncate(c),
                      command[c].op.kind # "rollback", ~command[c].raced
               PROVE  LET cmd == command[c]  text == Rewritten(cmd.op, cmd.seen) IN
                      /\ \A e \in pack.rules :
                           e \in text.rules \/ (cmd.op.kind = "toggle" /\ cmd.op.name = e.name)
                      /\ Loads(pack) =>
                           Loads(text) \/ (cmd.op.kind = "upgrade" /\ pack.format = "contracts")
    OBVIOUS
  <2>1. pack = command[c].seen
    BY DEF SecuredInv, Current, Truncate
  <2>2. command[c].op \in Operations /\ command[c].seen \in Packs
    BY DEF PlacedInv, TypeOK, Runs
  <2>3. QED
    BY <2>1, <2>2, RewritingKeeps, RewritingLoads
<1>2. QED
  BY <1>1, PlacedCorrect, SecuredCorrect, PTL DEF Spec, KeepsRules

-----------------------------------------------------------------------------
(* The policy author                                                       *)

\* What is written of a rule is what its statement becomes, or what a reviewer wrote instead.
Drafts(rule) == processStatement(rule.source).yaml \cup Rewrites

\* A rule is a record whose YAML is one of its drafts.
RuleKept(rule) ==
  /\ rule = [type |-> rule.type, source |-> rule.source, yaml |-> rule.yaml, status |-> rule.status]
  /\ rule.yaml \subseteq Drafts(rule)

SessionKept(made) ==
  /\ made = [from |-> made.from, rules |-> made.rules]
  /\ made.rules = [i \in DOMAIN made.rules |-> made.rules[i]]
  /\ \A i \in DOMAIN made.rules : RuleKept(made.rules[i])

\* The invariant of the authoring sessions.
AuthorInv ==
  /\ sessions \in Seq({sessions[s] : s \in DOMAIN sessions})
  /\ \A s \in DOMAIN sessions : SessionKept(sessions[s])

\* A statement becomes a rule of its own.
LEMMA ProcessedKept ==
  ASSUME NEW st
  PROVE  RuleKept(processStatement(st)) /\ processStatement(st).source = st
BY DEF RuleKept, Drafts, processStatement, buildAmbiguousRule, buildCandidateRule

\* A session more.
LEMMA SessionAdded ==
  ASSUME AuthorInv, NEW new, SessionKept(new), sessions' = Append(sessions, new)
  PROVE  AuthorInv'
<1> DEFINE All == {sessions[s] : s \in DOMAIN sessions} \cup {new}
<1>1. sessions \in Seq(All)
  BY DEF AuthorInv
<1>2. /\ sessions' \in Seq(All) /\ Len(sessions') = Len(sessions) + 1
      /\ \A s \in 1..Len(sessions) : sessions'[s] = sessions[s]
      /\ sessions'[Len(sessions) + 1] = new
  BY <1>1, AppendProperties
<1>3. DOMAIN sessions' = 1..(Len(sessions) + 1) /\ DOMAIN sessions = 1..Len(sessions)
  BY <1>1, <1>2
<1>4. \A s \in DOMAIN sessions' : SessionKept(sessions'[s])
  BY <1>1, <1>2, <1>3 DEF AuthorInv
<1>5. sessions' \in Seq({sessions'[s] : s \in DOMAIN sessions'})
  BY <1>2
<1> QED
  BY <1>4, <1>5 DEF AuthorInv

\* A rule reviewed.
LEMMA RuleReviewed ==
  ASSUME AuthorInv, NEW s \in DOMAIN sessions, NEW i \in DOMAIN sessions[s].rules,
         NEW rule, RuleKept(rule), Review(s, i, rule)
  PROVE  AuthorInv'
<1> DEFINE new == [sessions[s] EXCEPT !.rules[i] = rule]
<1>1. sessions' = [sessions EXCEPT ![s] = new]
  BY DEF Review
<1>2. SessionKept(new)
  <2>1. SessionKept(sessions[s])
    BY DEF AuthorInv
  <2>2. new = [from |-> sessions[s].from, rules |-> [sessions[s].rules EXCEPT ![i] = rule]]
    BY <2>1 DEF SessionKept
  <2>3. \A j \in DOMAIN sessions[s].rules :
          new.rules[j] = IF j = i THEN rule ELSE sessions[s].rules[j]
    BY <2>1, <2>2 DEF SessionKept
  <2> QED
    BY <2>1, <2>2, <2>3 DEF SessionKept
<1> HIDE DEF new
<1>3. DOMAIN sessions' = DOMAIN sessions /\ \A t \in DOMAIN sessions :
        sessions'[t] = IF t = s THEN new ELSE sessions[t]
  BY <1>1
<1>4. sessions' \in Seq({sessions'[t] : t \in DOMAIN sessions'})
  <2> DEFINE All == {sessions[t] : t \in DOMAIN sessions} \cup {new}
  <2>1. sessions \in Seq(All) /\ s \in 1..Len(sessions) /\ new \in All
    BY DEF AuthorInv
  <2>2. sessions' \in Seq(All)
    BY <1>1, <2>1, ExceptSeq
  <2> QED
    BY <2>2
<1> QED
  BY <1>2, <1>3, <1>4 DEF AuthorInv

LEMMA AuthorStep == AuthorInv /\ [AuthorNext]_authorVars => AuthorInv'
<1> SUFFICES ASSUME AuthorInv, [AuthorNext]_authorVars  PROVE AuthorInv'
  OBVIOUS
<1>1. ASSUME NEW statements, NEW from, Created(statements, from)  PROVE AuthorInv'
  BY <1>1, ProcessedKept, SessionAdded DEF Created, Rules, SessionKept
<1>2. ASSUME NEW statements, NEW from, writeOutput(statements, from)  PROVE AuthorInv'
  <2>1. ASSUME NEW st  PROVE RuleKept(Undrafted(processStatement(st)))
    BY ProcessedKept DEF Undrafted, Reviewed, RuleKept, Drafts
  <2> QED
    BY <1>2, <2>1, SessionAdded DEF writeOutput, SessionKept
<1>3. ASSUME NEW s \in DOMAIN sessions, reviewRule(s)  PROVE AuthorInv'
  <2>1. PICK i \in DOMAIN sessions[s].rules :
          LET rule == sessions[s].rules[i] IN
          \/ \E status \in {"accepted", "rejected"} : Review(s, i, Reviewed(rule, status))
          \/ \E e \in Rewrites : Review(s, i, [Reviewed(rule, "accepted") EXCEPT !.yaml = {e}])
    BY <1>3 DEF reviewRule
  <2>2. RuleKept(sessions[s].rules[i])
    BY DEF AuthorInv, SessionKept
  <2>3. \A status : RuleKept(Reviewed(sessions[s].rules[i], status))
    BY <2>2 DEF RuleKept, Reviewed, Drafts
  <2>4. ASSUME NEW e \in Rewrites
        PROVE  RuleKept([Reviewed(sessions[s].rules[i], "accepted") EXCEPT !.yaml = {e}])
    <3>1. PICK rule : rule = Reviewed(sessions[s].rules[i], "accepted") /\ RuleKept(rule)
      BY <2>3
    <3>2. rule = [type |-> rule.type, source |-> rule.source, yaml |-> rule.yaml,
                  status |-> rule.status]
      BY <3>1 DEF RuleKept
    <3>3. [rule EXCEPT !.yaml = {e}] = [type |-> rule.type, source |-> rule.source, yaml |-> {e},
                                        status |-> rule.status]
      BY <3>2
    <3> QED
      BY <3>1, <3>3 DEF RuleKept, Drafts
  <2> QED
    BY <2>1, <2>3, <2>4, RuleReviewed
<1>4. CASE UNCHANGED sessions
  BY <1>4 DEF AuthorInv
<1> QED
  BY <1>1, <1>2, <1>3, <1>4
  DEF AuthorNext, Service, Unattended, Activate, authorFromText, authorFromDocument, commitRules,
      authorVars

\* The rule of a statement that asks for an approval, and denies nothing, asks for it.
LEMMA ApprovalDrafted ==
  ASSUME NEW st, st.says \cap ApprovalPhrases # {}, st.says \cap Denials = {}
  PROVE  processStatement(st).yaml = {Entry(generate("approve_required", st), FALSE)}
<1>1. DOMAIN RULE_PATTERNS = 1..6 /\ RULE_PATTERNS[1] = <<"deny", Denials>>
      /\ RULE_PATTERNS[2] = <<"approve_required", ApprovalPhrases>>
  BY DEF RULE_PATTERNS
<1>2. Matching(st) \subseteq 2..6 /\ 2 \in Matching(st)
  BY <1>1 DEF Matching
<1>3. First(Matching(st)) = 2
  BY <1>2 DEF First
<1>4. processStatement(st) = buildCandidateRule("approve_required", st)
  BY <1>1, <1>2, <1>3 DEF processStatement
<1> QED
  BY <1>4 DEF buildCandidateRule, generateYaml

\* Such a rule, once it is on, asks for an approval whatever other rules are on.
LEMMA ApprovalHolds ==
  ASSUME NEW rules, NEW st, generate("approve_required", st) \in rules,
         NEW a \in extractToolPattern(st)
  PROVE  evaluate(rules, FALSE, Context(a)) # "allow"
<1> DEFINE rule == generate("approve_required", st)
<1>1. Applies(rule, Context(a))
  BY DEF Applies, Scoped, generate, Context
<1>2. VerdictOf(rule, Context(a)) = "approve_required"
  BY DEF VerdictOf, Breaches, Outside, generate, Context
<1> HIDE DEF rule
<1>3. {VerdictOf(r, Context(a)) : r \in {r \in {rule} : Applies(r, Context(a))}}
        = {"approve_required"}
  BY <1>1, <1>2
<1>4. evaluate({rule}, FALSE, Context(a)) = "approve_required"
  BY <1>3 DEF evaluate, arbitrate
<1>5. {rule} \subseteq rules
  BY DEF rule
<1> QED
  BY <1>4, <1>5, MoreRulesAreStricter

\* A statement that asks for an approval is never answered with an allow once its rule is on, for
\* the actions of its tool, or those without a dot if it names no tool
\* (policy-author.service.ts:155,182), for any texts, documents, keywords and reviews.
THEOREM ApprovalsAreAsked == AuthorSpec => []ApprovalsAsk
<1>1. AuthorInit => AuthorInv
  BY DEF AuthorInit, AuthorInv
<1>2. AuthorInv => ApprovalsAsk
  <2> SUFFICES ASSUME AuthorInv, NEW rule \in InForce, AsksApproval(rule.source),
                      NEW a \in extractToolPattern(rule.source)
               PROVE  Verdict(Context(a)) # "allow"
    BY DEF ApprovalsAsk
  <2>1. RuleKept(rule)
    <3>1. PICK s \in DOMAIN sessions : rule \in {sessions[s].rules[i] : i \in DOMAIN sessions[s].rules}
      BY DEF InForce, Candidates
    <3>2. PICK i \in DOMAIN sessions[s].rules : rule = sessions[s].rules[i]
      BY <3>1
    <3>3. SessionKept(sessions[s])
      BY DEF AuthorInv
    <3> QED
      BY <3>2, <3>3 DEF SessionKept
  <2>2. PICK e \in rule.yaml : e.rule \in Enabled /\ e \notin Rewrites
    BY DEF InForce
  <2>3. e \in processStatement(rule.source).yaml
    BY <2>1, <2>2 DEF RuleKept, Drafts
  <2>4. e.rule = generate("approve_required", rule.source)
    BY <2>3, ApprovalDrafted DEF Entry, AsksApproval
  <2> QED
    BY <2>2, <2>4, ApprovalHolds DEF Verdict
<1> QED
  BY <1>1, <1>2, AuthorStep, PTL DEF AuthorSpec

\* The next lemmas are about the types of the author's operators.

\* What holds of 0 and passes from each number below N to the next holds of N: if it did not,
\* the step would map the finite set of the numbers it holds of into itself without 0.
LEMMA Upwards ==
  ASSUME NEW N \in Nat, NEW S, 0 \in S, \A n \in 0 .. N : n \in S /\ n < N => n + 1 \in S
  PROVE  N \in S
<1> SUFFICES ASSUME N \notin S  PROVE FALSE
  OBVIOUS
<1> DEFINE T == S \cap (0 .. N)
           next == [n \in T |-> n + 1]
<1>1. IsFiniteSet(T) /\ IsFiniteSet(T \ {0}) /\ Cardinality(T \ {0}) = Cardinality(T) - 1
      /\ Cardinality(T) \in Nat
  <2>1. IsFiniteSet(0 .. N)
    BY FS_Interval
  <2>2. IsFiniteSet(T) /\ 0 \in T
    BY <2>1, FS_Subset
  <2> HIDE DEF T
  <2> QED
    BY <2>2, FS_RemoveElement, FS_CardinalityType
<1>2. next \in [T -> T \ {0}] /\ \A m, n \in T : next[m] = next[n] => m = n
  OBVIOUS
<1> HIDE DEF T, next
<1>3. \E m, n \in T : m # n /\ next[m] = next[n]
  <2>1. Cardinality(T \ {0}) < Cardinality(T)
    BY <1>1
  <2> QED
    BY <1>1, <1>2, <2>1, FS_PigeonHole
<1> QED
  BY <1>2, <1>3

\* What is read of a document line by line is what its definition says.
LEMMA Reads ==
  ASSUME NEW doc, Len(doc) \in Nat
  PROVE  Reading(doc) = [n \in 0 .. Len(doc) |-> IF n = 0 THEN NoText ELSE After(doc[n], Reading(doc)[n - 1])]
<1> DEFINE N == Len(doc)
           ReadAt(f, n) == IF n = 0 THEN NoText ELSE After(doc[n], f[n - 1])
           Upto(m) == \E f : f = [n \in 0 .. m |-> ReadAt(f, n)]
           S == {m \in 0 .. N : Upto(m)}
<1>1. 0 \in S
  <2>1. PICK f : f = [n \in 0 .. 0 |-> NoText]
    OBVIOUS
  <2>2. f = [n \in 0 .. 0 |-> ReadAt(f, n)]
    BY <2>1
  <2>3. Upto(0)
    BY <2>2
  <2> QED
    BY <2>3
<1>2. \A m \in 0 .. N : m \in S /\ m < N => m + 1 \in S
  <2> SUFFICES ASSUME NEW m \in 0 .. N, m \in S, m < N  PROVE m + 1 \in S
    OBVIOUS
  <2>1. PICK f : f = [n \in 0 .. m |-> ReadAt(f, n)]
    OBVIOUS
  <2> DEFINE g == [n \in 0 .. m + 1 |-> IF n = m + 1 THEN After(doc[m + 1], f[m]) ELSE f[n]]
  <2>2. ASSUME NEW n \in 0 .. m + 1 PROVE g[n] = ReadAt(g, n)
    <3>1. CASE n = m + 1
      BY <3>1
    <3>2. CASE n # m + 1 /\ n # 0
      <4>1. n \in 0 .. m /\ n - 1 \in 0 .. m /\ n - 1 # m + 1 /\ n - 1 \in 0 .. (m + 1)
        BY <3>2
      <4>2. f[n] = ReadAt(f, n)
        BY <2>1, <4>1
      <4>3. g[n] = f[n] /\ g[n - 1] = f[n - 1]
        BY <4>1
      <4> QED
        BY <3>2, <4>2, <4>3
    <3>3. CASE n = 0
      <4>1. f[0] = NoText
        BY <2>1
      <4> QED
        BY <3>3, <4>1
    <3> QED
      BY <3>1, <3>2, <3>3
  <2>3. g = [n \in 0 .. m + 1 |-> ReadAt(g, n)]
    BY <2>2
  <2> HIDE DEF g, ReadAt
  <2>4. Upto(m + 1)
    BY <2>3
  <2> QED
    BY <2>4
<1> HIDE DEF S
<1>3. N \in S
  BY <1>1, <1>2, Upwards
<1>4. \E f : f = [n \in 0 .. N |-> ReadAt(f, n)]
  BY <1>3 DEF S
<1>5. Reading(doc) = CHOOSE f : f = [n \in 0 .. N |-> ReadAt(f, n)]
  BY DEF Reading
<1> HIDE DEF ReadAt
<1>6. Reading(doc) = [n \in 0 .. N |-> ReadAt(Reading(doc), n)]
  BY <1>4, <1>5
<1> QED
  BY <1>6 DEF ReadAt

\* A set of natural numbers that is not empty has a least element.
LEMMA LeastOf ==
  ASSUME NEW S \in SUBSET Nat, NEW m \in S
  PROVE  \E i \in S : \A j \in S : i =< j
<1> SUFFICES ASSUME \A i \in S : \E j \in S : j < i  PROVE FALSE
  OBVIOUS
<1> DEFINE Above == {n \in 0 .. m : \A i \in S : i >= n}
<1>1. 0 \in Above
  OBVIOUS
<1>2. \A n \in 0 .. m : n \in Above /\ n < m => n + 1 \in Above
  <2> SUFFICES ASSUME NEW n \in 0 .. m, n \in Above, n < m, NEW i \in S, i < n + 1  PROVE FALSE
    OBVIOUS
  <2>1. i = n
    OBVIOUS
  <2> QED
    BY <2>1
<1> HIDE DEF Above
<1>3. m \in Above
  BY <1>1, <1>2, Upwards
<1>4. PICK j \in S : j < m
  OBVIOUS
<1> QED
  BY <1>3, <1>4 DEF Above

\* The rule of a statement is about actions.
LEMMA ToolsOf ==
  ASSUME NEW st \in Statements
  PROVE  extractToolPattern(st) \in SUBSET ActionTypes
<1>1. CASE st.names = {}
  BY <1>1, PolicyAuthorAssumption DEF extractToolPattern
<1>2. CASE st.names # {}
  <2>1. KNOWN_TOOLS \in Seq(SUBSET ActionTypes) /\ st.names \subseteq 1 .. Len(KNOWN_TOOLS)
    BY PolicyAuthorAssumption DEF Statements
  <2>2. \E i \in st.names : \A j \in st.names : i =< j
    <3>1. PICK m : m \in st.names
      BY <1>2
    <3>2. st.names \subseteq Nat
      BY <2>1
    <3> QED
      BY <3>1, <3>2, LeastOf
  <2>3. PICK i \in st.names : i = CHOOSE k \in st.names : \A j \in st.names : k =< j
    BY <2>2
  <2>4. extractToolPattern(st) = KNOWN_TOOLS[i]
    BY <1>2, <2>3 DEF extractToolPattern
  <2> QED
    BY <2>1, <2>4
<1> QED
  BY <1>1, <1>2

\* What a statement becomes is a candidate rule.
LEMMA ProcessedTyped ==
  ASSUME NEW st \in Statements
  PROVE  processStatement(st) \in CandidateRules
<1>1. ASSUME NEW kind \in {RULE_PATTERNS[i][1] : i \in DOMAIN RULE_PATTERNS}
      PROVE  buildCandidateRule(kind, st) \in CandidateRules
  <2>1. generate(kind, st) \in RuleOf(ActionTypes, AuthorRoles, Nat)
    BY ToolsOf DEF generate, RuleOf, Statements, EnforcementPoints, VerdictResults
  <2>2. generateYaml(generate(kind, st)) \subseteq PolicyEntries
    BY <2>1 DEF generateYaml, Entry, PolicyEntries
  <2> QED
    BY <2>2 DEF buildCandidateRule, CandidateRules
<1>2. buildAmbiguousRule(st) \in CandidateRules
  BY DEF buildAmbiguousRule, CandidateRules
<1>3. ASSUME Matching(st) # {}  PROVE First(Matching(st)) \in DOMAIN RULE_PATTERNS
  <2>1. Matching(st) \subseteq 1 .. 6 /\ DOMAIN RULE_PATTERNS = 1 .. 6
    <3>1. DOMAIN RULE_PATTERNS = 1 .. 6
      BY DEF RULE_PATTERNS
    <3> QED
      BY <3>1 DEF Matching
  <2>2. PICK m : m \in Matching(st)
    BY <1>3
  <2>3. \E i \in Matching(st) : \A j \in Matching(st) : i =< j
    BY <2>1, <2>2, LeastOf
  <2> QED
    BY <2>1, <2>3 DEF First
<1> QED
  BY <1>1, <1>2, <1>3 DEF processStatement

\* What runs together is a statement.
LEMMA JoinedTyped ==
  ASSUME NEW a \in Statements, NEW b \in Statements
  PROVE  Joined(a, b) \in Statements
BY DEF Joined, Statements

LEMMA NoTextTyped == NoText \in Statements
BY DEF NoText, Statements

\* What has been read of a clause is a statement.
LEMMA ReadingTyped ==
  ASSUME NEW doc \in Seq(Lines), NEW n \in 0 .. Len(doc)
  PROVE  Reading(doc)[n] \in Statements
<1> DEFINE S == {m \in 0 .. n : Reading(doc)[m] \in Statements}
<1>1. \A m \in 0 .. Len(doc) : Reading(doc)[m] = IF m = 0 THEN NoText ELSE After(doc[m], Reading(doc)[m - 1])
  BY Reads
<1>2. 0 \in S
  BY <1>1, NoTextTyped
<1>3. \A m \in 0 .. n : m \in S /\ m < n => m + 1 \in S
  <2> SUFFICES ASSUME NEW m \in 0 .. n, Reading(doc)[m] \in Statements, m < n
               PROVE  Reading(doc)[m + 1] \in Statements
    OBVIOUS
  <2>1. PICK line \in Lines : line = doc[m + 1]
    OBVIOUS
  <2>2. Reading(doc)[m + 1] = After(line, Reading(doc)[m])
    BY <1>1, <2>1
  <2>3. PICK before \in Statements : before = Reading(doc)[m]
    OBVIOUS
  <2>4. After(line, before) \in Statements
    BY JoinedTyped, NoTextTyped DEF After, Lines
  <2> QED
    BY <2>2, <2>3, <2>4
<1> HIDE DEF S
<1>4. n \in S
  BY <1>2, <1>3, Upwards
<1> QED
  BY <1>4 DEF S

\* A text is split into statements, and a document into clauses.
LEMMA SplitTyped ==
  ASSUME NEW text \in Texts, NEW i \in DOMAIN splitStatements(text)
  PROVE  splitStatements(text)[i] \in Statements
<1> DEFINE long == {k \in DOMAIN text : text[k].size > 5}
           doc == [k \in DOMAIN text |-> Line("text", text[k])]
<1>1. text \in Seq(Statements)
  BY PolicyAuthorAssumption
<1>2. CASE long # {}
  BY <1>1, <1>2 DEF splitStatements
<1>3. CASE long = {}
  <2>1. doc \in Seq(Lines) /\ Len(doc) = Len(text)
    <3>1. DOMAIN text = 1 .. Len(text) /\ Len(text) \in Nat
      BY <1>1
    <3>2. \A k \in 1 .. Len(text) : Line("text", text[k]) \in Lines
      BY <1>1 DEF Line, Lines
    <3>3. doc = [k \in 1 .. Len(text) |-> Line("text", text[k])]
      BY <3>1
    <3> QED
      BY <3>1, <3>2, <3>3
  <2>2. splitStatements(text) = << Reading(doc)[Len(text)] >>
    BY <1>3 DEF splitStatements
  <2> HIDE DEF doc
  <2>3. Reading(doc)[Len(text)] \in Statements
    BY <1>1, <2>1, ReadingTyped
  <2> QED
    BY <2>2, <2>3
<1> QED
  BY <1>2, <1>3

LEMMA ClausesTyped ==
  ASSUME NEW doc \in Documents, NEW n \in DOMAIN extractDocumentClauses(doc)
  PROVE  extractDocumentClauses(doc)[n] \in Statements
<1>1. doc \in Seq(Lines)
  BY PolicyAuthorAssumption
<1>2. n \in 0 .. Len(doc) /\ extractDocumentClauses(doc)[n] = Reading(doc)[n]
  BY DEF extractDocumentClauses
<1> QED
  BY <1>1, <1>2, ReadingTyped

\* The rules of typed statements are candidate rules.
RulesTyped(rules) == \A i \in DOMAIN rules : rules[i] \in CandidateRules

LEMMA AddedTyped ==
  ASSUME AuthorInv, AuthorTypeOK, NEW from, NEW rules, RulesTyped(rules),
         sessions' = Append(sessions, [from |-> from, rules |-> rules]), authored' \subseteq PolicyEntries
  PROVE  AuthorTypeOK'
<1> DEFINE new == [from |-> from, rules |-> rules]
           All == {sessions[s] : s \in DOMAIN sessions} \cup {new}
<1>1. sessions \in Seq(All) /\ new.rules = rules
  BY DEF AuthorInv
<1> HIDE DEF new
<1>2. /\ sessions' \in Seq(All) /\ Len(sessions') = Len(sessions) + 1
      /\ \A s \in 1..Len(sessions) : sessions'[s] = sessions[s]
      /\ sessions'[Len(sessions) + 1] = new
  BY <1>1, AppendProperties DEF new
<1>3. \A s \in DOMAIN sessions' :
        (s \in DOMAIN sessions /\ sessions'[s] = sessions[s]) \/ sessions'[s] = new
  BY <1>1, <1>2
<1> QED
  BY <1>1, <1>3 DEF AuthorTypeOK, RulesTyped

\* The sessions and the pack keep their types, for any keywords, texts, documents and rewrites.
THEOREM AuthorTypeCorrect == AuthorSpec => []AuthorTypeOK
<1>1. AuthorInit => AuthorTypeOK
  BY DEF AuthorInit, AuthorTypeOK
<1>2. AuthorInv /\ AuthorTypeOK /\ [AuthorNext]_authorVars => AuthorTypeOK'
  <2> SUFFICES ASSUME AuthorInv, AuthorTypeOK, [AuthorNext]_authorVars  PROVE AuthorTypeOK'
    OBVIOUS
  <2>1. ASSUME NEW statements, NEW from, \A i \in DOMAIN statements : statements[i] \in Statements,
               Created(statements, from) /\ UNCHANGED authored
        PROVE  AuthorTypeOK'
    <3>1. RulesTyped(Rules(statements))
      BY <2>1, ProcessedTyped DEF RulesTyped, Rules
    <3>2. authored' \subseteq PolicyEntries
      BY <2>1 DEF AuthorTypeOK
    <3> QED
      BY <2>1, <3>1, <3>2, AddedTyped DEF Created
  <2>2. ASSUME NEW rules, RulesTyped(rules)  PROVE policiesYaml(rules) \subseteq PolicyEntries
    BY <2>2 DEF RulesTyped, policiesYaml, Accepted, CandidateRules
  <2>3. ASSUME NEW statements, NEW from, \A i \in DOMAIN statements : statements[i] \in Statements,
               writeOutput(statements, from)
        PROVE  AuthorTypeOK'
    <3> DEFINE rules == [i \in DOMAIN statements |-> Undrafted(processStatement(statements[i]))]
    <3>1. RulesTyped(rules)
      <4>1. \A rule \in CandidateRules : Undrafted(rule) \in CandidateRules
        BY DEF Undrafted, Reviewed, CandidateRules
      <4> QED
        BY <2>3, <4>1, ProcessedTyped DEF RulesTyped
    <3> HIDE DEF rules
    <3>2. /\ sessions' = Append(sessions, [from |-> from, rules |-> rules])
          /\ authored' \in {authored, policiesYaml(rules)}
      BY <2>3 DEF writeOutput, rules
    <3>3. authored' \subseteq PolicyEntries
      BY <2>2, <3>1, <3>2 DEF AuthorTypeOK
    <3> QED
      BY <3>1, <3>2, <3>3, AddedTyped
  <2>4. ASSUME NEW s \in DOMAIN sessions, reviewRule(s)  PROVE AuthorTypeOK'
    <3>1. PICK i \in DOMAIN sessions[s].rules :
            LET rule == sessions[s].rules[i] IN
            \/ \E status \in {"accepted", "rejected"} : Review(s, i, Reviewed(rule, status))
            \/ \E e \in Rewrites : Review(s, i, [Reviewed(rule, "accepted") EXCEPT !.yaml = {e}])
      BY <2>4 DEF reviewRule
    <3>2. sessions[s].rules[i] \in CandidateRules
      BY DEF AuthorTypeOK
    <3>3. PICK rule \in CandidateRules : Review(s, i, rule)
      <4>1. ASSUME NEW old \in CandidateRules, NEW status \in {"accepted", "rejected"}
            PROVE  Reviewed(old, status) \in CandidateRules
        BY DEF Reviewed, CandidateRules
      <4>2. ASSUME NEW old \in CandidateRules, NEW e \in Rewrites
            PROVE  [old EXCEPT !.yaml = {e}] \in CandidateRules
        BY PolicyAuthorAssumption DEF CandidateRules
      <4> QED
        BY <3>1, <3>2, <4>1, <4>2
    <3>4. sessions' = [sessions EXCEPT ![s].rules[i] = rule] /\ authored' = authored
      BY <3>3 DEF Review
    <3>5. sessions[s] = [from |-> sessions[s].from, rules |-> sessions[s].rules]
          /\ sessions[s].rules = [j \in DOMAIN sessions[s].rules |-> sessions[s].rules[j]]
      BY DEF AuthorInv, SessionKept
    <3>6. DOMAIN sessions' = DOMAIN sessions /\ \A t \in DOMAIN sessions :
            sessions'[t].rules = IF t = s THEN [sessions[s].rules EXCEPT ![i] = rule]
                                          ELSE sessions[t].rules
      BY <3>4, <3>5
    <3> QED
      BY <3>4, <3>6 DEF AuthorTypeOK
  <2>5. ASSUME NEW s \in DOMAIN sessions, commitRules(s)  PROVE AuthorTypeOK'
    <3>1. RulesTyped(sessions[s].rules)
      BY DEF AuthorTypeOK, RulesTyped
    <3> QED
      BY <2>2, <2>5, <3>1 DEF commitRules, AuthorTypeOK
  <2>6. CASE Activate
    BY <2>6 DEF Activate, AuthorTypeOK, PolicyEntries
  <2>7. CASE UNCHANGED authorVars
    BY <2>7 DEF AuthorTypeOK, authorVars
  <2> QED
    BY <2>1, <2>3, <2>4, <2>5, <2>6, <2>7, SplitTyped, ClausesTyped
    DEF AuthorNext, Service, Unattended, authorFromText, authorFromDocument
<1>3. AuthorInit => AuthorInv
  BY DEF AuthorInit, AuthorInv
<1> QED
  BY <1>1, <1>2, <1>3, AuthorStep, PTL DEF AuthorSpec

-----------------------------------------------------------------------------
(* The phase interview                                                     *)

\* The answers of a session, and what was generated of them at the end.
SessionInv == \A s \in session :
  /\ DOMAIN s = {"currentPhase", "answers", "result"}
  /\ s.answers \in Seq(UNION {PhaseAnswers[i] : i \in 1..4})
  /\ s.currentPhase = Len(s.answers) + 1 /\ s.currentPhase \in 1..5
  /\ \A i \in 1..Len(s.answers) : s.answers[i] \in PhaseAnswers[i]
  /\ s.result = IF s.currentPhase = 5 THEN {generateAllConfig(s.answers)} ELSE {}

LEMMA AnswerKeeps ==
  ASSUME SessionInv, NEW phase \in 1..4, NEW ans \in PhaseAnswers[phase],
         processPhaseAnswers(phase, ans)
  PROVE  SessionInv'
<1> DEFINE All == UNION {PhaseAnswers[i] : i \in 1..4}
<1>1. PICK s \in session :
        /\ phase = s.currentPhase
        /\ session' = {[currentPhase |-> phase + 1, answers |-> Append(s.answers, ans),
              result |-> IF phase = 4 THEN {generateAllConfig(Append(s.answers, ans))} ELSE {}]}
  BY DEF processPhaseAnswers
<1>2. s.answers \in Seq(All) /\ phase = Len(s.answers) + 1 /\ ans \in All
      /\ \A i \in 1..Len(s.answers) : s.answers[i] \in PhaseAnswers[i]
  BY <1>1 DEF SessionInv
<1> HIDE DEF All
<1>3. PICK all : all = Append(s.answers, ans)
  OBVIOUS
<1>4. /\ all \in Seq(All) /\ Len(all) = phase
      /\ \A i \in 1..Len(all) : all[i] \in PhaseAnswers[i]
  BY <1>2, <1>3, AppendProperties
<1>5. session' = {[currentPhase |-> phase + 1, answers |-> all,
                   result |-> IF phase = 4 THEN {generateAllConfig(all)} ELSE {}]}
  BY <1>1, <1>3
<1> QED
  BY <1>4, <1>5 DEF SessionInv, All

LEMMA SessionStep == SessionInv /\ [SetupNext]_setupVars => SessionInv'
<1> SUFFICES ASSUME SessionInv, [SetupNext]_setupVars  PROVE SessionInv'
  OBVIOUS
<1>1. CASE UNCHANGED session
  BY <1>1 DEF SessionInv
<1>2. CASE startOnboarding
  <2> DEFINE All == UNION {PhaseAnswers[i] : i \in 1..4}
  <2>1. PICK none : none = <<>> /\ none \in Seq(All) /\ Len(none) = 0
    BY EmptySeq
  <2> HIDE DEF All
  <2>2. session' = {[currentPhase |-> 1, answers |-> none, result |-> {}]}
    BY <1>2, <2>1 DEF startOnboarding
  <2>3. \A i \in 1..Len(none) : none[i] \in PhaseAnswers[i]
    BY <2>1
  <2>4. PICK s : s = [currentPhase |-> 1, answers |-> none, result |-> {}]
    OBVIOUS
  <2>5. /\ DOMAIN s = {"currentPhase", "answers", "result"}
        /\ s.currentPhase = 1 /\ s.answers = none /\ s.result = {}
    BY <2>4
  <2>6. session' = {s}
    BY <2>2, <2>4
  <2>7. /\ s.answers \in Seq(UNION {PhaseAnswers[i] : i \in 1..4})
        /\ s.currentPhase = Len(s.answers) + 1 /\ s.currentPhase \in 1..5
    BY <2>1, <2>5 DEF All
  <2>8. /\ \A i \in 1..Len(s.answers) : s.answers[i] \in PhaseAnswers[i]
        /\ s.result = IF s.currentPhase = 5 THEN {generateAllConfig(s.answers)} ELSE {}
    BY <2>3, <2>5
  <2> QED
    BY <2>5, <2>6, <2>7, <2>8 DEF SessionInv
<1>3. CASE AnswerPhase
  BY <1>3, AnswerKeeps DEF AnswerPhase
<1>4. CASE SetupCommands
  BY <1>1, <1>4
  DEF SetupCommands, setupCommand, askSetupQuestion, DecidePowers, Generate, WriteArtifact,
      WriteRootConfig, Announce, enforceCommand, flipToEnforce, initCommand, WriteStarterPack,
      WriteStarterConfig, Crash
<1>5. CASE Tools
  BY <1>1, <1>2, <1>3, <1>5
  DEF Tools, Call, dc_setup_detect, dc_setup_infer, dc_setup_generate, dc_setup_activate
<1>6. CASE UNCHANGED setupVars
  BY <1>1, <1>6 DEF setupVars
<1> QED
  BY <1>4, <1>5, <1>6 DEF SetupNext

\* The rule about a single action that asks or denies is not outvoted.
LEMMA RuleHolds ==
  ASSUME NEW rules, NEW denyUnknown \in BOOLEAN, NEW a, NEW rule \in rules,
         Applies(rule, ContextOf(a)),
         VerdictOf(rule, ContextOf(a)) \in VerdictResults
  PROVE  AtLeast(evaluate(rules, denyUnknown, ContextOf(a)), VerdictOf(rule, ContextOf(a)))
<1> DEFINE matched == {r \in rules : Applies(r, ContextOf(a))}
           results == {VerdictOf(r, ContextOf(a)) : r \in matched}
<1>1. matched # {} /\ VerdictOf(rule, ContextOf(a)) \in results
  OBVIOUS
<1>2. evaluate(rules, denyUnknown, ContextOf(a)) = arbitrate(results)
  BY <1>1 DEF evaluate
<1> HIDE DEF matched, results
<1>3. PICK v \in VerdictResults : v = VerdictOf(rule, ContextOf(a)) /\ v \in results
  BY <1>1
<1>4. /\ Strictness["allow"] = 0 /\ Strictness["approve_required"] = 1 /\ Strictness["deny"] = 2
  BY DEF Strictness
<1>5. AtLeast(arbitrate(results), v)
  BY <1>3, <1>4 DEF AtLeast, arbitrate, VerdictResults
<1> QED
  BY <1>2, <1>3, <1>5

\* A generated rule says what it was generated for.
LEMMA RuleSays ==
  ASSUME NEW actions, NEW a \in actions, NEW default
  PROVE  /\ \A approval : Applies(Rule(actions, approval, default), ContextOf(a))
         /\ VerdictOf(Rule(actions, TRUE, default), ContextOf(a)) = "approve_required"
         /\ VerdictOf(Rule(actions, FALSE, default), ContextOf(a)) = default
<1>1. ASSUME NEW approval
      PROVE  /\ Applies(Rule(actions, approval, default), ContextOf(a))
             /\ ~Breaches(Rule(actions, approval, default), ContextOf(a))
             /\ ~Outside(Rule(actions, approval, default), ContextOf(a))
             /\ Rule(actions, approval, default).approval = approval
             /\ Rule(actions, approval, default).default = default
  BY DEF Applies, Scoped, Rule, ContextOf, Breaches, Outside
<1> QED
  BY <1>1 DEF VerdictOf

LEMMA RuleForSays ==
  ASSUME NEW actions, NEW a \in actions, NEW verdict \in VerdictResults
  PROVE  /\ Applies(RuleFor(actions, verdict), ContextOf(a))
         /\ VerdictOf(RuleFor(actions, verdict), ContextOf(a)) = verdict
<1>1. CASE verdict = "approve_required"
  <2>1. RuleFor(actions, verdict) = Rule(actions, TRUE, "allow")
    BY <1>1 DEF RuleFor, Rule
  <2>2. /\ Applies(Rule(actions, TRUE, "allow"), ContextOf(a))
        /\ VerdictOf(Rule(actions, TRUE, "allow"), ContextOf(a)) = "approve_required"
    BY RuleSays
  <2> QED
    BY <1>1, <2>1, <2>2
<1>2. CASE verdict # "approve_required"
  <2>1. RuleFor(actions, verdict) = Rule(actions, FALSE, verdict)
    BY <1>2 DEF RuleFor, Rule, VerdictResults
  <2>2. /\ Applies(Rule(actions, FALSE, verdict), ContextOf(a))
        /\ VerdictOf(Rule(actions, FALSE, verdict), ContextOf(a)) = verdict
    BY RuleSays
  <2> QED
    BY <2>1, <2>2
<1> QED
  BY <1>1, <1>2

LEMMA RuleForHolds ==
  ASSUME NEW rules, NEW denyUnknown \in BOOLEAN, NEW actions, NEW a \in actions,
         NEW verdict \in VerdictResults, RuleFor(actions, verdict) \in rules
  PROVE  AtLeast(evaluate(rules, denyUnknown, ContextOf(a)), verdict)
BY RuleForSays, RuleHolds

\* Rules none of which allows anything allow nothing, not even what none of them is about.
LEMMA NothingAllowed ==
  ASSUME NEW rules, NEW a,
         \A rule \in rules : \E actions : \E verdict \in {"deny", "approve_required"} :
           rule = RuleFor(actions, verdict)
  PROVE  evaluate(rules, TRUE, ContextOf(a)) # "allow"
<1> SUFFICES ASSUME evaluate(rules, TRUE, ContextOf(a)) = "allow" PROVE FALSE
  OBVIOUS
<1>1. PICK rule \in rules : /\ Applies(rule, ContextOf(a))
                            /\ VerdictOf(rule, ContextOf(a)) \notin {"deny", "approve_required"}
  BY OnlyExplicitAllow
<1>2. PICK actions : \E v \in {"deny", "approve_required"} : rule = RuleFor(actions, v)
  OBVIOUS
<1>3. PICK verdict \in {"deny", "approve_required"} : rule = RuleFor(actions, verdict)
  BY <1>2
<1>4. a \in actions
  BY <1>1, <1>3 DEF Applies, ContextOf, RuleFor, Rule
<1>5. verdict \in VerdictResults
  BY DEF VerdictResults
<1>6. VerdictOf(RuleFor(actions, verdict), ContextOf(a)) = verdict
  BY <1>4, <1>5, RuleForSays
<1> QED
  BY <1>1, <1>3, <1>6

LEMMA AskedIsNotAllowed ==
  ASSUME NEW verdict, AtLeast(verdict, "approve_required") \/ AtLeast(verdict, "deny")
  PROVE  verdict # "allow"
BY DEF AtLeast, Strictness

-----------------------------------------------------------------------------
(* Profiles                                                                *)

LEMMA FieldsAre ==
  ProfileFields = { "mode", "harness", "detectedTools", "jobs", "posture", "defaultAction",
                    "enforcementMode", "executiveDecisions", "alwaysRequireApproval", "provider",
                    "listed", "detected", "read", "writeBack", "classes", "tools",
                    "evidenceImported" }
BY DEF ProfileFields, createEmptyProfile

\* The defaults of a mode leave the tools and the decisions alone.
LEMMA DefaultsKeep ==
  ASSUME NEW p, DOMAIN p = ProfileFields
  PROVE  /\ DOMAIN applyModeDefaults(p) = ProfileFields
         /\ applyModeDefaults(p).tools = p.tools
         /\ applyModeDefaults(p).executiveDecisions = p.executiveDecisions
         /\ applyModeDefaults(p).mode = p.mode
BY FieldsAre DEF applyModeDefaults

LEMMA ConvertedTools ==
  ASSUME NEW ans, NEW t \in ans[2].highRiskTools
  PROVE  LET p == convertAllAnswersToProfile(ans) IN
         /\ DOMAIN p = ProfileFields /\ p.tools # {} /\ p.mode = ans[3].riskProfile
         /\ p.executiveDecisions = defaultExecutiveDecisions
         /\ \A tool \in p.tools : \/ tool.riskTier = 4
                                  \/ tool.riskTier = 2 /\ tool.defaultAction = "ask"
<1> DEFINE tool == [name |-> t, riskTier |-> 4, defaultAction |-> "block",
                    powers |-> (IF ans[2].canSpendMoney THEN {"spend_money"} ELSE {})
                                 \cup IF ans[2].piiHandling THEN {"access_sensitive_data"} ELSE {}]
<1>1. PICK empty : empty = createEmptyProfile /\ DOMAIN empty = ProfileFields
  BY DEF ProfileFields
<1>2. PICK tools :
        /\ tools = {[name |-> n, riskTier |-> 4, defaultAction |-> "block",
                     powers |-> (IF ans[2].canSpendMoney THEN {"spend_money"} ELSE {})
                                  \cup IF ans[2].piiHandling THEN {"access_sensitive_data"} ELSE {}] :
                      n \in ans[2].highRiskTools}
                   \cup {[name |-> n, riskTier |-> 2, defaultAction |-> "ask", powers |-> {}] :
                           n \in ans[2].mediumRiskTools}
        /\ tool \in tools
  OBVIOUS
<1>3. \A other \in tools : \/ other.riskTier = 4
                           \/ other.riskTier = 2 /\ other.defaultAction = "ask"
  BY <1>2
<1>4. empty.executiveDecisions = defaultExecutiveDecisions
  BY <1>1 DEF createEmptyProfile
<1>5. /\ DOMAIN convertAllAnswersToProfile(ans) = ProfileFields
      /\ convertAllAnswersToProfile(ans).tools = tools
      /\ convertAllAnswersToProfile(ans).mode = ans[3].riskProfile
      /\ convertAllAnswersToProfile(ans).executiveDecisions = empty.executiveDecisions
  BY <1>1, <1>2, FieldsAre DEF convertAllAnswersToProfile
<1> QED
  BY <1>2, <1>3, <1>4, <1>5

\* What the operator says is of high risk is held, whichever of the two ways the answers become
\* a pack (onboarding.service.ts:328), for any actions and answers.
THEOREM HighRiskAlwaysHeld == SetupSpec => []HighRiskIsHeld
<1>1. SetupInit => SessionInv
  BY DEF SetupInit, SessionInv
<1>2. SessionInv => HighRiskIsHeld
  <2> SUFFICES ASSUME SessionInv, NEW s \in session, s.result # {},
                      NEW t \in s.answers[2].highRiskTools
               PROVE  /\ \A c \in s.result : s.answers[3].approvalWorkflow # "log_only" =>
                           evaluate(c.policies, FALSE, ContextOf(t)) # "allow"
                      /\ \A a \in {t, Sanitized[t]} :
                           evaluate(generatePolicyPackYaml(
                             applyModeDefaults(convertAllAnswersToProfile(s.answers))).rules,
                             TRUE, ContextOf(a)) # "allow"
    BY DEF HighRiskIsHeld, HighRiskContext, ContextOf
  <2>1. PICK ans : ans = s.answers
    OBVIOUS
  <2>2. ans[3] \in AnswersTo[3] /\ s.result \subseteq {generateAllConfig(ans)}
    <3>0. /\ ans \in Seq(UNION {PhaseAnswers[i] : i \in 1..4}) /\ 5 = Len(ans) + 1
          /\ \A i \in 1..Len(ans) : ans[i] \in PhaseAnswers[i]
      BY <2>1 DEF SessionInv
    <3>1. Len(ans) = 4 /\ \A i \in 1..Len(ans) : ans[i] \in PhaseAnswers[i]
      <4>1. PICK n \in Nat : n = Len(ans)
        BY <3>0, LenProperties
      <4>2. n = 4
        BY <3>0, <4>1
      <4> QED
        BY <3>0, <4>1, <4>2
    <3>2. ans[3] \in PhaseAnswers[3] /\ PhaseAnswers[3] \subseteq AnswersTo[3]
      BY <3>1, OnboardingServiceAssumption
    <3> QED
      BY <2>1, <3>2 DEF SessionInv
  <2>3. ASSUME ans[3].approvalWorkflow # "log_only"
        PROVE  evaluate(generateAllConfig(ans).policies, FALSE, ContextOf(t)) # "allow"
    <3>1. ans[3].approvalWorkflow \in {"approve", "block"}
      BY <2>2, <2>3 DEF AnswersTo, ApprovalWorkflows
    <3>2. Rule({t}, TRUE, "allow") \in HighRiskRules(ans)
      BY <2>1, <3>1 DEF HighRiskRules
    <3>3. Rule({t}, TRUE, "allow") \in generateAllConfig(ans).policies
      BY <3>2 DEF generateAllConfig, generatePoliciesYaml
    <3>4. /\ Applies(Rule({t}, TRUE, "allow"), ContextOf(t))
          /\ VerdictOf(Rule({t}, TRUE, "allow"), ContextOf(t)) = "approve_required"
      BY RuleSays
    <3> QED
      BY <3>3, <3>4, RuleHolds, AskedIsNotAllowed DEF VerdictResults
  <2>4. ASSUME NEW a
        PROVE  evaluate(generatePolicyPackYaml(
                 applyModeDefaults(convertAllAnswersToProfile(ans))).rules, TRUE, ContextOf(a)) # "allow"
    <3>1. PICK p : p = applyModeDefaults(convertAllAnswersToProfile(ans))
      OBVIOUS
    <3>2. PICK q : q = convertAllAnswersToProfile(ans)
      OBVIOUS
    <3>3. /\ DOMAIN q = ProfileFields /\ q.tools # {} /\ q.mode = ans[3].riskProfile
          /\ q.executiveDecisions = defaultExecutiveDecisions
          /\ \A tool \in q.tools : \/ tool.riskTier = 4
                                   \/ tool.riskTier = 2 /\ tool.defaultAction = "ask"
      BY <2>1, <3>2, ConvertedTools
    <3>4. p.tools = q.tools /\ p.mode = q.mode /\ p.executiveDecisions = q.executiveDecisions
      BY <3>1, <3>2, <3>3, DefaultsKeep
    <3>5. \A tool \in p.tools : runtimeVerdictForTool(tool) \in {"deny", "approve_required"}
      BY <3>3, <3>4 DEF runtimeVerdictForTool, toPolicyDecision
    <3>6. \A c \in DANGEROUS_CAPABILITIES :
            toPolicyDecision(p.executiveDecisions[c]) \in {"deny", "approve_required"}
      BY <3>3, <3>4 DEF defaultExecutiveDecisions, toPolicyDecision
    <3>7. generatePolicyPackYaml(p).rules =
            {RuleFor({Sanitized[tool.name]}, runtimeVerdictForTool(tool)) : tool \in p.tools}
              \cup ModeRules(p.mode) \cup ExecRules(p)
      BY <3>3, <3>4 DEF generatePolicyPackYaml, Pack
    <3>8. \A rule \in generatePolicyPackYaml(p).rules :
            \E actions : \E verdict \in {"deny", "approve_required"} : rule = RuleFor(actions, verdict)
      <4>1. \A rule \in {RuleFor({Sanitized[tool.name]}, runtimeVerdictForTool(tool)) : tool \in p.tools} :
              \E actions : \E verdict \in {"deny", "approve_required"} : rule = RuleFor(actions, verdict)
        BY <3>5
      <4>2. \A rule \in ModeRules(p.mode) :
              \E actions : \E verdict \in {"deny", "approve_required"} : rule = RuleFor(actions, verdict)
        <5>1. p.mode \in Modes
          BY <2>2, <3>3, <3>4 DEF AnswersTo, RiskProfiles, Modes
        <5> QED
          BY <5>1 DEF ModeRules, Modes
      <4>3. \A rule \in ExecRules(p) :
              \E actions : \E verdict \in {"deny", "approve_required"} : rule = RuleFor(actions, verdict)
        BY <3>6 DEF ExecRules
      <4> QED
        BY <3>7, <4>1, <4>2, <4>3
    <3> QED
      BY <3>1, <3>8, NothingAllowed
  <2> QED
    BY <2>1, <2>2, <2>3, <2>4
<1> QED
  BY <1>1, <1>2, SessionStep, PTL DEF SetupSpec

-----------------------------------------------------------------------------
(* setup: the profile                                                      *)

\* What the artifacts need of a profile: tools of a tier, and decisions about the powers.
ToolOK(tool) ==
  /\ DOMAIN tool = {"name", "riskTier", "powers", "defaultAction"}
  /\ tool.riskTier \in 0..4 /\ tool.defaultAction \in DefaultActions

ProfileOK(p) ==
  /\ DOMAIN p = ProfileFields
  /\ p.executiveDecisions \in [DANGEROUS_CAPABILITIES -> DefaultActions]
  /\ \A tool \in p.tools : ToolOK(tool)

LEMMA EmptyOK == ProfileOK(createEmptyProfile)
<1>1. defaultExecutiveDecisions \in [DANGEROUS_CAPABILITIES -> DefaultActions]
  BY DEF defaultExecutiveDecisions, DefaultActions
<1>2. createEmptyProfile.executiveDecisions = defaultExecutiveDecisions
      /\ createEmptyProfile.tools = {}
  BY DEF createEmptyProfile
<1> QED
  BY <1>1, <1>2 DEF ProfileOK, ProfileFields

LEMMA DefaultsOK ==
  ASSUME NEW p, ProfileOK(p)
  PROVE  ProfileOK(applyModeDefaults(p))
BY DefaultsKeep DEF ProfileOK

LEMMA CandidatesOK ==
  ASSUME NEW names, NEW tool \in candidatesToProfileTools(names)
  PROVE  ToolOK(tool)
<1>1. PICK n \in names :
        tool = [name |-> n, riskTier |-> classify(n)[1], defaultAction |-> classify(n)[2],
                powers |-> {q \in Powers : Holds(n, PowerWords[q])}]
  BY DEF candidatesToProfileTools
<1>2. classify(n) \in {<<4, "block">>, <<2, "ask">>, <<1, "allow">>, <<3, "ask">>}
  BY DEF classify
<1>3. classify(n)[1] \in 0..4 /\ classify(n)[2] \in DefaultActions
  BY <1>2 DEF DefaultActions
<1> QED
  BY <1>1, <1>3 DEF ToolOK

LEMMA ImportedOK ==
  ASSUME NEW p, ProfileOK(p), NEW exports
  PROVE  ProfileOK(Imported(p, exports))
<1>1. ASSUME NEW inference
      PROVE  ProfileOK([applyInferenceToProfile(p, inference) EXCEPT !.evidenceImported = TRUE])
  <2>1. /\ DOMAIN applyInferenceToProfile(p, inference) = ProfileFields
        /\ applyInferenceToProfile(p, inference).tools = p.tools
        /\ applyInferenceToProfile(p, inference).executiveDecisions = p.executiveDecisions
    BY FieldsAre DEF ProfileOK, applyInferenceToProfile
  <2> QED
    BY <2>1, FieldsAre DEF ProfileOK
<1> QED
  BY <1>1 DEF Imported

LEMMA DraftedOK ==
  ASSUME NEW project, NEW found, NEW f
  PROVE  ProfileOK(Drafted(project, found, f))
<1>1. PICK empty : empty = createEmptyProfile /\ ProfileOK(empty)
  BY EmptyOK
<1>2. /\ DOMAIN Drafted(project, found, f) = ProfileFields
      /\ Drafted(project, found, f).tools = candidatesToProfileTools(found)
      /\ Drafted(project, found, f).executiveDecisions = empty.executiveDecisions
  BY <1>1, FieldsAre DEF Drafted, ProfileOK
<1> QED
  BY <1>1, <1>2, CandidatesOK DEF ProfileOK

LEMMA EmpoweredOK ==
  ASSUME NEW tool, ToolOK(tool), NEW caps
  PROVE  ToolOK(Empowered(tool, caps))
BY DEF ToolOK, Empowered, DefaultActions

LEMMA AnsweredOK ==
  ASSUME NEW p, ProfileOK(p), NEW i \in DOMAIN ALL_QUESTIONS, NEW value
  PROVE  ProfileOK(applyAnswer(p, ALL_QUESTIONS[i], value))
<1>1. PICK q \in {"mode", "harness", "primary_jobs", "destructive_tools",
                  "high_risk_capabilities", "always_approve", "provider_mode", "memory_consent",
                  "writeback_consent"} : q = ALL_QUESTIONS[i]
  BY DEF ALL_QUESTIONS
<1>2. CASE q = "destructive_tools"
  <2>1. applyAnswer(p, q, value) = [p EXCEPT !.tools = {Destructive(n) : n \in value}]
    BY <1>2 DEF applyAnswer
  <2>2. \A n \in value : ToolOK(Destructive(n))
    BY DEF ToolOK, Destructive, DefaultActions
  <2> QED
    BY <1>1, <2>1, <2>2, FieldsAre DEF ProfileOK
<1>3. CASE q = "high_risk_capabilities"
  <2>1. applyAnswer(p, q, value) = [p EXCEPT !.tools = {Empowered(tool, value) : tool \in p.tools}]
    BY <1>3 DEF applyAnswer
  <2>2. \A tool \in p.tools : ToolOK(Empowered(tool, value))
    BY EmpoweredOK DEF ProfileOK
  <2> QED
    BY <1>1, <2>1, <2>2, FieldsAre DEF ProfileOK
<1>4. CASE q \notin {"destructive_tools", "high_risk_capabilities"}
  BY <1>1, <1>4, FieldsAre DEF ProfileOK, applyAnswer, WriteBack
<1> QED
  BY <1>1, <1>2, <1>3, <1>4

LEMMA DecidedOK ==
  ASSUME NEW p, ProfileOK(p), NEW decisions \in Decisions
  PROVE  ProfileOK(Decided(p, decisions))
<1>1. ProfileOK([p EXCEPT !.executiveDecisions = decisions])
  BY FieldsAre, SetupAssumption DEF ProfileOK
<1> QED
  BY <1>1, DefaultsOK DEF Decided

-----------------------------------------------------------------------------
(* setup: the files                                                        *)

\* The files whose contents matter to what follows, and what they hold.
Relevant == {"pack", "tools", "scenarios", "report", "manifest"}

FileOK(p, f) ==
  /\ f.path = "pack" => f.content = generatePolicyPackYaml(p)
  /\ f.path = "tools" => f.content = generateToolsPolicy(p)
  /\ f.path = "scenarios" => f.content = generateTestScenarios(p)
  /\ f.path = "report" => f.content = generateOnboardingReport(p)
  /\ f.path = "manifest" => f.content = generateRollbackManifest(Generated(p))

Holding(s, x) == \E i \in 1..Len(s) : s[i] = x

LEMMA Joining ==
  ASSUME NEW S, NEW s \in Seq(S), NEW t \in Seq(S)
  PROVE  /\ s \o t \in Seq(S)
         /\ \A x : Holding(s, x) \/ Holding(t, x) => Holding(s \o t, x)
<1>1. /\ s \o t \in Seq(S) /\ Len(s \o t) = Len(s) + Len(t)
      /\ Len(s) \in Nat /\ Len(t) \in Nat
      /\ \A i \in 1..Len(s) : (s \o t)[i] = s[i]
      /\ \A i \in 1..Len(t) : (s \o t)[Len(s) + i] = t[i]
  BY ConcatProperties, LenProperties
<1>2. ASSUME NEW x, NEW i \in 1..Len(s), s[i] = x  PROVE Holding(s \o t, x)
  <2>1. i \in 1..Len(s \o t) /\ (s \o t)[i] = x
    BY <1>1, <1>2
  <2> QED
    BY <2>1 DEF Holding
<1>3. ASSUME NEW x, NEW i \in 1..Len(t), t[i] = x  PROVE Holding(s \o t, x)
  <2>1. Len(s) + i \in 1..Len(s \o t) /\ (s \o t)[Len(s) + i] = x
    BY <1>1, <1>3
  <2> QED
    BY <2>1 DEF Holding
<1> QED
  BY <1>1, <1>2, <1>3 DEF Holding

\* A file but the manifest.
Ordinary(p, f) == FileOK(p, f) /\ f.path \in Paths \ {"manifest"}

LEMMA OrdinaryFile ==
  ASSUME NEW p, NEW path \in Paths \ Relevant, NEW content
  PROVE  Ordinary(p, File(path, content))
<1>1. File(path, content).path = path
  BY DEF File
<1> QED
  BY <1>1 DEF Ordinary, FileOK, Relevant

LEMMA MaybeFile ==
  ASSUME NEW S, NEW path, NEW clauses, File(path, clauses) \in S
  PROVE  Optional(path, clauses) \in Seq(S)
<1>1. PICK f \in S : f = File(path, clauses)
  OBVIOUS
<1>2. Optional(path, clauses) = <<>> \/ Optional(path, clauses) = <<f>>
  BY <1>1 DEF Optional
<1>3. <<>> \in Seq(S) /\ <<f>> \in Seq(S)
  OBVIOUS
<1> QED
  BY <1>2, <1>3

\* The files but the manifest.
LEMMA GeneratedAre ==
  ASSUME NEW p
  PROVE  /\ \E S : /\ Generated(p) \in Seq(S)
                   /\ \A f \in S : Ordinary(p, f)
         /\ Holding(Generated(p), File("pack", generatePolicyPackYaml(p)))
         /\ Holding(Generated(p), File("scenarios", generateTestScenarios(p)))
         /\ Holding(Generated(p), File("report", generateOnboardingReport(p)))
<1>1. PICK profile, settings, surfaces, baseline, provider, integration, memory, dataPolicy, memoryPolicy :
        /\ profile = generateProfileYaml(p) /\ settings = generateConfigYaml(p)
        /\ surfaces = generateSurfaceContracts(p) /\ baseline = generateBaselinePolicy(p)
        /\ provider = generateProviderPolicy(p) /\ integration = generateHarnessIntegration(p)
        /\ memory = generateMemorySourceReport(p) /\ dataPolicy = generateDataPolicy(p)
        /\ memoryPolicy = generateMemorySourcePolicy(p)
  OBVIOUS
<1>2. PICK toolPolicy, rulePack, scenarios, report :
        /\ toolPolicy = generateToolsPolicy(p) /\ rulePack = generatePolicyPackYaml(p)
        /\ scenarios = generateTestScenarios(p) /\ report = generateOnboardingReport(p)
  OBVIOUS
<1> DEFINE S == { File("profile", profile), File("config", settings), File("surfaces", surfaces),
                  File("baseline", baseline), File("tools", toolPolicy), File("data", dataPolicy),
                  File("provider", provider), File("memory", memoryPolicy), File("pack", rulePack),
                  File("scenarios", scenarios), File("integration", integration),
                  File("report", report), File("memory report", memory) }
           A == << File("profile", profile), File("config", settings),
                   File("surfaces", surfaces), File("baseline", baseline) >>
           B == Optional("tools", toolPolicy)
           C == Optional("data", dataPolicy)
           D == << File("provider", provider) >>
           E == Optional("memory", memoryPolicy)
           F == << File("pack", rulePack), File("scenarios", scenarios),
                   File("integration", integration), File("report", report),
                   File("memory report", memory) >>
<1>3. Generated(p) = A \o B \o C \o D \o E \o F
  BY <1>1, <1>2 DEF Generated
<1>4. ASSUME NEW f \in S  PROVE Ordinary(p, f)
  <2>1. /\ Ordinary(p, File("profile", profile)) /\ Ordinary(p, File("config", settings))
        /\ Ordinary(p, File("surfaces", surfaces)) /\ Ordinary(p, File("baseline", baseline))
        /\ Ordinary(p, File("data", dataPolicy)) /\ Ordinary(p, File("provider", provider))
        /\ Ordinary(p, File("memory", memoryPolicy))
        /\ Ordinary(p, File("integration", integration))
        /\ Ordinary(p, File("memory report", memory))
    BY OrdinaryFile DEF Relevant, Paths
  <2>2. /\ Ordinary(p, File("tools", toolPolicy)) /\ Ordinary(p, File("pack", rulePack))
        /\ Ordinary(p, File("scenarios", scenarios)) /\ Ordinary(p, File("report", report))
    BY <1>2 DEF Ordinary, FileOK, File, Paths
  <2> QED
    BY <2>1, <2>2
<1>5. A \in Seq(S) /\ D \in Seq(S) /\ F \in Seq(S)
  OBVIOUS
<1>6. Len(F) = 5 /\ F[1] = File("pack", rulePack) /\ F[2] = File("scenarios", scenarios)
      /\ F[4] = File("report", report)
  OBVIOUS
<1>7. /\ File("tools", toolPolicy) \in S /\ File("data", dataPolicy) \in S
      /\ File("memory", memoryPolicy) \in S
  OBVIOUS
<1> HIDE DEF S, A, D, F
<1>8. B \in Seq(S) /\ C \in Seq(S) /\ E \in Seq(S)
  BY <1>7, MaybeFile
<1> HIDE DEF B, C, E
<1>9. /\ Holding(F, File("pack", rulePack)) /\ Holding(F, File("scenarios", scenarios))
      /\ Holding(F, File("report", report))
  BY <1>6 DEF Holding
<1>10. A \o B \in Seq(S)
  BY <1>5, <1>8, Joining
<1>11. (A \o B) \o C \in Seq(S)
  BY <1>8, <1>10, Joining
<1>12. ((A \o B) \o C) \o D \in Seq(S)
  BY <1>5, <1>11, Joining
<1>13. (((A \o B) \o C) \o D) \o E \in Seq(S)
  BY <1>8, <1>12, Joining
<1>14. PICK start \in Seq(S) : Generated(p) = start \o F
  BY <1>3, <1>13
<1>15. /\ Generated(p) \in Seq(S)
       /\ \A x : Holding(F, x) => Holding(Generated(p), x)
  BY <1>5, <1>14, Joining
<1> QED
  BY <1>2, <1>4, <1>9, <1>15

AllFiles(p) == {generateArtifacts(p)[i] : i \in 1..Len(generateArtifacts(p))}

LEMMA ArtifactsAre ==
  ASSUME NEW p, safeParse(p)
  PROVE  /\ generateArtifacts(p) \in Seq(AllFiles(p))
         /\ \A f \in AllFiles(p) : FileOK(p, f) /\ f.path \in Paths
         /\ File("pack", generatePolicyPackYaml(p)) \in AllFiles(p)
         /\ File("scenarios", generateTestScenarios(p)) \in AllFiles(p)
         /\ File("report", generateOnboardingReport(p)) \in AllFiles(p)
         /\ File("manifest", generateRollbackManifest(Generated(p))) \in AllFiles(p)
         /\ \A path \in generateRollbackManifest(Generated(p)) \ {"manifest"} :
              \E f \in AllFiles(p) : f.path = path
<1>1. PICK S, g : /\ g = Generated(p) /\ g \in Seq(S)
                  /\ \A f \in S : Ordinary(p, f)
  BY GeneratedAre
<1> DEFINE last == File("manifest", generateRollbackManifest(g))
           all == Append(g, last)
<1>2. /\ last.path = "manifest" /\ last.content = generateRollbackManifest(Generated(p))
      /\ FileOK(p, last)
  BY <1>1 DEF FileOK, File
<1> HIDE DEF last
<1>3. /\ all \in Seq(S \cup {last}) /\ Len(all) = Len(g) + 1 /\ Len(g) \in Nat
      /\ \A i \in 1..Len(g) : all[i] = g[i]
      /\ all[Len(g) + 1] = last
  <2>1. g \in Seq(S \cup {last}) /\ last \in S \cup {last}
    BY <1>1
  <2> QED
    BY <2>1, AppendProperties, LenProperties
<1>4. all = generateArtifacts(p)
  BY <1>1 DEF generateArtifacts, last
<1> HIDE DEF all
<1>5. all \in Seq(AllFiles(p))
  BY <1>3, <1>4 DEF AllFiles
<1>6. \A f \in AllFiles(p) : FileOK(p, f) /\ f.path \in Paths
  <2>1. \A i \in 1..Len(all) : all[i] \in S \cup {last}
    BY <1>3
  <2>2. last.path \in Paths
    BY <1>2 DEF Paths
  <2> QED
    BY <1>1, <1>2, <1>4, <2>1, <2>2 DEF AllFiles, Ordinary
<1>7. \A x : Holding(g, x) => x \in AllFiles(p)
  BY <1>3, <1>4 DEF Holding, AllFiles
<1>8. last \in AllFiles(p)
  BY <1>3, <1>4 DEF AllFiles
<1>9. \A path \in generateRollbackManifest(g) \ {"manifest"} : \E f \in AllFiles(p) : f.path = path
  <2>1. DOMAIN g = 1..Len(g)
    BY <1>1
  <2>2. \A i \in 1..Len(g) : g[i] \in AllFiles(p)
    BY <1>7 DEF Holding
  <2> QED
    BY <2>1, <2>2 DEF generateRollbackManifest
<1> QED
  BY <1>1, <1>4, <1>5, <1>6, <1>7, <1>8, <1>9, GeneratedAre DEF last

\* Both directories are there.
BothKept == DOMAIN files = Directories /\ DOMAIN policyPack = Directories

\* In the directory the run writes to.
OnDisk(f) ==
  IF f.path = "pack" THEN policyPack[Here] = f.content
  ELSE f.path \in DOMAIN files[Here] /\ files[Here][f.path] = f.content

\* While a run writes, each file that matters is still to be written or on disk, and then all are.
WritingOK ==
  /\ run.left \in Seq(AllFiles(run.profile))
  /\ \A f \in AllFiles(run.profile) : f.path \in Relevant => Holding(run.left, f) \/ OnDisk(f)

SetupInv ==
  /\ DOMAIN run = {"at", "flags", "profile", "plan", "left"}
  /\ run.plan \subseteq DOMAIN ALL_QUESTIONS
  /\ ProfileOK(run.profile)
  /\ run.at \in {"writing", "written"} => safeParse(run.profile)
  /\ run.at = "writing" => WritingOK
  /\ Written => \A f \in AllFiles(run.profile) : f.path \in Relevant => OnDisk(f)

LEMMA BothAlways == SetupSpec => []BothKept
<1>1. SetupInit => BothKept
  BY DEF SetupInit, BothKept
<1>2. BothKept /\ [SetupNext]_setupVars => BothKept'
  <2> SUFFICES ASSUME BothKept, [SetupNext]_setupVars  PROVE BothKept'
    OBVIOUS
  <2>1. CASE WriteArtifact
    <3>1. DOMAIN files' = DOMAIN files /\ DOMAIN policyPack' = DOMAIN policyPack
      BY <2>1 DEF WriteArtifact
    <3> QED
      BY <3>1 DEF BothKept
  <2>2. CASE WriteStarterPack
    <3>1. DOMAIN files' = DOMAIN files /\ DOMAIN policyPack' = DOMAIN policyPack
      BY <2>2 DEF WriteStarterPack
    <3> QED
      BY <3>1 DEF BothKept
  <2>3. CASE ~WriteArtifact /\ ~WriteStarterPack
    <3>1. files' = files /\ policyPack' = policyPack
      BY <2>3
      DEF SetupNext, SetupCommands, setupCommand, askSetupQuestion, DecidePowers, Generate,
          WriteRootConfig, Announce, enforceCommand, flipToEnforce, initCommand, WriteStarterConfig,
          Crash, Tools, Calls, Call, dc_setup_detect, dc_setup_infer, dc_setup_generate,
          dc_setup_activate, setupVars, disk
    <3> QED
      BY <3>1 DEF BothKept
  <2> QED
    BY <2>1, <2>2, <2>3
<1> QED
  BY <1>1, <1>2, PTL DEF SetupSpec

\* What a write changes, in the directory of the run.
LEMMA WrittenHere ==
  ASSUME BothKept, WriteArtifact, NEW file, file = Head(run.left)
  PROVE  /\ file.path = "pack" =>
              /\ policyPack' = [policyPack EXCEPT ![Here] = file.content] /\ files' = files
              /\ policyPack'[Here] = file.content
         /\ file.path # "pack" =>
              /\ policyPack' = policyPack
              /\ DOMAIN files' = DOMAIN files
              /\ \A d \in Directories \ {Here} : files'[d] = files[d]
              /\ DOMAIN files'[Here] = DOMAIN files[Here] \cup {file.path}
              /\ \A path \in DOMAIN files'[Here] :
                   files'[Here][path] = IF path = file.path THEN file.content ELSE files[Here][path]
<1>1. Here \in Directories
  BY DEF Here, Directories
<1>2. PICK new : new = [path \in DOMAIN files[Here] \cup {file.path} |->
                          IF path = file.path THEN file.content ELSE files[Here][path]]
  OBVIOUS
<1>3. CASE file.path = "pack"
  BY <1>1, <1>3 DEF WriteArtifact, BothKept
<1>4. CASE file.path # "pack"
  <2>1. files' = [files EXCEPT ![Here] = new] /\ policyPack' = policyPack
    BY <1>1, <1>2, <1>4 DEF WriteArtifact, BothKept
  <2>2. files'[Here] = new /\ DOMAIN files' = DOMAIN files
        /\ \A d \in Directories \ {Here} : files'[d] = files[d]
    BY <1>1, <2>1 DEF BothKept
  <2> QED
    BY <1>2, <1>4, <2>1, <2>2
<1> QED
  BY <1>3, <1>4

LEMMA FileWritten ==
  ASSUME SetupInv, BothKept, WriteArtifact
  PROVE  WritingOK' /\ run'.profile = run.profile /\ run'.at = "writing" /\ Here' = Here
<1> DEFINE p == run.profile
           file == Head(run.left)
<1> safeParse(p)
  BY DEF SetupInv, WriteArtifact
<1>1. PICK left \in Seq(AllFiles(p)) : left = run.left /\ left # <<>>
  BY DEF SetupInv, WritingOK, WriteArtifact
<1>2. /\ file \in AllFiles(p) /\ Tail(left) \in Seq(AllFiles(p)) /\ file = left[1]
      /\ Len(left) \in Nat /\ Len(Tail(left)) = Len(left) - 1
      /\ \A i \in 1..Len(Tail(left)) : Tail(left)[i] = left[i + 1]
  <2>1. /\ Head(left) \in AllFiles(p) /\ Tail(left) \in Seq(AllFiles(p))
        /\ Len(left) \in Nat /\ Len(Tail(left)) = Len(left) - 1
        /\ \A i \in 1..Len(Tail(left)) : Tail(left)[i] = left[i + 1]
    BY <1>1, HeadTailProperties, LenProperties
  <2>2. Head(left) = left[1] /\ file = Head(left)
    BY <1>1
  <2> QED
    BY <2>1, <2>2
<1>3. /\ run' = [run EXCEPT !.left = Tail(left)]
      /\ run'.profile = p /\ run'.left = Tail(left) /\ run'.at = "writing" /\ run'.flags = run.flags
  BY <1>1 DEF WriteArtifact, SetupInv
<1>12. Here' = Here
  BY <1>3 DEF Here, Flag
<1>4. /\ file.path = "pack" => policyPack'[Here] = file.content /\ files' = files
      /\ file.path # "pack" =>
           /\ policyPack' = policyPack
           /\ DOMAIN files'[Here] = DOMAIN files[Here] \cup {file.path}
           /\ \A path \in DOMAIN files'[Here] :
                files'[Here][path] = IF path = file.path THEN file.content ELSE files[Here][path]
  BY WrittenHere
<1>5. PICK new : new = file
  OBVIOUS
<1> HIDE DEF file
<1>6. \A f : OnDisk(f)' <=>
        IF f.path = "pack" THEN policyPack'[Here] = f.content
        ELSE f.path \in DOMAIN files'[Here] /\ files'[Here][f.path] = f.content
  BY <1>12 DEF OnDisk
<1>7. ASSUME NEW f \in AllFiles(p), f.path \in Relevant, f.path = file.path
      PROVE  f.content = file.content
  BY <1>2, <1>7, ArtifactsAre DEF FileOK, Relevant
<1>8. ASSUME NEW f \in AllFiles(p), f.path \in Relevant, f.path = file.path
      PROVE  OnDisk(f)'
  <2>1. f.content = file.content
    BY <1>7, <1>8
  <2>2. CASE file.path = "pack"
    BY <1>4, <1>6, <1>8, <2>1, <2>2
  <2>3. CASE file.path # "pack"
    BY <1>4, <1>6, <1>8, <2>1, <2>3
  <2> QED
    BY <2>2, <2>3
<1>9. ASSUME NEW f \in AllFiles(p), f.path # file.path, OnDisk(f)
      PROVE  OnDisk(f)'
  <2>1. CASE file.path = "pack"
    BY <1>4, <1>6, <1>9, <2>1 DEF OnDisk
  <2>2. CASE file.path # "pack"
    BY <1>4, <1>6, <1>9, <2>2 DEF OnDisk
  <2> QED
    BY <2>1, <2>2
<1>10. ASSUME NEW f, Holding(left, f), f # file
       PROVE  Holding(Tail(left), f)
  <2>1. PICK i \in 1..Len(left) : left[i] = f
    BY <1>10 DEF Holding
  <2>2. i # 1 /\ i \in Nat
    BY <1>2, <1>10, <2>1
  <2>3. i - 1 \in 1..Len(Tail(left)) /\ Tail(left)[i - 1] = f
    BY <1>2, <2>1, <2>2
  <2> QED
    BY <2>3 DEF Holding
<1>11. \A f \in AllFiles(p) : f.path \in Relevant => Holding(Tail(left), f) \/ OnDisk(f)'
  <2>1. \A f \in AllFiles(p) : f.path \in Relevant => Holding(left, f) \/ OnDisk(f)
    BY <1>1 DEF SetupInv, WritingOK, WriteArtifact
  <2> QED
    BY <1>8, <1>9, <1>10, <2>1
<1> QED
  BY <1>2, <1>3, <1>11, <1>12 DEF WritingOK

LEMMA SetupInvInit == SetupInit => SetupInv
<1> SUFFICES ASSUME SetupInit  PROVE SetupInv
  OBVIOUS
<1>1. ProfileOK(createEmptyProfile)
  BY EmptyOK
<1> QED
  BY <1>1 DEF SetupInit, SetupInv, NoRun, Written

\* A run that is not writing, or has not written, owes nothing to the disk.
LEMMA RunSettled ==
  ASSUME DOMAIN run' = {"at", "flags", "profile", "plan", "left"},
         run'.plan \subseteq DOMAIN ALL_QUESTIONS, ProfileOK(run'.profile),
         run'.at \notin {"writing", "written"}
  PROVE  SetupInv'
BY DEF SetupInv, Written

LEMMA NoRunSettled ==
  ASSUME DOMAIN run' = {"at", "flags", "profile", "plan", "left"}, run'.plan = {},
         run'.profile = createEmptyProfile, run'.at \notin {"writing", "written"}
  PROVE  SetupInv'
BY EmptyOK, RunSettled

LEMMA NoRunIs ==
  /\ DOMAIN NoRun = {"at", "flags", "profile", "plan", "left"} /\ NoRun.plan = {}
  /\ NoRun.profile = createEmptyProfile /\ NoRun.at = "idle"
BY DEF NoRun

LEMMA DiskKept ==
  ASSUME SetupInv, run' = run, files' = files, policyPack' = policyPack
  PROVE  SetupInv'
<1>1. \A f : OnDisk(f)' <=> OnDisk(f)
  BY DEF OnDisk, Here, Flag
<1> QED
  BY <1>1 DEF SetupInv, WritingOK, Written

\* setup fails on a mode that has no defaults, or drafts a profile.
LEMMA SetupStarts ==
  ASSUME NEW project \in Projects, NEW f \in Flags, setupCommand(project, f)
  PROVE  \/ run' = NoRun
         \/ \E found \in SUBSET Actions : \E p, draft :
              /\ p = Imported(Drafted(project, found, f), f.export) /\ HasDefaults(p)
              /\ draft = applyModeDefaults(p)
              /\ run' = [at |-> IF f.interactive THEN "asking" ELSE "confirmed", flags |-> {f},
                         profile |-> draft,
                         plan |-> IF f.interactive THEN planInterview(draft) ELSE {}, left |-> <<>>]
<1>1. PICK answering \in SUBSET project.servers :
        LET found == detectToolsFromManifests(project)
                       \cup IF f.live THEN discoverLiveTools(project, FALSE, answering) ELSE {}
            p == Imported(Drafted(project, found, f), f.export)
            draft == applyModeDefaults(p)
        IN run' = IF ~HasDefaults(p) THEN NoRun
                  ELSE [at |-> IF f.interactive THEN "asking" ELSE "confirmed", flags |-> {f},
                        profile |-> draft,
                        plan |-> IF f.interactive THEN planInterview(draft) ELSE {}, left |-> <<>>]
  BY DEF setupCommand
<1>2. PICK found :
        found = detectToolsFromManifests(project)
                  \cup IF f.live THEN discoverLiveTools(project, FALSE, answering) ELSE {}
  OBVIOUS
<1>3. found \in SUBSET Actions
  <2>1. project \in ProjectOf(Actions)
    BY SetupAssumption
  <2>2. /\ detectToolsFromManifests(project) \subseteq Actions
        /\ discoverLiveTools(project, FALSE, answering) \subseteq Actions
    BY <2>1 DEF ProjectOf, detectToolsFromManifests, discoverLiveTools
  <2> QED
    BY <1>2, <2>2
<1>4. PICK p, draft : p = Imported(Drafted(project, found, f), f.export) /\ draft = applyModeDefaults(p)
  OBVIOUS
<1>5. run' = IF ~HasDefaults(p) THEN NoRun
             ELSE [at |-> IF f.interactive THEN "asking" ELSE "confirmed", flags |-> {f},
                   profile |-> draft,
                   plan |-> IF f.interactive THEN planInterview(draft) ELSE {}, left |-> <<>>]
  BY <1>1, <1>2, <1>4
<1> QED
  BY <1>3, <1>4, <1>5

LEMMA SetupStep == SetupInv /\ BothKept /\ [SetupNext]_setupVars => SetupInv'
<1> SUFFICES ASSUME SetupInv, BothKept, [SetupNext]_setupVars  PROVE SetupInv'
  OBVIOUS
<1>1. ASSUME NEW project \in Projects, NEW f \in Flags, setupCommand(project, f)
      PROVE  SetupInv'
  <2>1. CASE run' = NoRun
    BY <2>1, NoRunIs, NoRunSettled
  <2>2. CASE run' # NoRun
    <3>1. PICK found, p, draft :
            /\ p = Imported(Drafted(project, found, f), f.export) /\ draft = applyModeDefaults(p)
            /\ run' = [at |-> IF f.interactive THEN "asking" ELSE "confirmed", flags |-> {f},
                       profile |-> draft,
                       plan |-> IF f.interactive THEN planInterview(draft) ELSE {}, left |-> <<>>]
      BY <1>1, <2>2, SetupStarts
    <3>2. ProfileOK(draft)
      BY <3>1, DraftedOK, ImportedOK, DefaultsOK
    <3>3. planInterview(draft) \subseteq DOMAIN ALL_QUESTIONS
      BY DEF planInterview
    <3>4. /\ DOMAIN run' = {"at", "flags", "profile", "plan", "left"} /\ run'.profile = draft
          /\ run'.at \in {"asking", "confirmed"} /\ run'.plan \in {planInterview(draft), {}}
      BY <3>1
    <3> QED
      BY <3>2, <3>3, <3>4, RunSettled
  <2> QED
    BY <2>1, <2>2
<1>2. ASSUME askSetupQuestion  PROVE SetupInv'
  <2> PICK i \in run.plan : \E value :
        run' = [run EXCEPT !.profile = applyAnswer(@, ALL_QUESTIONS[i], value), !.plan = @ \ {i}]
    BY <1>2 DEF askSetupQuestion
  <2>1. PICK value :
          run' = [run EXCEPT !.profile = applyAnswer(@, ALL_QUESTIONS[i], value), !.plan = @ \ {i}]
    OBVIOUS
  <2>2. ProfileOK(applyAnswer(run.profile, ALL_QUESTIONS[i], value))
    BY <2>1, AnsweredOK DEF SetupInv
  <2>3. /\ DOMAIN run' = {"at", "flags", "profile", "plan", "left"} /\ run'.at = "asking"
        /\ run'.profile = applyAnswer(run.profile, ALL_QUESTIONS[i], value)
        /\ run'.plan = run.plan \ {i}
    BY <1>2, <2>1 DEF askSetupQuestion, SetupInv
  <2> QED
    BY <2>2, <2>3, RunSettled DEF SetupInv
<1>3. ASSUME DecidePowers  PROVE SetupInv'
  <2>1. PICK decisions \in Decisions :
          run' = [run EXCEPT !.at = "confirmed", !.profile = Decided(@, decisions)]
    BY <1>3 DEF DecidePowers
  <2>2. ProfileOK(Decided(run.profile, decisions))
    BY DecidedOK DEF SetupInv
  <2>3. /\ DOMAIN run' = {"at", "flags", "profile", "plan", "left"} /\ run'.at = "confirmed"
        /\ run'.profile = Decided(run.profile, decisions) /\ run'.plan = run.plan
    BY <2>1 DEF SetupInv
  <2> QED
    BY <2>2, <2>3, RunSettled DEF SetupInv
<1>4. ASSUME Generate  PROVE SetupInv'
  <2>1. CASE ~Admitted
    BY <1>4, <2>1, NoRunIs, NoRunSettled DEF Generate
  <2>2. CASE Admitted
    <3>4. safeParse(run.profile)
      BY <2>2 DEF Admitted, generateArtifacts
    <3>1. PICK p, all : p = run.profile /\ all = generateArtifacts(p)
      OBVIOUS
    <3>2. /\ DOMAIN run' = {"at", "flags", "profile", "plan", "left"} /\ run'.at = "writing"
          /\ run'.profile = p /\ run'.plan = run.plan /\ run'.left = all
      BY <1>4, <2>2, <3>1 DEF Generate, SetupInv
    <3>3. all \in Seq(AllFiles(p)) /\ \A f \in AllFiles(p) : Holding(all, f)
      BY <3>1, <3>4, ArtifactsAre DEF AllFiles, Holding
    <3> QED
      BY <3>1, <3>2, <3>3, <3>4 DEF SetupInv, WritingOK, Written
  <2> QED
    BY <2>1, <2>2
<1>5. ASSUME WriteArtifact  PROVE SetupInv'
  <2>1. WritingOK' /\ run'.profile = run.profile /\ run'.at = "writing"
    BY <1>5, FileWritten
  <2>2. DOMAIN run' = {"at", "flags", "profile", "plan", "left"} /\ run'.plan = run.plan
    BY <1>5 DEF WriteArtifact, SetupInv
  <2>3. ProfileOK(run.profile) /\ safeParse(run.profile) /\ run.plan \subseteq DOMAIN ALL_QUESTIONS
    BY <1>5 DEF WriteArtifact, SetupInv
  <2>4. ProfileOK(run'.profile) /\ safeParse(run'.profile)
    BY <2>1, <2>3
  <2> QED
    BY <2>1, <2>2, <2>3, <2>4 DEF SetupInv, Written
<1>6. ASSUME WriteRootConfig  PROVE SetupInv'
  <2>1. /\ run' = [run EXCEPT !.at = "written"] /\ files' = files /\ policyPack' = policyPack
        /\ run.at = "writing" /\ run.left = <<>>
    BY <1>6 DEF WriteRootConfig
  <2>2. /\ DOMAIN run' = {"at", "flags", "profile", "plan", "left"} /\ run'.at = "written"
        /\ run'.profile = run.profile /\ run'.plan = run.plan /\ run'.flags = run.flags
    BY <2>1 DEF SetupInv
  <2>3. \A f : ~Holding(run.left, f)
    BY <2>1 DEF Holding
  <2>4. \A f : OnDisk(f)' <=> OnDisk(f)
    BY <2>1, <2>2 DEF OnDisk, Here, Flag
  <2> QED
    BY <2>1, <2>2, <2>3, <2>4 DEF SetupInv, WritingOK, Written
<1>7. ASSUME Announce \/ flipToEnforce \/ WriteStarterConfig \/ Crash  PROVE SetupInv'
  BY <1>7, NoRunIs, NoRunSettled DEF Announce, flipToEnforce, WriteStarterConfig, Crash
<1>8. ASSUME enforceCommand \/ \E i \in Inits : initCommand(i)  PROVE SetupInv'
  <2>1. /\ DOMAIN run' = {"at", "flags", "profile", "plan", "left"} /\ run'.plan = {}
        /\ run'.profile = createEmptyProfile /\ run'.at \in {"enforcing", "starting"}
    BY <1>8, NoRunIs DEF enforceCommand, initCommand
  <2> QED
    BY <2>1, NoRunSettled
<1>9. ASSUME WriteStarterPack  PROVE SetupInv'
  <2>1. /\ DOMAIN run' = {"at", "flags", "profile", "plan", "left"} /\ run'.at = "started"
        /\ run'.profile = run.profile /\ run'.plan = run.plan
    BY <1>9 DEF WriteStarterPack, SetupInv
  <2> QED
    BY <2>1, RunSettled DEF SetupInv
<1>10. ASSUME Tools \/ UNCHANGED setupVars  PROVE SetupInv'
  <2>1. run' = run /\ files' = files /\ policyPack' = policyPack
    BY <1>10
    DEF Tools, Calls, Call, dc_setup_detect, dc_setup_infer, dc_setup_generate,
        dc_setup_activate, setupVars, disk
  <2> QED
    BY <2>1, DiskKept
<1> QED
  BY <1>1, <1>2, <1>3, <1>4, <1>5, <1>6, <1>7, <1>8, <1>9, <1>10 DEF SetupNext, SetupCommands

LEMMA SetupInvAlways == SetupSpec => []SetupInv
BY SetupInvInit, SetupStep, BothAlways, PTL DEF SetupSpec

\* What an operator is told of a tool is what the pack's rule for it says.
LEMMA ToolIsRuled ==
  ASSUME NEW p, ProfileOK(p), NEW tool \in p.tools, policyPack[Here] = generatePolicyPackYaml(p)
  PROVE  /\ decisionForTool(tool) = runtimeVerdictForTool(tool)
         /\ AtLeast(VerdictOnDisk(Sanitized[tool.name]), runtimeVerdictForTool(tool))
<1>1. /\ decisionForTool(tool) = runtimeVerdictForTool(tool)
      /\ runtimeVerdictForTool(tool) \in VerdictResults
  BY DEF ProfileOK, ToolOK, DefaultActions, decisionForTool, runtimeVerdictForTool,
         toPolicyDecision, VerdictResults
<1>2. /\ RuleFor({Sanitized[tool.name]}, runtimeVerdictForTool(tool)) \in policyPack[Here].rules
      /\ policyPack[Here].denyUnknown = TRUE
  <2>1. PICK here : here = policyPack[Here] /\ here = generatePolicyPackYaml(p)
    OBVIOUS
  <2>2. PICK rules :
          /\ generatePolicyPackYaml(p) = Pack("setup", rules, TRUE)
          /\ rules = {RuleFor({Sanitized[t.name]}, runtimeVerdictForTool(t)) : t \in p.tools}
                       \cup ModeRules(p.mode) \cup ExecRules(p)
                       \cup IF p.tools = {} THEN {RuleFor(Glob({"read"}), "allow")} ELSE {}
    BY DEF generatePolicyPackYaml
  <2>3. RuleFor({Sanitized[tool.name]}, runtimeVerdictForTool(tool)) \in rules
    BY <2>2
  <2>4. here.rules = rules /\ here.denyUnknown = TRUE
    <3>1. here = [by |-> "setup", rules |-> rules, denyUnknown |-> TRUE]
      BY <2>1, <2>2 DEF Pack
    <3> QED
      BY <3>1
  <2> QED
    BY <2>1, <2>3, <2>4
<1>3. PICK rules, verdict, a : /\ rules = policyPack[Here].rules /\ a = Sanitized[tool.name]
                              /\ verdict = runtimeVerdictForTool(tool)
  OBVIOUS
<1>4. RuleFor({a}, verdict) \in rules /\ verdict \in VerdictResults /\ a \in {a}
  BY <1>1, <1>2, <1>3
<1>5. AtLeast(evaluate(rules, TRUE, ContextOf(a)), verdict)
  BY <1>4, RuleForHolds
<1> QED
  BY <1>1, <1>2, <1>3, <1>5 DEF VerdictOnDisk

\* What the report says of a dangerous capability is what a rule of the pack says.
LEMMA CapabilityIsRuled ==
  ASSUME NEW p, ProfileOK(p), NEW c \in DANGEROUS_CAPABILITIES, NEW a \in execPatterns(c),
         policyPack[Here] = generatePolicyPackYaml(p)
  PROVE  AtLeast(VerdictOnDisk(a), toPolicyDecision(p.executiveDecisions[c]))
<1>1. toPolicyDecision(p.executiveDecisions[c]) \in VerdictResults
  BY DEF ProfileOK, DefaultActions, toPolicyDecision, VerdictResults
<1>2. /\ RuleFor(execPatterns(c), toPolicyDecision(p.executiveDecisions[c])) \in policyPack[Here].rules
      /\ policyPack[Here].denyUnknown = TRUE
  BY DEF generatePolicyPackYaml, Pack, ExecRules
<1>3. PICK rules, verdict, actions :
        /\ rules = policyPack[Here].rules /\ actions = execPatterns(c)
        /\ verdict = toPolicyDecision(p.executiveDecisions[c])
  OBVIOUS
<1>4. RuleFor(actions, verdict) \in rules /\ verdict \in VerdictResults /\ a \in actions
  BY <1>1, <1>2, <1>3
<1>5. AtLeast(evaluate(rules, TRUE, ContextOf(a)), verdict)
  BY <1>4, RuleForHolds
<1> QED
  BY <1>2, <1>3, <1>5 DEF VerdictOnDisk

\* A setup that has written its files has left a pack at least as strict as what its clauses,
\* its scenarios and its report tell the operator, whatever was on disk before, whatever the
\* interview and the memory said, and wherever an earlier run was killed (generate-artifacts.ts).
THEOREM StrictAsDocumented == SetupSpec => []AsStrictAsDocumented
<1>1. SetupInv => AsStrictAsDocumented
  <2> SUFFICES ASSUME SetupInv, Written, NEW a \in Actions
               PROVE  /\ \A c \in Clauses("tools") : c.about = a => AtLeast(VerdictOnDisk(Sanitized[a]), c.decision)
                      /\ \A s \in files[Here]["scenarios"] : s[1] = a => AtLeast(VerdictOnDisk(a), s[2])
                      /\ \A c \in DANGEROUS_CAPABILITIES : a \in execPatterns(c) =>
                           AtLeast(VerdictOnDisk(a), toPolicyDecision(files[Here]["report"].executiveDecisions[c]))
    BY DEF AsStrictAsDocumented
  <2>1. PICK p : p = run.profile
    OBVIOUS
  <2>2. /\ ProfileOK(p) /\ safeParse(p)
        /\ \A f \in AllFiles(p) : f.path \in Relevant => OnDisk(f)
    BY <2>1 DEF SetupInv, Written
  <2>3. policyPack[Here] = generatePolicyPackYaml(p)
    <3>1. OnDisk(File("pack", generatePolicyPackYaml(p)))
      BY <2>2, ArtifactsAre DEF File, Relevant
    <3> QED
      BY <3>1 DEF OnDisk, File
  <2>4. files[Here]["scenarios"] = generateTestScenarios(p)
    <3>1. OnDisk(File("scenarios", generateTestScenarios(p)))
      BY <2>2, ArtifactsAre DEF File, Relevant
    <3> QED
      BY <3>1 DEF OnDisk, File
  <2>5. files[Here]["report"] = generateOnboardingReport(p)
    <3>1. OnDisk(File("report", generateOnboardingReport(p)))
      BY <2>2, ArtifactsAre DEF File, Relevant
    <3> QED
      BY <3>1 DEF OnDisk, File
  <2>6. files[Here]["manifest"] = generateRollbackManifest(Generated(p))
    <3>1. OnDisk(File("manifest", generateRollbackManifest(Generated(p))))
      BY <2>2, ArtifactsAre DEF File, Relevant
    <3> QED
      BY <3>1 DEF OnDisk, File
  <2>7. ASSUME NEW c \in Clauses("tools"), c.about = a
        PROVE  AtLeast(VerdictOnDisk(Sanitized[a]), c.decision)
    <3>1. "tools" \in generateRollbackManifest(Generated(p)) /\ c \in files[Here]["tools"]
      BY <2>6, <2>7 DEF Clauses
    <3>2. PICK f \in AllFiles(p) : f.path = "tools"
      BY <2>2, <3>1, ArtifactsAre
    <3>3. files[Here]["tools"] = generateToolsPolicy(p)
      <4>1. OnDisk(f) /\ FileOK(p, f)
        BY <2>2, <3>2, ArtifactsAre DEF Relevant
      <4> QED
        BY <3>2, <4>1 DEF OnDisk, FileOK
    <3>4. PICK tool \in p.tools : c = Clause(tool.name, surfaceForTool(tool), decisionForTool(tool))
      BY <3>1, <3>3 DEF generateToolsPolicy
    <3>5. tool.name = a /\ c.decision = decisionForTool(tool)
      BY <2>7, <3>4 DEF Clause
    <3> QED
      BY <2>2, <2>3, <3>5, ToolIsRuled
  <2>8. ASSUME NEW s \in files[Here]["scenarios"], s[1] = a
        PROVE  AtLeast(VerdictOnDisk(a), s[2])
    <3>1. PICK tool \in p.tools : s = <<Sanitized[tool.name], runtimeVerdictForTool(tool)>>
      BY <2>4 DEF generateTestScenarios
    <3> QED
      BY <2>2, <2>3, <2>8, <3>1, ToolIsRuled
  <2>9. ASSUME NEW c \in DANGEROUS_CAPABILITIES, a \in execPatterns(c)
        PROVE  AtLeast(VerdictOnDisk(a), toPolicyDecision(files[Here]["report"].executiveDecisions[c]))
    <3>1. files[Here]["report"].executiveDecisions = p.executiveDecisions
      BY <2>5 DEF generateOnboardingReport
    <3> QED
      BY <2>2, <2>3, <2>9, <3>1, CapabilityIsRuled
  <2> QED
    BY <2>7, <2>8, <2>9
<1> QED
  BY <1>1, SetupInvAlways, PTL

-----------------------------------------------------------------------------
(* Backups before what they save is replaced                               *)

PackSaved == \E b \in copies : b.pack = policyPack["own"]
ConfigSaved == \E b \in copies : b.config = config

\* What a command is about to replace is in a backup, or it has replaced it already.
SavedInv ==
  /\ run.at = "writing" /\ Here = "own" =>
       (policyPack["own"] # NoPack => PackSaved) \/ policyPack["own"] = generatePolicyPackYaml(run.profile)
  /\ run.at \in {"writing", "starting", "started", "enforcing"} => (config # NoConfig => ConfigSaved)
  /\ run.at = "starting" => (Flag("force") => PackSaved)

\* A copy taken now holds the configuration, and the pack it is given.
LEMMA CopyTaken ==
  ASSUME NEW p, copies' = Saved(p, config), policyPack' = policyPack, config' = config
  PROVE  (p = policyPack["own"] => PackSaved') /\ ConfigSaved'
<1>1. PICK b : b = [pack |-> p, config |-> config]
  OBVIOUS
<1>2. b \in copies' /\ b.pack = p /\ b.config = config'
  BY <1>1 DEF Saved
<1> QED
  BY <1>2 DEF PackSaved, ConfigSaved

\* A pack that is written is the one of the run's profile, in the directory of the run.
LEMMA PackWritten ==
  ASSUME SetupInv, BothKept, WriteArtifact
  PROVE  /\ policyPack'[Here] \in {policyPack[Here], generatePolicyPackYaml(run.profile)}
         /\ \A d \in Directories \ {Here} : policyPack'[d] = policyPack[d]
<1>1. PICK left \in Seq(AllFiles(run.profile)) : left = run.left /\ left # <<>>
  BY DEF SetupInv, WritingOK, WriteArtifact
<1>2. Head(left) \in AllFiles(run.profile)
  BY <1>1, HeadTailProperties
<1>3. PICK file : file = Head(run.left)
  OBVIOUS
<1>4. FileOK(run.profile, file)
  <2>1. safeParse(run.profile)
    BY DEF SetupInv, WriteArtifact
  <2> QED
    BY <1>1, <1>2, <1>3, <2>1, ArtifactsAre
<1>5. policyPack' = policyPack \/ (/\ file.path = "pack" /\ policyPack'[Here] = file.content
                                  /\ policyPack' = [policyPack EXCEPT ![Here] = file.content])
  BY <1>3, WrittenHere
<1> QED
  BY <1>4, <1>5 DEF FileOK, BothKept

LEMMA SavedStep == SetupInv /\ BothKept /\ SavedInv /\ [SetupNext]_setupVars => SavedInv'
<1> SUFFICES ASSUME SetupInv, BothKept, SavedInv, [SetupNext]_setupVars  PROVE SavedInv'
  OBVIOUS
<1>1. ASSUME run'.at \in {"asking", "confirmed", "written", "idle"}  PROVE SavedInv'
  BY <1>1 DEF SavedInv
<1>2. ASSUME NEW project \in Projects, NEW f \in Flags, setupCommand(project, f)
      PROVE  SavedInv'
  <2>1. run'.at \in {"asking", "confirmed", "idle"}
    BY <1>2, SetupStarts, NoRunIs
  <2> QED
    BY <1>1, <2>1
<1>3. ASSUME askSetupQuestion \/ DecidePowers \/ WriteRootConfig  PROVE SavedInv'
  BY <1>1, <1>3 DEF askSetupQuestion, DecidePowers, WriteRootConfig, SetupInv
<1>4. ASSUME Announce \/ flipToEnforce \/ WriteStarterConfig \/ Crash  PROVE SavedInv'
  BY <1>1, <1>4, NoRunIs DEF Announce, flipToEnforce, WriteStarterConfig, Crash
<1>5. ASSUME Generate  PROVE SavedInv'
  <2>1. CASE ~Admitted
    BY <1>1, <1>5, <2>1, NoRunIs DEF Generate
  <2>2. CASE Admitted
    <3>1. /\ run'.at = "writing" /\ policyPack' = policyPack /\ config' = config
          /\ run'.flags = run.flags
      BY <1>5, <2>2 DEF Generate, SetupInv
    <3>4. Here' = Here
      BY <3>1 DEF Here, Flag
    <3>2. CASE Exists
      <4>1. copies' = Saved(Copied, config)
        BY <1>5, <2>2, <3>2 DEF Generate
      <4>2. (Here = "own" => PackSaved') /\ ConfigSaved'
        BY <3>1, <4>1, CopyTaken DEF Copied
      <4> QED
        BY <3>1, <3>4, <4>2 DEF SavedInv
    <3>3. CASE ~Exists
      BY <3>1, <3>3, <3>4 DEF Exists, SavedInv
    <3> QED
      BY <3>2, <3>3
  <2> QED
    BY <2>1, <2>2
<1>6. ASSUME WriteArtifact  PROVE SavedInv'
  <2>1. /\ run'.at = "writing" /\ run'.profile = run.profile
        /\ config' = config /\ copies' = copies /\ run.at = "writing" /\ Here' = Here
    BY <1>6, FileWritten DEF WriteArtifact
  <2>2. Here = "own" => policyPack'["own"] \in {policyPack["own"], generatePolicyPackYaml(run.profile)}
    BY <1>6, PackWritten
  <2>3. config' # NoConfig => ConfigSaved'
    BY <2>1 DEF SavedInv, ConfigSaved
  <2>4. Here' = "own" => \/ policyPack'["own"] # NoPack => PackSaved'
                         \/ policyPack'["own"] = generatePolicyPackYaml(run'.profile)
    BY <2>1, <2>2 DEF SavedInv, PackSaved
  <2> QED
    BY <2>1, <2>3, <2>4 DEF SavedInv
<1>7. ASSUME enforceCommand  PROVE SavedInv'
  <2>1. /\ run'.at = "enforcing" /\ config' = config /\ copies' = Saved(NoPack, config)
    BY <1>7 DEF enforceCommand, NoRun
  <2>2. ConfigSaved'
    <3>1. PICK b : b = [pack |-> NoPack, config |-> config]
      OBVIOUS
    <3>2. b \in copies' /\ b.config = config'
      BY <2>1, <3>1 DEF Saved
    <3> QED
      BY <3>2 DEF ConfigSaved
  <2> QED
    BY <2>1, <2>2 DEF SavedInv
<1>8. ASSUME NEW i \in Inits, initCommand(i)  PROVE SavedInv'
  <2>1. /\ run'.at = "starting" /\ run'.flags = {i} /\ config' = config /\ policyPack' = policyPack
        /\ config = NoConfig \/ i.force
        /\ copies' = IF i.force THEN Saved(policyPack["own"], config) ELSE copies
    BY <1>8 DEF initCommand, NoRun
  <2>2. Flag("force")' => i.force
    BY <2>1 DEF Flag
  <2>3. i.force => PackSaved' /\ ConfigSaved'
    BY <2>1, CopyTaken
  <2> QED
    BY <2>1, <2>2, <2>3 DEF SavedInv
<1>9. ASSUME WriteStarterPack  PROVE SavedInv'
  <2>1. /\ run'.at = "started" /\ run.at = "starting" /\ config' = config /\ copies' = copies
    BY <1>9 DEF WriteStarterPack, SetupInv
  <2> QED
    BY <2>1 DEF SavedInv, ConfigSaved
<1>10. ASSUME Tools \/ UNCHANGED setupVars  PROVE SavedInv'
  <2>1. run' = run /\ policyPack' = policyPack /\ config' = config /\ copies' = copies
    BY <1>10
    DEF Tools, Calls, Call, dc_setup_detect, dc_setup_infer, dc_setup_generate,
        dc_setup_activate, setupVars, disk
  <2> QED
    BY <2>1 DEF SavedInv, PackSaved, ConfigSaved, Here, Flag
<1> QED
  BY <1>2, <1>3, <1>4, <1>5, <1>6, <1>7, <1>8, <1>9, <1>10 DEF SetupNext, SetupCommands

\* No command replaces a pack in .decision-core or a configuration of which no backup holds a copy, also when an
\* earlier one was killed on its way (backup-utils.ts, "before overwriting"); but init without
\* --force, which looks at the configuration only, may replace a pack.
THEOREM OverwritesAreSaved == SetupSpec => OverwrittenWasSaved
<1>1. SetupInit => SavedInv
  BY DEF SetupInit, SavedInv, NoRun
<1>2. ASSUME SetupInv, BothKept, SavedInv, [SetupNext]_setupVars, policyPack'["own"] # policyPack["own"],
             policyPack["own"] # NoPack, run.at = "starting" => Flag("force")
      PROVE  PackSaved
  <2>1. CASE WriteArtifact
    <3>1. /\ policyPack'["own"] = generatePolicyPackYaml(run.profile)
          /\ run.at = "writing" /\ Here = "own"
      BY <1>2, <2>1, PackWritten DEF WriteArtifact, Directories
    <3> QED
      BY <1>2, <3>1 DEF SavedInv
  <2>2. CASE WriteStarterPack
    BY <1>2, <2>2 DEF WriteStarterPack, SavedInv
  <2>3. CASE ~WriteArtifact /\ ~WriteStarterPack
    BY <1>2, <2>3
    DEF SetupNext, SetupCommands, setupCommand, askSetupQuestion, DecidePowers, Generate,
        WriteRootConfig, Announce, enforceCommand, flipToEnforce, initCommand, WriteStarterConfig,
        Crash, Tools, Calls, Call, dc_setup_detect, dc_setup_infer, dc_setup_generate,
        dc_setup_activate, setupVars, disk
  <2> QED
    BY <2>1, <2>2, <2>3
<1>3. ASSUME SavedInv, [SetupNext]_setupVars, config' # config, config # NoConfig
      PROVE  ConfigSaved
  <2>1. CASE run.at \in {"writing", "starting", "started", "enforcing"}
    BY <1>3, <2>1 DEF SavedInv
  <2>2. CASE run.at \notin {"writing", "starting", "started", "enforcing"}
    BY <1>3, <2>2
    DEF SetupNext, SetupCommands, setupCommand, askSetupQuestion, DecidePowers, Generate,
        WriteArtifact, WriteRootConfig, Announce, enforceCommand, flipToEnforce, initCommand,
        WriteStarterPack, WriteStarterConfig, Crash, Tools, Calls, Call, dc_setup_detect,
        dc_setup_infer, dc_setup_generate, dc_setup_activate, setupVars, disk
  <2> QED
    BY <2>1, <2>2
<1>4. SetupInv /\ BothKept /\ SavedInv /\ [SetupNext]_setupVars =>
        [ LET own == policyPack["own"] IN
          /\ policyPack'["own"] # own /\ own # NoPack /\ (run.at = "starting" => Flag("force"))
                => \E b \in copies : b.pack = own
          /\ config' # config /\ config # NoConfig => \E b \in copies : b.config = config ]_setupVars
  BY <1>2, <1>3 DEF PackSaved, ConfigSaved
<1> QED
  BY <1>1, <1>4, SetupInvAlways, BothAlways, SavedStep, PTL DEF SetupSpec, OverwrittenWasSaved
-----------------------------------------------------------------------------
(* The types of a setup                                                    *)

\* What a profile holds, but for its mode.
ProfileTyped(p) ==
  /\ p = [x \in ProfileFields |-> p[x]]
  /\ p.harness \in Harnesses \cup Misnomers /\ p.detectedTools \subseteq Actions /\ p.jobs \in BOOLEAN
  /\ p.posture \in Postures /\ p.defaultAction \in DefaultActions
  /\ p.enforcementMode \in {"enforce", "observe"}
  /\ p.executiveDecisions \in [DANGEROUS_CAPABILITIES -> DefaultActions]
  /\ p.alwaysRequireApproval \subseteq Actions /\ p.provider \in Providers \cup Misnomers
  /\ p.listed \subseteq MemoryKinds /\ p.detected \subseteq MemoryKinds
  /\ p.read \subseteq p.listed /\ p.writeBack \subseteq p.listed
  /\ p.classes \subseteq DATA_CLASSES /\ p.tools \subseteq ProfileTools
  /\ p.evidenceImported \in BOOLEAN

LEMMA ProfileIs ==
  ASSUME NEW p, ProfileTyped(p), p.mode \in Modes
  PROVE  p \in ProfilesOf(MemoryKinds) /\ p.read \cup p.writeBack \subseteq p.listed
<1>1. p \in [ProfileFields -> {p[x] : x \in ProfileFields}]
  BY DEF ProfileTyped
<1>2. p.read \subseteq MemoryKinds /\ p.writeBack \subseteq MemoryKinds
  BY DEF ProfileTyped
<1> QED
  BY <1>1, <1>2, FieldsAre DEF ProfileTyped, ProfilesOf

LEMMA EmptyTyped == ProfileTyped(createEmptyProfile) /\ createEmptyProfile.mode \in Modes
<1>1. defaultExecutiveDecisions \in [DANGEROUS_CAPABILITIES -> DefaultActions]
  BY DEF defaultExecutiveDecisions, DefaultActions
<1>2. createEmptyProfile = [x \in ProfileFields |-> createEmptyProfile[x]]
  BY DEF ProfileFields, createEmptyProfile
<1> QED
  BY <1>1, <1>2
  DEF ProfileTyped, createEmptyProfile, Harnesses, Postures, DefaultActions, Providers, Modes

\* The defaults of a mode are postures, actions and so on.
LEMMA ModeTyped ==
  ASSUME NEW mode \in Modes
  PROVE  /\ MODE_DEFAULTS[mode].posture \in Postures /\ MODE_DEFAULTS[mode].action \in DefaultActions
         /\ MODE_DEFAULTS[mode].provider \in Providers
         /\ MODE_DEFAULTS[mode].enforcement \in {"enforce", "observe"}
BY DEF MODE_DEFAULTS, Modes, Postures, DefaultActions, Providers

LEMMA DefaultsTyped ==
  ASSUME NEW p, ProfileTyped(p), HasDefaults(p)
  PROVE  ProfileTyped(applyModeDefaults(p)) /\ applyModeDefaults(p).mode = p.mode
<1>1. PICK q : q = applyModeDefaults(p)
  OBVIOUS
<1>2. \A x \in ProfileFields \ {"posture", "defaultAction", "enforcementMode", "provider"} : q[x] = p[x]
  BY <1>1, FieldsAre DEF applyModeDefaults, ProfileTyped
<1>3. q = [x \in ProfileFields |-> q[x]]
  BY <1>1, FieldsAre DEF applyModeDefaults, ProfileTyped
<1>4. /\ q.posture = IF p.posture = "guided" THEN MODE_DEFAULTS[p.mode].posture ELSE p.posture
      /\ q.defaultAction = IF p.defaultAction = "ask" THEN MODE_DEFAULTS[p.mode].action
                                                      ELSE p.defaultAction
      /\ q.enforcementMode = IF p.enforcementMode = "observe" THEN MODE_DEFAULTS[p.mode].enforcement
                                                              ELSE p.enforcementMode
      /\ q.provider = IF p.provider = "disabled" THEN MODE_DEFAULTS[p.mode].provider ELSE p.provider
  BY <1>1, FieldsAre DEF applyModeDefaults, ProfileTyped
<1>5. /\ q.posture \in Postures /\ q.defaultAction \in DefaultActions
      /\ q.enforcementMode \in {"enforce", "observe"} /\ q.provider \in Providers \cup Misnomers
  BY <1>4, ModeTyped DEF HasDefaults, ProfileTyped
<1> QED
  BY <1>1, <1>2, <1>3, <1>5, FieldsAre DEF ProfileTyped

\* What keywords say.
LEMMA SignalsTyped ==
  ASSUME NEW says
  PROVE  /\ searchKeywords(says, MODE_SIGNALS) \subseteq Modes
         /\ searchKeywords(says, POSTURE_SIGNALS) \subseteq Postures
         /\ \A i \in Held(says, DATA_CLASS_SIGNALS) : DATA_CLASS_SIGNALS[i][2] \in DATA_CLASSES
<1>1. \A i \in DOMAIN MODE_SIGNALS : MODE_SIGNALS[i][2] \in Modes
  BY DEF MODE_SIGNALS, Modes
<1>2. \A i \in DOMAIN POSTURE_SIGNALS : POSTURE_SIGNALS[i][2] \in Postures
  <2>1. DOMAIN POSTURE_SIGNALS = 1..4
    BY DEF POSTURE_SIGNALS
  <2>2. /\ POSTURE_SIGNALS[1][2] = "locked_down"
        /\ POSTURE_SIGNALS[2][2] = "guided"
        /\ POSTURE_SIGNALS[3][2] = "balanced"
        /\ POSTURE_SIGNALS[4][2] = "high_autonomy"
    BY DEF POSTURE_SIGNALS
  <2> QED
    BY <2>1, <2>2 DEF Postures
<1>3. \A i \in DOMAIN DATA_CLASS_SIGNALS : DATA_CLASS_SIGNALS[i][2] \in DATA_CLASSES
  <2>1. DOMAIN DATA_CLASS_SIGNALS = 1..8
    BY DEF DATA_CLASS_SIGNALS
  <2>2. /\ DATA_CLASS_SIGNALS[1][2] = "pii"
        /\ DATA_CLASS_SIGNALS[2][2] = "financial"
        /\ DATA_CLASS_SIGNALS[3][2] = "credentials"
        /\ DATA_CLASS_SIGNALS[4][2] = "health"
        /\ DATA_CLASS_SIGNALS[5][2] = "legal"
        /\ DATA_CLASS_SIGNALS[6][2] = "confidential"
        /\ DATA_CLASS_SIGNALS[7][2] = "internal"
        /\ DATA_CLASS_SIGNALS[8][2] = "restricted"
    BY DEF DATA_CLASS_SIGNALS
  <2> QED
    BY <2>1, <2>2 DEF DATA_CLASSES
<1> QED
  BY <1>1, <1>2, <1>3 DEF searchKeywords, Held

LEMMA WinnerIs ==
  ASSUME NEW votes, NEW V, \A b \in votes : b.value \in V
  PROVE  Winner(votes) \subseteq V
BY DEF Winner

LEMMA InferenceTyped ==
  ASSUME NEW exports \in Seq(ExportType)
  PROVE  LET inference == inferProfileFromEvidence(exports) IN
         /\ inference.mode \subseteq Modes \cup Misnomers /\ inference.posture \subseteq Postures
         /\ inference.classes \subseteq DATA_CLASSES /\ inference.jobs \in BOOLEAN
<1> DEFINE places == UNION {{<<e, i>> : i \in DOMAIN exports[e].items} : e \in importMemoryEvidence(exports)}
           item(at) == exports[at[1]].items[at[2]]
           modes == UNION {Ballots(at, 1, item(at).patch, 2 * item(at).confidence)
                           \cup Ballots(at, 2, searchKeywords(item(at).says, MODE_SIGNALS), item(at).confidence) :
                             at \in places}
           postures == UNION {Ballots(at, 1, searchKeywords(item(at).says, POSTURE_SIGNALS),
                                      item(at).confidence) : at \in places}
<1>1. ASSUME NEW at \in places  PROVE item(at).patch \subseteq Modes \cup Misnomers
  <2>1. PICK e \in DOMAIN exports : \E i \in DOMAIN exports[e].items : at = <<e, i>>
    BY DEF importMemoryEvidence
  <2>2. exports[e] \in ExportType
    OBVIOUS
  <2> PICK i \in DOMAIN exports[e].items : at = <<e, i>>
    BY <2>1
  <2>3. exports[e].items[i].patch \in SUBSET (Modes \cup Misnomers)
    <3> DEFINE Item == [confidence : Nat, patch : SUBSET (Modes \cup Misnomers), says : SUBSET Keywords]
    <3>1. exports[e].items \in Seq(Item)
      BY <2>2 DEF ExportType
    <3>2. PICK items \in Seq(Item) : items = exports[e].items /\ i \in DOMAIN items
      BY <3>1
    <3> HIDE DEF Item
    <3>3. items[i] \in Item
      BY <3>2
    <3>4. PICK listed \in Item : listed = items[i]
      BY <3>3
    <3>5. listed.patch \in SUBSET (Modes \cup Misnomers)
      BY DEF Item
    <3> QED
      BY <3>2, <3>4, <3>5
  <2> QED
    BY <2>3
<1> HIDE DEF places, item
<1>2. \A b \in modes : b.value \in Modes \cup Misnomers
  BY <1>1, SignalsTyped DEF Ballots
<1>3. \A b \in postures : b.value \in Postures
  BY SignalsTyped DEF Ballots
<1>4. Winner(modes) \subseteq Modes \cup Misnomers /\ Winner(postures) \subseteq Postures
  BY <1>2, <1>3, WinnerIs
<1>5. {DATA_CLASS_SIGNALS[i][2] : i \in UNION {Held(item(at).says, DATA_CLASS_SIGNALS) : at \in places}}
        \subseteq DATA_CLASSES
  BY SignalsTyped
<1>6. inferProfileFromEvidence(exports) =
        [ mode |-> Winner(modes), posture |-> Winner(postures),
          classes |-> {DATA_CLASS_SIGNALS[i][2] : i \in UNION {Held(item(at).says, DATA_CLASS_SIGNALS) : at \in places}},
          jobs |-> \E at \in places : "manages" \in item(at).says ]
  BY DEF inferProfileFromEvidence, places, item
<1>7. (\E at \in places : "manages" \in item(at).says) \in BOOLEAN
  OBVIOUS
<1> HIDE DEF modes, postures
<1> QED
  BY <1>4, <1>5, <1>6, <1>7

LEMMA OneOfIs ==
  ASSUME NEW V, NEW values \in SUBSET V, NEW default \in V
  PROVE  OneOf(values, default) \in V
BY DEF OneOf

LEMMA ImportedTyped ==
  ASSUME NEW p, ProfileTyped(p), p.mode \in Modes \cup Misnomers, NEW exports \in Seq(ExportType)
  PROVE  /\ ProfileTyped(Imported(p, exports)) /\ Imported(p, exports).mode \in Modes \cup Misnomers
         /\ Imported(p, exports).defaultAction = p.defaultAction
<1>1. CASE importMemoryEvidence(exports) = {}
  BY <1>1 DEF Imported
<1>2. CASE importMemoryEvidence(exports) # {}
  <2>1. PICK inference : inference = inferProfileFromEvidence(exports)
    OBVIOUS
  <2>2. /\ inference.mode \subseteq Modes \cup Misnomers /\ inference.posture \subseteq Postures
        /\ inference.classes \subseteq DATA_CLASSES /\ inference.jobs \in BOOLEAN
    BY <2>1, InferenceTyped
  <2>3. PICK q : q = Imported(p, exports)
    OBVIOUS
  <2>4. PICK inferred : /\ inferred = applyInferenceToProfile(p, inference)
                        /\ q = [inferred EXCEPT !.evidenceImported = TRUE]
    BY <1>2, <2>1, <2>3 DEF Imported
  <2>5. PICK jobs, mode, posture, classes :
          /\ jobs = (p.jobs \/ inference.jobs) /\ jobs \in BOOLEAN
          /\ mode = IF p.mode = "personal" THEN OneOf(inference.mode, p.mode) ELSE p.mode
          /\ posture = IF p.posture = "guided" THEN OneOf(inference.posture, p.posture) ELSE p.posture
          /\ classes = IF p.classes = {} THEN inference.classes ELSE p.classes
    OBVIOUS
  <2>6. inferred = [p EXCEPT !.mode = mode, !.posture = posture, !.jobs = jobs, !.classes = classes]
    BY <2>4, <2>5 DEF applyInferenceToProfile
  <2>7. p = [x \in ProfileFields |-> p[x]] /\ DOMAIN p = ProfileFields
    BY DEF ProfileTyped
  <2>8. DOMAIN inferred = ProfileFields /\ inferred = [x \in ProfileFields |-> inferred[x]]
    <3>1. PICK fields : fields = [x \in ProfileFields |-> p[x]]
      OBVIOUS
    <3>2. inferred = [fields EXCEPT !.mode = mode, !.posture = posture, !.jobs = jobs, !.classes = classes]
      BY <2>6, <2>7, <3>1
    <3>3. DOMAIN inferred = ProfileFields
      BY <3>1, <3>2
    <3> QED
      BY <3>1, <3>2, <3>3, FieldsAre
  <2>9. q = [x \in ProfileFields |-> q[x]]
    BY <2>4, <2>8
  <2>10. /\ q.evidenceImported = TRUE /\ q.jobs = jobs
         /\ \A x \in ProfileFields \ {"mode", "posture", "jobs", "classes", "evidenceImported"} : q[x] = p[x]
    <3>1. inferred.jobs = jobs
      BY <2>6, <2>7, FieldsAre
    <3>2. \A x \in ProfileFields \ {"mode", "posture", "jobs", "classes"} : inferred[x] = p[x]
      BY <2>6, <2>7
    <3>3. \A x \in ProfileFields \ {"evidenceImported"} : q[x] = inferred[x]
      BY <2>4, <2>8
    <3>4. q.evidenceImported = TRUE
      BY <2>4, <2>8, FieldsAre
    <3> QED
      BY <3>1, <3>2, <3>3, <3>4, FieldsAre
  <2>11. q.mode = mode /\ q.posture = posture /\ q.classes = classes
    <3>1. inferred.mode = mode /\ inferred.posture = posture /\ inferred.classes = classes
      BY <2>6, <2>7, FieldsAre
    <3> QED
      BY <2>4, <2>8, <3>1, FieldsAre
  <2>12. OneOf(inference.mode, p.mode) \in Modes \cup Misnomers
    BY <2>2, OneOfIs
  <2>13. OneOf(inference.posture, p.posture) \in Postures
    BY <2>2, OneOfIs DEF ProfileTyped
  <2>14. q.mode \in Modes \cup Misnomers
    BY <2>5, <2>11, <2>12
  <2>15. q.posture \in Postures /\ q.classes \subseteq DATA_CLASSES
    BY <2>2, <2>5, <2>11, <2>13 DEF ProfileTyped
  <2> QED
    BY <2>3, <2>5, <2>9, <2>10, <2>14, <2>15, FieldsAre DEF ProfileTyped
<1> QED
  BY <1>1, <1>2

LEMMA CandidatesTyped ==
  ASSUME NEW names \in SUBSET Actions
  PROVE  candidatesToProfileTools(names) \subseteq ProfileTools
<1>1. ASSUME NEW n \in names  PROVE classify(n)[1] \in 0..4 /\ classify(n)[2] \in DefaultActions
  <2>1. classify(n) \in {<<4, "block">>, <<2, "ask">>, <<1, "allow">>, <<3, "ask">>}
    BY DEF classify
  <2> QED
    BY <2>1 DEF DefaultActions
<1>2. ASSUME NEW n \in names
      PROVE  [name |-> n, riskTier |-> classify(n)[1], defaultAction |-> classify(n)[2],
              powers |-> {q \in Powers : Holds(n, PowerWords[q])}] \in ProfileTools
  BY <1>1 DEF ProfileTools
<1> QED
  BY <1>2 DEF candidatesToProfileTools

LEMMA ConfidenceIs ==
  ASSUME NEW signals, IsFiniteSet(signals), NEW weight \in Nat, NEW markers
  PROVE  Confidence(signals, weight, markers) \in 0..30
<1>1. Cardinality(signals \cap markers) \in Nat
  BY FS_Subset, FS_CardinalityType
<1>2. PICK n \in Nat : n = Cardinality(signals \cap markers)
  BY <1>1
<1>3. n * weight \in Nat
  OBVIOUS
<1> QED
  BY <1>2, <1>3 DEF Confidence

LEMMA FewAreFinite ==
  \A a, b, c, d, e : IsFiniteSet({a, b, c, d}) /\ IsFiniteSet({a, b, c, d, e})
<1> TAKE a, b, c, d, e
<1>1. IsFiniteSet({a}) /\ IsFiniteSet({b}) /\ IsFiniteSet({c}) /\ IsFiniteSet({d}) /\ IsFiniteSet({e})
  BY FS_Singleton
<1>2. IsFiniteSet({a} \cup {b}) /\ IsFiniteSet({c} \cup {d})
  BY <1>1, FS_Union
<1>3. IsFiniteSet(({a} \cup {b}) \cup ({c} \cup {d}))
  BY <1>2, FS_Union
<1>4. IsFiniteSet((({a} \cup {b}) \cup ({c} \cup {d})) \cup {e})
  BY <1>1, <1>3, FS_Union
<1>5. /\ ({a} \cup {b}) \cup ({c} \cup {d}) = {a, b, c, d}
      /\ (({a} \cup {b}) \cup ({c} \cup {d})) \cup {e} = {a, b, c, d, e}
  OBVIOUS
<1> QED
  BY <1>3, <1>4, <1>5

\* Of at most three one has the most, and of those that do one is the first.
LEMMA BestOfThree ==
  ASSUME NEW score, \A i \in 1..3 : score[i] \in 0..30, NEW found \in SUBSET (1..3), found # {},
         NEW best, \A i : i \in best <=> i \in found /\ \A j \in found : score[j] =< score[i]
  PROVE  best \subseteq 1..3 /\ \E i \in best : \A j \in best : i =< j
<1>1. PICK a, b, c : /\ score[1] = a /\ score[2] = b /\ score[3] = c
                     /\ a \in 0..30 /\ b \in 0..30 /\ c \in 0..30
  OBVIOUS
<1>2. \A i \in 1..3 : i = 1 \/ i = 2 \/ i = 3
  OBVIOUS
<1>3. \E i \in found : \A j \in found : score[j] =< score[i]
  <2>1. 1 \in found \/ 2 \in found \/ 3 \in found
    BY <1>2
  <2> QED
    BY <1>1, <1>2, <2>1
<1>4. best # {} /\ best \subseteq 1..3
  BY <1>3
<1>5. \E i \in best : \A j \in best : i =< j
  <2>1. 1 \in best \/ 2 \in best \/ 3 \in best
    BY <1>2, <1>4
  <2>2. CASE 1 \in best
    BY <1>4, <2>2
  <2>3. CASE 1 \notin best /\ 2 \in best
    BY <1>2, <1>4, <2>3
  <2>4. CASE 1 \notin best /\ 2 \notin best
    BY <1>2, <1>4, <2>1, <2>4
  <2> QED
    BY <2>2, <2>3, <2>4
<1> QED
  BY <1>4, <1>5

\* The detection finds one of the harnesses it looks for.
LEMMA HarnessFound ==
  ASSUME NEW markers
  PROVE  detectHarness(markers) \in Harnesses
<1>1. PICK claw, hermes, generic :
        claw = detectOpenClaw(markers) /\ hermes = detectHermes(markers) /\ generic = detectGenericNode(markers)
  OBVIOUS
<1>2. claw \in 0..30 /\ hermes \in 0..30 /\ generic \in 0..30
  <2>1. IsFiniteSet({"HERMES_HOME", "hermes/config.yaml", "hermes/memories/", "dep hermes-agent"})
    BY FewAreFinite, Zenon
  <2>2. IsFiniteSet({"openclaw.config.ts", "openclaw.config.json", ".openclaw/",
                     "openclaw.plugin.json", "dep openclaw"})
    BY FewAreFinite, Zenon
  <2>3. IsFiniteSet(OpenClawSignals) /\ IsFiniteSet(HermesSignals)
    BY <2>1, <2>2, Zenon DEF OpenClawSignals, HermesSignals
  <2>4. Confidence(OpenClawSignals, 10, markers) \in 0..30 /\ Confidence(HermesSignals, 15, markers) \in 0..30
    BY <2>3, ConfidenceIs
  <2> QED
    BY <1>1, <2>4 DEF detectOpenClaw, detectHermes, detectGenericNode
<1> DEFINE candidates == << <<"openclaw", claw>>, <<"hermes", hermes>>, <<"generic", generic>> >>
           found == {i \in 1..3 : candidates[i][2] > 0}
           best == {i \in found : \A j \in found : candidates[j][2] =< candidates[i][2]}
<1>3. detectHarness(markers) = IF found = {} THEN "standalone"
                               ELSE candidates[CHOOSE i \in best : \A j \in best : i =< j][1]
  BY <1>1 DEF detectHarness
<1>4. \A i \in 1..3 : candidates[i][2] \in 0..30 /\ candidates[i][1] \in Harnesses
  <2>1. candidates[1][2] = claw /\ candidates[2][2] = hermes /\ candidates[3][2] = generic
    OBVIOUS
  <2>2. candidates[1][1] = "openclaw" /\ candidates[2][1] = "hermes" /\ candidates[3][1] = "generic"
    OBVIOUS
  <2> QED
    BY <1>2, <2>1, <2>2 DEF Harnesses
<1>5. "standalone" \in Harnesses
  BY DEF Harnesses
<1> HIDE DEF candidates
<1>6. ASSUME found # {}  PROVE (CHOOSE i \in best : \A j \in best : i =< j) \in 1..3
  <2>1. PICK score : score = [i \in 1..3 |-> candidates[i][2]]
    OBVIOUS
  <2>2. /\ \A i \in 1..3 : score[i] \in 0..30
        /\ found \in SUBSET (1..3)
        /\ \A i : i \in best <=> i \in found /\ \A j \in found : score[j] =< score[i]
    BY <1>4, <2>1
  <2> HIDE DEF found, best
  <2>3. best \subseteq 1..3 /\ \E i \in best : \A j \in best : i =< j
    BY <1>6, <2>2, BestOfThree
  <2> QED
    BY <2>3
<1> QED
  BY <1>3, <1>4, <1>5, <1>6

LEMMA DraftedTyped ==
  ASSUME NEW project \in Projects, NEW found \in SUBSET Actions, NEW f \in Flags
  PROVE  /\ ProfileTyped(Drafted(project, found, f))
         /\ Drafted(project, found, f).mode \in Modes \cup Misnomers
         /\ Drafted(project, found, f).defaultAction = "ask"
<1>1. f \in FlagsType /\ project \in ProjectOf(Actions)
  BY SetupAssumption
<1>2. PICK q : q = Drafted(project, found, f)
  OBVIOUS
<1>3. PICK empty : empty = createEmptyProfile /\ ProfileTyped(empty) /\ empty.defaultAction = "ask"
                   /\ DOMAIN empty = ProfileFields /\ empty.read = {} /\ empty.writeBack = {} /\ empty.provider = "disabled"
  <2>1. /\ createEmptyProfile.defaultAction = "ask" /\ createEmptyProfile.provider = "disabled"
        /\ createEmptyProfile.read = {} /\ createEmptyProfile.writeBack = {}
    BY DEF createEmptyProfile
  <2> QED
    BY <2>1, EmptyTyped DEF ProfileFields
<1>4. PICK harness : harness = OneOf(f.agent, detectHarness(project.markers))
  OBVIOUS
<1>5. harness \in Harnesses \cup Misnomers
  <2>1. detectHarness(project.markers) \in Harnesses
    BY HarnessFound
  <2> QED
    BY <1>1, <1>4, <2>1, OneOfIs DEF FlagsType
<1>6. filterMemorySources(f.memorySource) \subseteq MemoryKinds
  BY DEF filterMemorySources, MemoryKinds, MemorySignals
<1>7. PICK kinds, detected, tools, mode, provider :
        /\ kinds = filterMemorySources(f.memorySource) /\ tools = candidatesToProfileTools(found)
        /\ detected = detectMemorySources(project.markers) \cap kinds
        /\ mode = OneOf(f.profile, "personal")
        /\ provider = IF f.provider # {} THEN OneOf(f.provider, "disabled")
                      ELSE IF harness \in {"openclaw", "hermes"} THEN "host"
                      ELSE suggestedMode(project.markers)
  OBVIOUS
<1>8. q = [empty EXCEPT !.harness = harness, !.detectedTools = found, !.tools = tools, !.listed = kinds,
                        !.detected = detected, !.mode = mode, !.provider = provider]
  BY <1>2, <1>3, <1>4, <1>7 DEF Drafted
<1>9. /\ q = [x \in ProfileFields |-> q[x]] /\ q.harness = harness /\ q.detectedTools = found
      /\ q.tools = tools /\ q.listed = kinds /\ q.detected = detected /\ q.mode = mode
      /\ q.provider = provider
      /\ \A x \in ProfileFields \ {"harness", "detectedTools", "tools", "listed", "detected", "mode",
                                    "provider"} : q[x] = empty[x]
  BY <1>3, <1>8, FieldsAre
<1>10. provider \in Providers \cup Misnomers
  <2>1. "disabled" \in Providers \cup Misnomers /\ "host" \in Providers
        /\ suggestedMode(project.markers) \in Providers
    BY DEF Providers, suggestedMode
  <2>2. OneOf(f.provider, "disabled") \in Providers \cup Misnomers
    BY <1>1, <2>1, OneOfIs DEF FlagsType
  <2> QED
    BY <1>7, <2>1, <2>2
<1>11. mode \in Modes \cup Misnomers
  <2>1. "personal" \in Modes \cup Misnomers /\ f.profile \in SUBSET (Modes \cup Misnomers)
    BY <1>1 DEF FlagsType, Modes
  <2> QED
    BY <1>7, <2>1, OneOfIs
<1>12. tools \subseteq ProfileTools
  BY <1>7, CandidatesTyped
<1> QED
  BY <1>2, <1>3, <1>5, <1>6, <1>7, <1>9, <1>10, <1>11, <1>12, FieldsAre DEF ProfileTyped

\* A profile with one field replaced.
LEMMA Updated ==
  ASSUME NEW p, p = [x \in ProfileFields |-> p[x]], NEW k \in ProfileFields, NEW v,
         NEW q, q = [p EXCEPT ![k] = v]
  PROVE  /\ q = [x \in ProfileFields |-> q[x]] /\ q[k] = v
         /\ \A x \in ProfileFields \ {k} : q[x] = p[x]
OBVIOUS

\* The capabilities given to a tool leave it a tool.
LEMMA EmpoweredTyped ==
  ASSUME NEW tool \in ProfileTools, NEW caps
  PROVE  Empowered(tool, caps) \in ProfileTools
<1>1. PICK powers : powers = tool.powers \cup (caps \cap Powers) /\ powers \subseteq Powers
  BY DEF ProfileTools
<1>2. "block" \in DefaultActions
  BY DEF DefaultActions
<1>3. [tool EXCEPT !.powers = powers] \in ProfileTools
  BY <1>1 DEF ProfileTools
<1>4. [tool EXCEPT !.powers = powers, !.riskTier = 4, !.defaultAction = "block"] \in ProfileTools
  <2>1. PICK t \in ProfileTools : t = [tool EXCEPT !.powers = powers]
    BY <1>3
  <2>2. [t EXCEPT !.riskTier = 4] \in ProfileTools
    BY DEF ProfileTools
  <2>3. PICK u \in ProfileTools : u = [t EXCEPT !.riskTier = 4]
    BY <2>2
  <2>4. [u EXCEPT !.defaultAction = "block"] \in ProfileTools
    BY <1>2 DEF ProfileTools
  <2> QED
    BY <2>1, <2>3, <2>4
<1>5. \/ Empowered(tool, caps) = [tool EXCEPT !.powers = powers]
      \/ Empowered(tool, caps) = [tool EXCEPT !.powers = powers, !.riskTier = 4, !.defaultAction = "block"]
  BY <1>1 DEF Empowered
<1> QED
  BY <1>3, <1>4, <1>5

LEMMA DestructiveTyped ==
  ASSUME NEW n \in Actions
  PROVE  Destructive(n) \in ProfileTools
BY DEF Destructive, ProfileTools, Powers, DefaultActions

\* An answer to any of the questions leaves the profile a profile.
LEMMA AnsweredTyped ==
  ASSUME NEW p, ProfileTyped(p), p.mode \in Modes,
         NEW i \in DOMAIN ALL_QUESTIONS, NEW value \in Answers[ALL_QUESTIONS[i]]
  PROVE  /\ ProfileTyped(applyAnswer(p, ALL_QUESTIONS[i], value))
         /\ applyAnswer(p, ALL_QUESTIONS[i], value).mode \in Modes
<1>1. PICK q : q = ALL_QUESTIONS[i]
  OBVIOUS
<1>2. q \in {"mode", "harness", "primary_jobs", "destructive_tools", "high_risk_capabilities",
             "always_approve", "provider_mode", "memory_consent", "writeback_consent"}
  BY <1>1 DEF ALL_QUESTIONS
<1>3. PICK r : r = applyAnswer(p, q, value)
  OBVIOUS
<1>4. p = [x \in ProfileFields |-> p[x]] /\ DOMAIN p = ProfileFields
  BY DEF ProfileTyped
<1>5. value \in Answers[q]
  BY <1>1
<1>6. CASE q = "mode"
  <2>1. r = [p EXCEPT !["mode"] = value] /\ value \in Modes
    BY <1>3, <1>5, <1>6, SetupAssumption DEF applyAnswer
  <2> QED
    BY <1>1, <1>3, <1>4, <2>1, Updated, FieldsAre DEF ProfileTyped
<1>7. CASE q = "harness"
  <2>1. r = [p EXCEPT !["harness"] = value] /\ value \in Harnesses
    BY <1>3, <1>5, <1>7, SetupAssumption DEF applyAnswer
  <2> QED
    BY <1>1, <1>3, <1>4, <2>1, Updated, FieldsAre DEF ProfileTyped
<1>8. CASE q = "primary_jobs"
  <2>1. r = [p EXCEPT !["jobs"] = value] /\ value \in BOOLEAN
    BY <1>3, <1>5, <1>8, SetupAssumption DEF applyAnswer
  <2> QED
    BY <1>1, <1>3, <1>4, <2>1, Updated, FieldsAre DEF ProfileTyped
<1>9. CASE q = "destructive_tools"
  <2>1. PICK tools : tools = {Destructive(n) : n \in value}
    OBVIOUS
  <2>2. r = [p EXCEPT !["tools"] = tools] /\ value \in SUBSET Actions
    BY <1>3, <1>5, <1>9, <2>1, SetupAssumption DEF applyAnswer
  <2>3. tools \subseteq ProfileTools
    BY <2>1, <2>2, DestructiveTyped
  <2> QED
    BY <1>1, <1>3, <1>4, <2>2, <2>3, Updated, FieldsAre DEF ProfileTyped
<1>10. CASE q = "high_risk_capabilities"
  <2>1. PICK tools : tools = {Empowered(t, value) : t \in p.tools}
    OBVIOUS
  <2>2. r = [p EXCEPT !["tools"] = tools]
    BY <1>3, <1>4, <1>10, <2>1, FieldsAre DEF applyAnswer
  <2>3. tools \subseteq ProfileTools
    BY <2>1, EmpoweredTyped DEF ProfileTyped
  <2> QED
    BY <1>1, <1>3, <1>4, <2>2, <2>3, Updated, FieldsAre DEF ProfileTyped
<1>11. CASE q = "always_approve"
  <2>1. r = [p EXCEPT !["alwaysRequireApproval"] = value] /\ value \in SUBSET Actions
    BY <1>3, <1>5, <1>11, SetupAssumption DEF applyAnswer
  <2> QED
    BY <1>1, <1>3, <1>4, <2>1, Updated, FieldsAre DEF ProfileTyped
<1>12. CASE q = "provider_mode"
  <2>1. r = [p EXCEPT !["provider"] = value] /\ value \in Providers
    BY <1>3, <1>5, <1>12, SetupAssumption DEF applyAnswer
  <2> QED
    BY <1>1, <1>3, <1>4, <2>1, Updated, FieldsAre DEF ProfileTyped
<1>13. CASE q = "memory_consent"
  <2>1. PICK read : read = value \cap p.listed
    OBVIOUS
  <2>2. r = [p EXCEPT !["read"] = read] /\ read \subseteq p.listed
    BY <1>3, <1>13, <2>1 DEF applyAnswer
  <2> QED
    BY <1>1, <1>3, <1>4, <2>2, Updated, FieldsAre DEF ProfileTyped
<1>14. CASE q = "writeback_consent"
  <2>1. PICK granted : granted = IF value THEN p.read ELSE {}
    OBVIOUS
  <2>2. r = [p EXCEPT !["writeBack"] = granted] /\ granted \subseteq p.listed
    BY <1>3, <1>14, <2>1 DEF applyAnswer, WriteBack, ProfileTyped
  <2> QED
    BY <1>1, <1>3, <1>4, <2>2, Updated, FieldsAre DEF ProfileTyped
<1> QED
  BY <1>2, <1>6, <1>7, <1>8, <1>9, <1>10, <1>11, <1>12, <1>13, <1>14

LEMMA DecidedTyped ==
  ASSUME NEW p, ProfileTyped(p), p.mode \in Modes, NEW decisions \in Decisions
  PROVE  ProfileTyped(Decided(p, decisions)) /\ Decided(p, decisions).mode \in Modes
<1>1. p = [x \in ProfileFields |-> p[x]] /\ decisions \in [DANGEROUS_CAPABILITIES -> DefaultActions]
  BY SetupAssumption DEF ProfileTyped
<1>2. PICK q : q = [p EXCEPT !["executiveDecisions"] = decisions]
  OBVIOUS
<1>3. ProfileTyped(q) /\ q.mode \in Modes
  BY <1>1, <1>2, Updated, FieldsAre DEF ProfileTyped
<1> QED
  BY <1>2, <1>3, DefaultsTyped DEF Decided, HasDefaults

-----------------------------------------------------------------------------
(* The packs                                                               *)

LEMMA RuleForTyped ==
  ASSUME NEW actions \in SUBSET Actions, NEW verdict
  PROVE  RuleFor(actions, verdict) \in RuleOf(Actions, {}, {})
<1>1. (verdict = "approve_required") \in BOOLEAN
  OBVIOUS
<1>2. PICK approval \in BOOLEAN, default \in VerdictResults :
        RuleFor(actions, verdict) = Rule(actions, approval, default)
  <2>1. (IF verdict = "deny" THEN "deny" ELSE "allow") \in VerdictResults
    BY DEF VerdictResults
  <2> QED
    BY <1>1, <2>1 DEF RuleFor
<1>3. "pre_decision" \in EnforcementPoints
  BY DEF EnforcementPoints
<1> QED
  BY <1>2, <1>3 DEF Rule, RuleOf

LEMMA GlobIs == ASSUME NEW words PROVE Glob(words) \in SUBSET Actions
BY DEF Glob

LEMMA ModeRulesTyped ==
  ASSUME NEW mode \in Modes
  PROVE  ModeRules(mode) \subseteq RuleOf(Actions, {}, {})
<1>1. Glob({"delete"}) \in SUBSET Actions /\ Glob({"admin"}) \in SUBSET Actions
  BY GlobIs
<1>2. ModeRules(mode) \in {{}, {RuleFor(Glob({"delete"}), "approve_required")},
                           {RuleFor(Glob({"delete"}), "deny"), RuleFor(Glob({"admin"}), "approve_required")}}
  BY DEF ModeRules, Modes
<1> QED
  BY <1>1, <1>2, RuleForTyped

PackTyped(p) ==
  /\ p.by \in {"none", "setup", "init"} /\ p.denyUnknown \in BOOLEAN
  /\ p.rules \subseteq RuleOf(Actions, {}, {})

LEMMA PackIs ==
  ASSUME NEW by \in {"none", "setup", "init"}, NEW rules \in SUBSET RuleOf(Actions, {}, {}),
         NEW denyUnknown \in BOOLEAN
  PROVE  PackTyped(Pack(by, rules, denyUnknown))
BY DEF Pack, PackTyped

LEMMA GeneratedPackTyped ==
  ASSUME NEW p, p.mode \in Modes, p.tools \subseteq ProfileTools
  PROVE  PackTyped(generatePolicyPackYaml(p))
<1>1. {RuleFor({Sanitized[t.name]}, runtimeVerdictForTool(t)) : t \in p.tools} \subseteq RuleOf(Actions, {}, {})
  <2>1. \A t \in p.tools : {Sanitized[t.name]} \in SUBSET Actions
    BY SetupProfileAssumption DEF ProfileTools
  <2> QED
    BY <2>1, RuleForTyped
<1>2. ExecRules(p) \subseteq RuleOf(Actions, {}, {})
  <2>1. \A c : execPatterns(c) \in SUBSET Actions
    BY DEF execPatterns
  <2> QED
    BY <2>1, RuleForTyped DEF ExecRules
<1>3. RuleFor(Glob({"read"}), "allow") \in RuleOf(Actions, {}, {})
  <2>1. Glob({"read"}) \in SUBSET Actions
    BY GlobIs
  <2> QED
    BY <2>1, RuleForTyped
<1>4. PICK rules : /\ generatePolicyPackYaml(p) = Pack("setup", rules, TRUE)
                   /\ rules = {RuleFor({Sanitized[t.name]}, runtimeVerdictForTool(t)) : t \in p.tools}
                                \cup ModeRules(p.mode) \cup ExecRules(p)
                                \cup IF p.tools = {} THEN {RuleFor(Glob({"read"}), "allow")} ELSE {}
  BY DEF generatePolicyPackYaml
<1>5. rules \subseteq RuleOf(Actions, {}, {})
  BY <1>1, <1>2, <1>3, <1>4, ModeRulesTyped
<1> QED
  BY <1>4, <1>5, PackIs

LEMMA StarterRulesTyped ==
  ASSUME NEW mode \in Modes
  PROVE  generateStarterRules(mode) \subseteq RuleOf(Actions, {}, {})
<1>1. \A w : Glob({w}) \in SUBSET Actions
  BY GlobIs
<1> QED
  BY <1>1, RuleForTyped, ModeRulesTyped DEF generateStarterRules

-----------------------------------------------------------------------------
(* The state of a setup                                                    *)

RunTyped ==
  /\ run.at \in {"idle", "asking", "confirmed", "writing", "written", "enforcing", "starting", "started"}
  /\ ProfileTyped(run.profile) /\ run.profile.mode \in Modes
  /\ run.at = "starting" => run.flags \subseteq Inits

DiskTyped ==
  /\ \A d \in Directories : DOMAIN files[d] \subseteq Paths \ {"pack"} /\ PackTyped(policyPack[d])
  /\ config \in [enforcementMode : {"none", "enforce", "observe"}, persistent : BOOLEAN]

ToolsTyped ==
  /\ \A a \in active : /\ DOMAIN a = {"profile", "activated"} /\ a.activated \in BOOLEAN
                       /\ DOMAIN a.profile = ProfileFields
  /\ work \in 0 .. MaxWork

LEMMA NoRunTyped ==
  /\ NoRun.at = "idle" /\ ProfileTyped(NoRun.profile) /\ NoRun.profile.mode \in Modes
BY NoRunIs, EmptyTyped

LEMMA RunStep == SetupInv /\ RunTyped /\ [SetupNext]_setupVars => RunTyped'
<1> SUFFICES ASSUME SetupInv, RunTyped, [SetupNext]_setupVars  PROVE RunTyped'
  OBVIOUS
<1>1. ASSUME NEW project \in Projects, NEW f \in Flags, setupCommand(project, f)
      PROVE  RunTyped'
  <2>1. CASE run' = NoRun
    BY <2>1, NoRunTyped DEF RunTyped
  <2>2. CASE run' # NoRun
    <3>1. PICK found, p, draft :
            /\ found \in SUBSET Actions /\ p = Imported(Drafted(project, found, f), f.export)
            /\ HasDefaults(p) /\ draft = applyModeDefaults(p)
            /\ run' = [at |-> IF f.interactive THEN "asking" ELSE "confirmed", flags |-> {f},
                       profile |-> draft,
                       plan |-> IF f.interactive THEN planInterview(draft) ELSE {}, left |-> <<>>]
      BY <1>1, <2>2, SetupStarts
    <3>2. PICK first : first = Drafted(project, found, f)
      OBVIOUS
    <3>3. ProfileTyped(first) /\ first.mode \in Modes \cup Misnomers /\ first.defaultAction = "ask"
      BY <3>1, <3>2, DraftedTyped
    <3>4. f.export \in Seq(ExportType)
      BY SetupAssumption DEF FlagsType
    <3>5. ProfileTyped(p) /\ p.defaultAction = "ask"
      BY <3>1, <3>2, <3>3, <3>4, ImportedTyped
    <3>6. p.mode \in Modes
      BY <3>1, <3>5 DEF HasDefaults
    <3>7. ProfileTyped(draft) /\ draft.mode \in Modes
      BY <3>1, <3>5, <3>6, DefaultsTyped
    <3>8. run'.profile = draft /\ run'.at \in {"asking", "confirmed"}
      BY <3>1
    <3> QED
      BY <3>7, <3>8 DEF RunTyped
  <2> QED
    BY <2>1, <2>2
<1>2. ASSUME askSetupQuestion  PROVE RunTyped'
  <2>1. PICK i \in run.plan : \E value \in Answers[ALL_QUESTIONS[i]] :
          run' = [run EXCEPT !.profile = applyAnswer(@, ALL_QUESTIONS[i], value), !.plan = @ \ {i}]
    BY <1>2 DEF askSetupQuestion
  <2>2. PICK value \in Answers[ALL_QUESTIONS[i]] :
          run' = [run EXCEPT !.profile = applyAnswer(@, ALL_QUESTIONS[i], value), !.plan = @ \ {i}]
    BY <2>1
  <2>3. PICK p : p = applyAnswer(run.profile, ALL_QUESTIONS[i], value)
    OBVIOUS
  <2>4. ProfileTyped(p) /\ p.mode \in Modes
    BY <2>3, AnsweredTyped DEF RunTyped, SetupInv
  <2>5. run'.profile = p /\ run'.at = "asking"
    BY <1>2, <2>2, <2>3 DEF askSetupQuestion, SetupInv
  <2> QED
    BY <2>4, <2>5 DEF RunTyped
<1>3. ASSUME DecidePowers  PROVE RunTyped'
  <2>1. PICK decisions \in Decisions :
          run' = [run EXCEPT !.at = "confirmed", !.profile = Decided(@, decisions)]
    BY <1>3 DEF DecidePowers
  <2>2. run'.profile = Decided(run.profile, decisions) /\ run'.at = "confirmed"
    BY <2>1 DEF SetupInv
  <2> QED
    BY <2>2, DecidedTyped DEF RunTyped
<1>4. ASSUME Generate  PROVE RunTyped'
  <2>1. run' = NoRun \/ (run'.at = "writing" /\ run'.profile = run.profile)
    BY <1>4 DEF Generate, SetupInv
  <2> QED
    BY <2>1, NoRunTyped DEF RunTyped
<1>5. ASSUME WriteArtifact \/ WriteRootConfig  PROVE RunTyped'
  <2>1. run'.at \in {"writing", "written"} /\ run'.profile = run.profile
    BY <1>5 DEF WriteArtifact, WriteRootConfig, SetupInv
  <2> QED
    BY <2>1 DEF RunTyped
<1>6. ASSUME Announce \/ flipToEnforce \/ WriteStarterConfig \/ Crash  PROVE RunTyped'
  <2>1. run' = NoRun
    BY <1>6 DEF Announce, flipToEnforce, WriteStarterConfig, Crash
  <2> QED
    BY <2>1, NoRunTyped DEF RunTyped
<1>7. ASSUME enforceCommand  PROVE RunTyped'
  <2>1. run'.at = "enforcing" /\ run'.profile = NoRun.profile
    BY <1>7, NoRunIs DEF enforceCommand
  <2> QED
    BY <2>1, NoRunTyped DEF RunTyped
<1>8. ASSUME NEW i \in Inits, initCommand(i)  PROVE RunTyped'
  <2>1. run'.at = "starting" /\ run'.profile = NoRun.profile /\ run'.flags = {i}
    BY <1>8, NoRunIs DEF initCommand
  <2> QED
    BY <2>1, NoRunTyped DEF RunTyped
<1>9. ASSUME WriteStarterPack  PROVE RunTyped'
  <2>1. run'.at = "started" /\ run'.profile = run.profile
    BY <1>9 DEF WriteStarterPack, SetupInv
  <2> QED
    BY <2>1 DEF RunTyped
<1>10. ASSUME Tools \/ UNCHANGED setupVars  PROVE RunTyped'
  <2>1. run' = run
    BY <1>10
    DEF Tools, Calls, Call, dc_setup_detect, dc_setup_infer, dc_setup_generate,
        dc_setup_activate, setupVars
  <2> QED
    BY <2>1 DEF RunTyped
<1> QED
  BY <1>1, <1>2, <1>3, <1>4, <1>5, <1>6, <1>7, <1>8, <1>9, <1>10 DEF SetupNext, SetupCommands

LEMMA DiskStep == SetupInv /\ BothKept /\ RunTyped /\ DiskTyped /\ [SetupNext]_setupVars => DiskTyped'
<1> SUFFICES ASSUME SetupInv, BothKept, RunTyped, DiskTyped, [SetupNext]_setupVars  PROVE DiskTyped'
  OBVIOUS
<1>1. ASSUME files' = files, policyPack' = policyPack, config' = config  PROVE DiskTyped'
  BY <1>1 DEF DiskTyped
<1>2. ASSUME WriteArtifact  PROVE DiskTyped'
  <2>1. PICK left \in Seq(AllFiles(run.profile)) : left = run.left /\ left # <<>>
    BY <1>2 DEF SetupInv, WritingOK, WriteArtifact
  <2>2. PICK file : file = Head(run.left)
    OBVIOUS
  <2>3. file.path \in Paths
    <3>1. safeParse(run.profile)
      BY <1>2 DEF SetupInv, WriteArtifact
    <3> QED
      BY <2>1, <2>2, <3>1, HeadTailProperties, ArtifactsAre
  <2>4. config' = config
    BY <1>2 DEF WriteArtifact
  <2>5. ASSUME NEW d \in Directories  PROVE DOMAIN files'[d] \subseteq Paths \ {"pack"}
    <3>1. files'[d] = files[d] \/ (file.path # "pack" /\ DOMAIN files'[d] = DOMAIN files[d] \cup {file.path})
      BY <1>2, <2>2, WrittenHere
    <3> QED
      BY <2>3, <3>1 DEF DiskTyped
  <2>6. ASSUME NEW d \in Directories  PROVE PackTyped(policyPack'[d])
    <3>1. policyPack'[d] \in {policyPack[d], generatePolicyPackYaml(run.profile)}
      BY <1>2, PackWritten
    <3>2. PackTyped(policyPack[d]) /\ PackTyped(generatePolicyPackYaml(run.profile))
      BY GeneratedPackTyped DEF DiskTyped, RunTyped, ProfileTyped
    <3> QED
      BY <3>1, <3>2
  <2> QED
    BY <2>4, <2>5, <2>6 DEF DiskTyped, PackTyped
<1>3. ASSUME WriteRootConfig  PROVE DiskTyped'
  <2>1. PICK sqlite \in BOOLEAN : config' = RootConfig(sqlite)
    BY <1>3 DEF WriteRootConfig
  <2>2. RootConfig(sqlite) \in [enforcementMode : {"none", "enforce", "observe"}, persistent : BOOLEAN]
    <3>1. run.profile.enforcementMode \in {"none", "enforce", "observe"}
      BY DEF RunTyped, ProfileTyped
    <3>2. (run.profile.enforcementMode = "observe" /\ sqlite) \in BOOLEAN
      OBVIOUS
    <3>3. PICK mode, persistent :
            /\ mode = run.profile.enforcementMode /\ mode \in {"none", "enforce", "observe"}
            /\ persistent = (run.profile.enforcementMode = "observe" /\ sqlite)
            /\ persistent \in BOOLEAN
      BY <3>1, <3>2
    <3>4. RootConfig(sqlite) \in {config, [enforcementMode |-> mode, persistent |-> persistent]}
      BY <3>3 DEF RootConfig, generateRootConfigYaml
    <3>5. [enforcementMode |-> mode, persistent |-> persistent]
            \in [enforcementMode : {"none", "enforce", "observe"}, persistent : BOOLEAN]
      BY <3>3
    <3>6. config \in [enforcementMode : {"none", "enforce", "observe"}, persistent : BOOLEAN]
      BY DEF DiskTyped
    <3> QED
      BY <3>4, <3>5, <3>6
  <2> QED
    BY <1>3, <2>1, <2>2 DEF WriteRootConfig, DiskTyped
<1>4. ASSUME flipToEnforce  PROVE DiskTyped'
  BY <1>4 DEF flipToEnforce, DiskTyped
<1>5. ASSUME WriteStarterPack  PROVE DiskTyped'
  <2>1. PICK i \in run.flags :
          policyPack' = [policyPack EXCEPT !["own"] = Pack("init", generateStarterRules(i.profile), ~i.allowUnknown)]
    BY <1>5 DEF WriteStarterPack
  <2>2. i \in Inits
    BY <1>5, <2>1 DEF WriteStarterPack, RunTyped
  <2>3. PICK permissive \in BOOLEAN : permissive = ~i.allowUnknown
    OBVIOUS
  <2>4. generateStarterRules(i.profile) \in SUBSET RuleOf(Actions, {}, {})
    BY <2>2, StarterRulesTyped, SetupAssumption
  <2>5. PICK new : new = Pack("init", generateStarterRules(i.profile), ~i.allowUnknown)
    OBVIOUS
  <2>6. PackTyped(new)
    BY <2>3, <2>4, <2>5, PackIs
  <2>7. \A d \in Directories : policyPack'[d] \in {policyPack[d], new}
    BY <2>1, <2>5 DEF BothKept
  <2>8. \A d \in Directories : PackTyped(policyPack'[d])
    BY <2>6, <2>7 DEF DiskTyped
  <2>9. files' = files /\ config' = config
    BY <1>5 DEF WriteStarterPack
  <2> QED
    BY <2>8, <2>9 DEF DiskTyped, PackTyped
<1>6. ASSUME WriteStarterConfig  PROVE DiskTyped'
  BY <1>6 DEF WriteStarterConfig, DiskTyped
<1>7. CASE ~(WriteArtifact \/ WriteRootConfig \/ flipToEnforce \/ WriteStarterPack \/ WriteStarterConfig)
  <2>1. files' = files /\ policyPack' = policyPack /\ config' = config
    BY <1>7
    DEF SetupNext, SetupCommands, setupCommand, askSetupQuestion, DecidePowers, Generate, Announce,
        enforceCommand, initCommand, Crash, Tools, Calls, Call, dc_setup_detect, dc_setup_infer,
        dc_setup_generate, dc_setup_activate, setupVars, disk
  <2> QED
    BY <1>1, <2>1
<1> QED
  BY <1>2, <1>3, <1>4, <1>5, <1>6, <1>7

LEMMA ImportedFields ==
  ASSUME NEW p, DOMAIN p = ProfileFields, NEW exports
  PROVE  DOMAIN Imported(p, exports) = ProfileFields
<1>1. ASSUME NEW inference
      PROVE  DOMAIN [applyInferenceToProfile(p, inference) EXCEPT !.evidenceImported = TRUE] = ProfileFields
  BY DEF applyInferenceToProfile
<1> QED
  BY <1>1 DEF Imported

LEMMA ToolsStep == ToolsTyped /\ [SetupNext]_setupVars => ToolsTyped'
<1> SUFFICES ASSUME ToolsTyped, [SetupNext]_setupVars  PROVE ToolsTyped'
  OBVIOUS
<1>1. MaxWork \in Nat
  BY SetupAssumption
<1>2. work' \in 0 .. MaxWork
  <2>1. ASSUME Tools  PROVE work' = work + 1 /\ work < MaxWork
    BY <2>1, Zenon
    DEF Tools, Calls, Call, dc_setup_detect, dc_setup_infer, dc_setup_generate, dc_setup_activate
  <2>2. ASSUME (\E project \in Projects, f \in Flags : setupCommand(project, f))
               \/ enforceCommand \/ \E i \in Inits : initCommand(i)
        PROVE  work' = work + 3 /\ work + 3 =< MaxWork
    BY <2>2, Zenon DEF setupCommand, enforceCommand, initCommand
  <2>3. CASE work' = work
    BY <2>3 DEF ToolsTyped
  <2>4. ASSUME work' # work  PROVE Tools \/ enforceCommand \/ (\E i \in Inits : initCommand(i))
                                   \/ \E project \in Projects, f \in Flags : setupCommand(project, f)
    BY <2>4, Zenon
    DEF SetupNext, SetupCommands, askSetupQuestion, DecidePowers, Generate, WriteArtifact,
        WriteRootConfig, Announce, flipToEnforce, WriteStarterPack, WriteStarterConfig, Crash, setupVars
  <2>5. work \in 0 .. MaxWork
    BY DEF ToolsTyped
  <2>6. CASE work' = work + 1 /\ work < MaxWork
    BY <1>1, <2>5, <2>6
  <2>7. CASE work' = work + 3 /\ work + 3 =< MaxWork
    BY <1>1, <2>5, <2>7
  <2> QED
    BY <2>1, <2>2, <2>3, <2>4, <2>6, <2>7
<1>3. ASSUME NEW new, active' = {new}, DOMAIN new = {"profile", "activated"}, new.activated \in BOOLEAN,
             DOMAIN new.profile = ProfileFields
      PROVE  ToolsTyped'
  BY <1>2, <1>3 DEF ToolsTyped
<1>4. ASSUME NEW a \in active, NEW p, DOMAIN p = ProfileFields, active' = {[a EXCEPT !.profile = p]}
      PROVE  ToolsTyped'
  <2>1. PICK new : new = [a EXCEPT !.profile = p]
    OBVIOUS
  <2>2. DOMAIN new = {"profile", "activated"} /\ new.activated = a.activated /\ new.profile = p
    BY <2>1 DEF ToolsTyped
  <2> QED
    BY <1>3, <1>4, <2>1, <2>2 DEF ToolsTyped
<1>5. ASSUME NEW project \in Projects, dc_setup_detect(project)  PROVE ToolsTyped'
  <2>1. PICK p : p = [createEmptyProfile EXCEPT
                        !.harness = detectHarness(project.markers),
                        !.detectedTools = detectToolsFromManifests(project), !.listed = MemoryKinds,
                        !.detected = detectMemorySources(project.markers)]
    OBVIOUS
  <2>2. DOMAIN p = ProfileFields
    BY <2>1 DEF ProfileFields
  <2>3. PICK new : new = [profile |-> p, activated |-> FALSE]
    OBVIOUS
  <2>4. active' = {new}
    BY <1>5, <2>1, <2>3 DEF dc_setup_detect, Call
  <2> QED
    BY <1>3, <2>2, <2>3, <2>4
<1>6. ASSUME NEW exports, NEW modes, dc_setup_infer(exports, modes)  PROVE ToolsTyped'
  <2>1. PICK a \in active :
          LET p == [Imported(a.profile, exports) EXCEPT !.evidenceImported = importMemoryEvidence(exports) # {},
                                                        !.mode = OneOf(modes, @)]
          IN Call([a EXCEPT !.profile = IF HasDefaults(p) THEN applyModeDefaults(p) ELSE p])
    BY <1>6 DEF dc_setup_infer
  <2>2. PICK p : p = [Imported(a.profile, exports) EXCEPT !.evidenceImported = importMemoryEvidence(exports) # {},
                                                          !.mode = OneOf(modes, @)]
    OBVIOUS
  <2>3. DOMAIN p = ProfileFields
    BY <2>2, ImportedFields DEF ToolsTyped
  <2>4. PICK q : q = IF HasDefaults(p) THEN applyModeDefaults(p) ELSE p
    OBVIOUS
  <2>5. DOMAIN q = ProfileFields
    BY <2>3, <2>4, DefaultsKeep
  <2>6. active' = {[a EXCEPT !.profile = q]}
    BY <2>1, <2>2, <2>4 DEF Call
  <2> QED
    BY <1>4, <2>5, <2>6
<1>7. ASSUME NEW over, dc_setup_generate(over)  PROVE ToolsTyped'
  <2>1. PICK a \in active :
          Call([a EXCEPT !.profile = [x \in DOMAIN a.profile |-> IF x \in DOMAIN over THEN over[x] ELSE a.profile[x]]])
    BY <1>7 DEF dc_setup_generate
  <2>2. PICK p : p = [x \in DOMAIN a.profile |-> IF x \in DOMAIN over THEN over[x] ELSE a.profile[x]]
    OBVIOUS
  <2>3. DOMAIN p = ProfileFields /\ active' = {[a EXCEPT !.profile = p]}
    BY <2>1, <2>2 DEF Call, ToolsTyped
  <2> QED
    BY <1>4, <2>3
<1>8. ASSUME NEW verify, dc_setup_activate(verify)  PROVE ToolsTyped'
  <2>1. PICK a \in active : Call([a EXCEPT !.activated = TRUE])
    BY <1>8 DEF dc_setup_activate
  <2>2. PICK new : new = [a EXCEPT !.activated = TRUE]
    OBVIOUS
  <2>3. DOMAIN new = {"profile", "activated"} /\ new.activated = TRUE /\ new.profile = a.profile
    BY <2>2 DEF ToolsTyped
  <2>4. active' = {new}
    BY <2>1, <2>2 DEF Call
  <2> QED
    BY <1>3, <2>3, <2>4 DEF ToolsTyped
<1>9. CASE active' = active
  BY <1>2, <1>9 DEF ToolsTyped
<1>10. ASSUME SetupCommands \/ UNCHANGED setupVars  PROVE active' = active
  BY <1>10
  DEF SetupCommands, setupCommand, askSetupQuestion, DecidePowers, Generate, WriteArtifact,
      WriteRootConfig, Announce, enforceCommand, flipToEnforce, initCommand, WriteStarterPack,
      WriteStarterConfig, Crash, setupVars
<1> QED
  BY <1>5, <1>6, <1>7, <1>8, <1>9, <1>10 DEF SetupNext, Tools

\* The disk, the run, the profile of the tools and the session of the interview keep their types,
\* for any projects, memories, answers and command lines (onboarding-profile.contracts.ts:137).
THEOREM SetupTypeCorrect == SetupSpec => []SetupTypeOK
<1>1. SetupInit => SessionInv /\ RunTyped /\ DiskTyped /\ ToolsTyped
  <2> SUFFICES ASSUME SetupInit  PROVE SessionInv /\ RunTyped /\ DiskTyped /\ ToolsTyped
    OBVIOUS
  <2>1. SessionInv
    BY DEF SetupInit, SessionInv
  <2>2. RunTyped
    BY NoRunTyped DEF SetupInit, RunTyped
  <2>3. DiskTyped
    <3>1. PackTyped(NoPack) /\ NoConfig \in [enforcementMode : {"none", "enforce", "observe"}, persistent : BOOLEAN]
      BY DEF PackTyped, NoPack, NoConfig, Pack
    <3>2. \A d \in Directories : files[d] = <<>> /\ policyPack[d] = NoPack
      BY DEF SetupInit
    <3> QED
      BY <3>1, <3>2 DEF SetupInit, DiskTyped
  <2>4. ToolsTyped
    BY SetupAssumption DEF SetupInit, ToolsTyped
  <2> QED
    BY <2>1, <2>2, <2>3, <2>4
<1>2. SessionInv => SessionOK
  <2> SUFFICES ASSUME SessionInv, NEW s \in session
               PROVE  /\ s.currentPhase = Len(s.answers) + 1
                      /\ \A i \in DOMAIN s.answers : s.answers[i] \in AnswersTo[i]
                      /\ (s.result # {}) <=> (s.currentPhase = 5)
    BY DEF SessionOK
  <2>1. PICK answers \in Seq(UNION {PhaseAnswers[i] : i \in 1..4}) : answers = s.answers
    BY DEF SessionInv
  <2>2. DOMAIN answers = 1..Len(answers) /\ Len(answers) \in Nat
    OBVIOUS
  <2>3. Len(answers) + 1 \in 1..5 /\ \A i \in 1..Len(answers) : answers[i] \in PhaseAnswers[i]
    BY <2>1 DEF SessionInv
  <2>4. \A i \in 1..Len(answers) : i \in 1..4 /\ answers[i] \in PhaseAnswers[i]
    <3>1. PICK n \in Nat : n = Len(answers)
      BY <2>2
    <3>2. n + 1 \in 1..5
      BY <2>3, <3>1
    <3> QED
      BY <2>3, <3>1, <3>2
  <2>5. \A i \in DOMAIN answers : answers[i] \in AnswersTo[i]
    BY <2>2, <2>4, OnboardingServiceAssumption
  <2> QED
    BY <2>1, <2>5 DEF SessionInv
<1>3. SetupInv /\ SessionInv /\ RunTyped /\ DiskTyped /\ ToolsTyped => SetupTypeOK
  <2> SUFFICES ASSUME SetupInv, SessionInv, RunTyped, DiskTyped, ToolsTyped  PROVE SetupTypeOK
    OBVIOUS
  <2>1. /\ run.profile \in ProfilesOf(MemoryKinds)
        /\ run.profile.read \cup run.profile.writeBack \subseteq run.profile.listed
    BY ProfileIs DEF RunTyped
  <2> QED
    BY <1>2, <2>1 DEF SetupTypeOK, RunTyped, DiskTyped, PackTyped, ToolsTyped
<1> QED
  BY <1>1, <1>3, SetupInvAlways, BothAlways, SessionStep, RunStep, DiskStep, ToolsStep, PTL DEF SetupSpec
=============================================================================
