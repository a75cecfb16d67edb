---------------------------- MODULE PolicyServer ----------------------------
(***************************************************************************)
(* The policy pack: the file, the commands that change it, their backups,  *)
(* and the server that enforces it and reloads it while it runs            *)
(* (src/src/surfaces/cli, src/src/packs).  A command is a process of its   *)
(* own that reads the pack, backs it up and writes it back; commands, the  *)
(* server and whoever edits the file by hand interleave at every file      *)
(* operation, and a process can be killed between any two.  Inside the     *)
(* server a reload is one step: its awaits are of resolved promises, which *)
(* no request can come between.                                            *)
(***************************************************************************)
EXTENDS PolicyRules, Sequences

CONSTANTS
  Names,       \* names of rules
  Body,        \* what the rule of a name says
  Contexts,    \* what the server is asked
  Commands,    \* runs of the command line
  Operations,  \* what they may be asked to do
  FirstPacks,  \* contents of the file at the beginning
  Edits,       \* contents it may be given by hand
  DenyUnknown, \* denyUnknownDefault of decision-core.yaml
  Owned,       \* isDecisionCoreOwnedPath: whether policyPackPath is below .decision-core
  MaxEdits,    \* bound of the edits
  MaxStarts    \* bound of the starts of the server

\* The contents of the file: sdk or contracts format, or neither, which may still be YAML
\* with rules in it.  The order of the rules decides nothing.
Entries == [name : Names, enabled : BOOLEAN]
Packs == [format : {"sdk", "contracts", "neither"}, denyUnknown : BOOLEAN,
          rules : SUBSET Entries]
Truncated == [format |-> "neither", denyUnknown |-> FALSE, rules |-> {}]

NamesIn(p) == {entry.name : entry \in p.rules}
Appended(p, names) ==
  [p EXCEPT !.rules = @ \cup [name : names, enabled : {TRUE}]]

\* rules add, rules enable and disable, upgrade, rescan --apply and rollback, with what is
\* given on the command line or found by the scan.
Requests == [kind : {"add"}, name : Names]
              \cup [kind : {"toggle"}, name : Names, enabled : BOOLEAN]
              \cup [kind : {"upgrade", "rescan"}, names : SUBSET Names]
              \cup [kind : {"rollback"}]

ASSUME PolicyServerAssumption ==
  /\ DOMAIN Body = Names
  /\ Operations \subseteq Requests /\ Operations # {}
  /\ FirstPacks \cup Edits \subseteq Packs
  /\ DenyUnknown \in BOOLEAN /\ Owned \in BOOLEAN
  /\ MaxEdits \in Nat /\ MaxStarts \in Nat

VARIABLES
  pack,    \* the file
  backups, \* the backup directories in the order of their timestamps
  command, \* the runs of the command line
  server,  \* the server
  edits,   \* edits so far
  starts   \* starts so far

vars == <<pack, backups, command, server, edits, starts>>

\* What a backup directory holds, and whether a second run made it its own.
BackupDirectories == [copy : Packs, manifest : BOOLEAN, shared : BOOLEAN]

\* A run: where it is, what it read, where it backs up, and whether somebody else has changed
\* the file since it read it.
Runs == [at : {"idle", "read", "directory", "copied", "ready", "truncated", "ended"},
         op : Operations, seen : Packs, dir : Nat, raced : BOOLEAN]
Idle == [at |-> "idle", op |-> CHOOSE op \in Operations : TRUE, seen |-> Truncated,
         dir |-> 0, raced |-> FALSE]
Ended == [Idle EXCEPT !.at = "ended"]

\* The server: the rules in its repository, deny-unknown, the pack it last loaded, whether the
\* file has changed since it began to watch it, and whether the watcher's timer is set.
Servers == [at : {"down", "seeded", "watching"}, rules : SUBSET {Body[n] : n \in Names},
            denyUnknown : BOOLEAN, loaded : Packs, changed : BOOLEAN, event : BOOLEAN]
Stopped == [at |-> "down", rules |-> {}, denyUnknown |-> FALSE, loaded |-> Truncated,
            changed |-> FALSE, event |-> FALSE]

-----------------------------------------------------------------------------
(* Loading                                                                 *)

Loads(p) == p.format # "neither"

\* The rules a pack puts in the repository: those of a contracts pack are all enabled.
RulesIn(p) ==
  {Body[e.name] : e \in {e \in p.rules : e.enabled \/ p.format = "contracts"}}

\* deny-unknown of a server that has loaded p: a contracts pack never asks for it.
Wrapped(p) == DenyUnknown \/ (p.format = "sdk" /\ p.denyUnknown)

\* What the server answers.
Answer(ctx) == evaluate(server.rules, server.denyUnknown, ctx)

\* Mutant of Noticed: the timer is set the first time and never again.
Noticed_once == [server EXCEPT !.event = @ \/ (server.at = "watching" /\ ~server.changed),
                               !.changed = @ \/ server.at = "watching"]

\* The file changes.  Whoever is at work on what it held has been raced, and the watcher of a
\* running server sets its timer, or sets it again.
Noticed == [server EXCEPT !.event = @ \/ server.at = "watching",
                          !.changed = @ \/ server.at = "watching"]

RacedBy(others, runs) ==
  [c \in Commands |-> IF c \in others /\ runs[c].at \notin {"idle", "ended"}
                      THEN [runs[c] EXCEPT !.raced = TRUE] ELSE runs[c]]

-----------------------------------------------------------------------------
(* Commands                                                                *)

\* Whether the pack has a rule, enabled or not, whose pattern matches the tool named.
Covered(p, name) == \E other \in NamesIn(p) : Body[other].actions \cap Body[name].actions # {}

\* The early returns and exceptions before the backup: of rules add, rules enable and disable,
\* and rescan --apply.
Refuses(op, seen) ==
  \/ op.kind = "add" /\ (seen.format # "sdk" \/ op.name \in NamesIn(seen))
  \/ op.kind = "toggle" /\ op.name \notin NamesIn(seen)
  \/ op.kind = "rescan" /\ (seen.format # "sdk" \/ \A n \in op.names : Covered(seen, n))

\* upgrade finds out after the backup that there is nothing to add, or no rules to add to.
Vain(op, seen) ==
  op.kind = "upgrade" /\ (seen = Truncated \/ op.names \subseteq NamesIn(seen))

\* rules enable and disable.
Toggled(op, seen) ==
  [seen EXCEPT !.rules = {e \in @ : e.name # op.name}
                           \cup {[name |-> op.name, enabled |-> op.enabled]}]

\* upgrade appends rules in the sdk format to a pack in either: the contracts schema refuses
\* a contracts pack with such a rule, and the sdk schema is not tried.
Upgraded(op, seen) ==
  [Appended(seen, op.names \ NamesIn(seen)) EXCEPT
     !.format = IF @ = "contracts" THEN "neither" ELSE @]

\* Mutant of Rewritten: the rule that is added replaces the list.
Rewritten_replacing(op, seen) ==
  CASE op.kind = "add"     -> Appended([seen EXCEPT !.rules = {}], {op.name})
    [] op.kind = "toggle"  -> Toggled(op, seen)
    [] op.kind = "upgrade" -> Upgraded(op, seen)
    [] op.kind = "rescan"  -> Appended(seen, {n \in op.names : ~Covered(seen, n)})

\* What the command writes: it changes what it read when it began.
Rewritten(op, seen) ==
  CASE op.kind = "add"     -> Appended(seen, {op.name})
    [] op.kind = "toggle"  -> Toggled(op, seen)
    [] op.kind = "upgrade" -> Upgraded(op, seen)
    [] op.kind = "rescan"  -> Appended(seen, {n \in op.names : ~Covered(seen, n)})

\* A command that changes the pack reads it.
Read(c, op) ==
  /\ command[c].at = "idle" /\ op.kind # "rollback"
  /\ command' = [command EXCEPT ![c] =
       IF Refuses(op, pack) THEN Ended ELSE [Idle EXCEPT !.at = "read", !.op = op, !.seen = pack]]
  /\ UNCHANGED <<pack, backups, server, edits, starts>>

\* rollback looks at the newest directory only, and makes no backup of its own.  A manifest that
\* lists no file, as all are of a pack that is not below .decision-core, restores nothing.
Rollback(c, op) ==
  /\ command[c].at = "idle" /\ op.kind = "rollback"
  /\ command' = [command EXCEPT ![c] =
       IF Owned /\ backups # <<>> /\ backups[Len(backups)].manifest
       THEN [Idle EXCEPT !.at = "ready", !.op = op, !.dir = Len(backups)] ELSE Ended]
  /\ UNCHANGED <<pack, backups, server, edits, starts>>

\* createBackup: the directory, named after the millisecond ...
MakeDirectory(c) ==
  /\ command[c].at = "read"
  /\ backups' = Append(backups, [copy |-> Truncated, manifest |-> FALSE, shared |-> FALSE])
  /\ command' = [command EXCEPT ![c].at = "directory", ![c].dir = Len(backups) + 1]
  /\ UNCHANGED <<pack, server, edits, starts>>

\* ... which is that of another run that is at it in the same millisecond,
ShareDirectory(c) ==
  /\ command[c].at = "read"
  /\ \E d \in Commands \ {c} : command[d].dir = Len(backups) /\ command[d].op.kind # "rollback"
  /\ backups # <<>>
  /\ backups' = [backups EXCEPT ![Len(backups)].shared = TRUE]
  /\ command' = [command EXCEPT ![c].at = "directory", ![c].dir = Len(backups)]
  /\ UNCHANGED <<pack, server, edits, starts>>

\* Mutant of CopyPack: the copy is left to the write of the manifest.
CopyPack_omitted(c) ==
  /\ command[c].at = "directory"
  /\ command' = [command EXCEPT ![c].at = "copied"]
  /\ UNCHANGED <<pack, backups, server, edits, starts>>

\* the copy of the file as it is now, which need not be what the command has read, and none of
\* a file outside .decision-core: that is skipped without a word, and overwritten all the same,
CopyPack(c) ==
  /\ command[c].at = "directory"
  /\ backups' = IF Owned THEN [backups EXCEPT ![command[c].dir].copy = pack] ELSE backups
  /\ command' = [command EXCEPT ![c].at = "copied"]
  /\ UNCHANGED <<pack, server, edits, starts>>

\* and last the manifest.
WriteManifest(c) ==
  /\ command[c].at = "copied"
  /\ backups' = [backups EXCEPT ![command[c].dir].manifest = TRUE]
  /\ command' = [command EXCEPT ![c] =
       IF Vain(command[c].op, command[c].seen) THEN Ended ELSE [@ EXCEPT !.at = "ready"]]
  /\ UNCHANGED <<pack, server, edits, starts>>

\* writeFileSync and copyFileSync truncate the file and then write it.
Truncate(c) ==
  /\ command[c].at = "ready"
  /\ pack' = Truncated /\ server' = Noticed
  /\ command' = RacedBy(Commands \ {c}, [command EXCEPT ![c].at = "truncated"])
  /\ UNCHANGED <<backups, edits, starts>>

\* What is written is what the run has made of the pack it read, or the backup.
Write(c) ==
  /\ command[c].at = "truncated"
  /\ pack' = IF command[c].op.kind = "rollback" THEN backups[command[c].dir].copy
             ELSE Rewritten(command[c].op, command[c].seen)
  /\ server' = Noticed
  /\ command' = RacedBy(Commands \ {c}, [command EXCEPT ![c] = Ended])
  /\ UNCHANGED <<backups, edits, starts>>

\* The process of the run is killed.
Killed(c) ==
  /\ command[c].at \notin {"idle", "ended"}
  /\ command' = [command EXCEPT ![c] = Ended]
  /\ UNCHANGED <<pack, backups, server, edits, starts>>

\* The file is edited in place by hand.
Edit(p) ==
  /\ edits < MaxEdits /\ edits' = edits + 1
  /\ pack' = p /\ server' = Noticed
  /\ command' = RacedBy(Commands, command)
  /\ UNCHANGED <<backups, starts>>
-----------------------------------------------------------------------------
(* The server                                                              *)

\* A server that has loaded p.
Booted(p) ==
  [Stopped EXCEPT !.at = "seeded", !.rules = RulesIn(p), !.denyUnknown = Wrapped(p), !.loaded = p]

\* A server starts with the pack as it is then; one that cannot load it does not start.
Start ==
  /\ server.at = "down" /\ starts < MaxStarts
  /\ starts' = starts + 1
  /\ server' = IF Loads(pack) THEN Booted(pack) ELSE server
  /\ UNCHANGED <<pack, backups, command, edits>>

\* With --watch it watches the file once it listens.  What changed before that goes unnoticed.
Watch ==
  /\ server.at = "seeded"
  /\ server' = [server EXCEPT !.at = "watching"]
  /\ UNCHANGED <<pack, backups, command, edits, starts>>

\* Mutant of Reloaded: the rules of the old pack stay in the repository.
Reloaded_accumulating ==
  IF Loads(pack) THEN [server EXCEPT !.event = FALSE, !.loaded = pack,
                                     !.rules = @ \cup RulesIn(pack), !.denyUnknown = Wrapped(pack)]
  ELSE [server EXCEPT !.event = FALSE, !.rules = {}]

\* The rules are deleted, and then the pack is loaded.  A pack that does not load leaves the
\* repository empty, and deny-unknown as it was.
Reloaded ==
  IF Loads(pack) THEN [server EXCEPT !.event = FALSE, !.loaded = pack,
                                     !.rules = RulesIn(pack), !.denyUnknown = Wrapped(pack)]
  ELSE [server EXCEPT !.event = FALSE, !.rules = {}]

\* The watcher's timer fires.
Reload ==
  /\ server.at = "watching" /\ server.event
  /\ server' = Reloaded
  /\ UNCHANGED <<pack, backups, command, edits, starts>>

\* The server is stopped or crashes; its repository was in memory.
Stop ==
  /\ server.at # "down"
  /\ server' = Stopped
  /\ UNCHANGED <<pack, backups, command, edits, starts>>

-----------------------------------------------------------------------------

Init ==
  /\ pack \in FirstPacks
  /\ backups = <<>>
  /\ command = [c \in Commands |-> Idle]
  /\ server = Stopped
  /\ edits = 0 /\ starts = 0

Next ==
  \/ \E c \in Commands :
       \/ \E op \in Operations : Read(c, op) \/ Rollback(c, op)
       \/ MakeDirectory(c) \/ ShareDirectory(c) \/ CopyPack(c) \/ WriteManifest(c)
       \/ Truncate(c) \/ Write(c) \/ Killed(c)
  \/ \E p \in Edits : Edit(p)
  \/ Start \/ Watch \/ Reload \/ Stop

\* A timer that is set fires.
Spec == Init /\ [][Next]_vars /\ WF_vars(Reload)

-----------------------------------------------------------------------------
(* Properties                                                              *)

TypeOK ==
  /\ pack \in Packs
  /\ backups \in Seq(BackupDirectories)
  /\ command \in [Commands -> Runs]
  /\ server \in Servers
  /\ edits \in 0..MaxEdits /\ starts \in 0..MaxStarts

\* A server of a pack that denies what it does not know allows only what that pack allows:
\* whatever has become of the file since, through failed reloads and half-written packs, no
\* rule of an older pack and no missing rule lets an action through.
AllowedByPackLoaded ==
  server.at # "down" /\ Wrapped(server.loaded) =>
    \A ctx \in Contexts : Answer(ctx) = "allow" =>
      evaluate(RulesIn(server.loaded), TRUE, ctx) = "allow"

\* A run that is about to write over the pack, or at it.
Overwriting(run) == run.at \in {"ready", "truncated"} /\ run.op.kind # "rollback"

\* Whether a complete backup of the run holds what it read.
InBackup(run) == backups[run.dir].copy = run.seen /\ backups[run.dir].manifest

\* Before a command writes over a pack below .decision-core, all that it read is in a complete
\* backup, if nobody else changed the file in between and the directory was its own.  The backup
\* copies the file a second time and not what was read: this is what keeps the two the same.
BackedUp ==
  \A c \in Commands :
    LET run == command[c] IN
    Owned /\ Overwriting(run) /\ ~run.raced /\ ~backups[run.dir].shared => InBackup(run)

\* A command that nobody raced puts in the place of the file one that still has every rule that is
\* in it, as it is, but for the one it was told to enable or disable, and that still loads if the
\* file did; but an upgrade of a contracts pack does not load.  It is about the file at the moment
\* it is overwritten, which the command read some steps before.
KeepsRules ==
  [][\A c \in Commands :
       LET run == command[c]  text == Rewritten(run.op, run.seen) IN
       Truncate(c) /\ run.op.kind # "rollback" /\ ~run.raced =>
         /\ \A e \in pack.rules :
              e \in text.rules \/ (run.op.kind = "toggle" /\ run.op.name = e.name)
         /\ Loads(pack) => Loads(text) \/ (run.op.kind = "upgrade" /\ pack.format = "contracts")]_vars

\* The server enforces the file as it is; a file that does not load leaves it without rules.
Enforced ==
  IF Loads(pack) THEN server.loaded = pack /\ server.rules = RulesIn(pack) ELSE server.rules = {}

\* A watching server whose file has changed gets to enforce what it then holds, however often
\* it changes while the timer runs.
CatchesUp ==
  (server.at = "watching" /\ server.changed) ~> (Enforced \/ server.at # "watching")

=============================================================================
