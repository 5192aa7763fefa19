--------------------------- MODULE PluginCutover ---------------------------
(***************************************************************************)
(* plugin-update.sh, its transaction helper plugin-update-transaction.py   *)
(* and continuation-supervisor-install.sh, with the lock they share.       *)
(*                                                                         *)
(* A session is one run of one of the two scripts.  It holds the lock      *)
(* through a descriptor that its children inherit: when the script is      *)
(* killed, the child that was running (claude, the helper, the installer)  *)
(* may go on, and keeps the lock until it ends.  Every durable step is an  *)
(* action; a fault is a step that fails, or a kill between two steps.      *)
(***************************************************************************)
EXTENDS Naturals, Sequences, FiniteSets

CONSTANTS
  Sessions,
  Wakers,       \* programs a LaunchAgent may run
  Shared,       \* the one in the stable harness wrapper
  None,         \* no LaunchAgent file, no job, no backup, nobody
  MaxVersion,   \* bound: versions of the plugin
  MaxErrands,   \* bound: installs and uninstalls outside an update
  MaxFaults     \* bound: failed steps and kills

ASSUME CutoverAssumption ==
  /\ Shared \in Wakers /\ None \notin Wakers /\ None \notin Sessions
  /\ MaxVersion \in Nat \ {0} /\ MaxErrands \in Nat /\ MaxFaults \in Nat

VARIABLES
  live,         \* the files of the deployment
  pending,      \* the LaunchAgent file about to be promoted
  job,          \* the job launchd has loaded
  tree,         \* the schedule tree exists
  legacy,       \* links of the pinned installer are still there
  journal,      \* .plugin-update-transaction.json exists
  guard,        \* its commit guard: a link to the journal, or committed
  backup,       \* the backup directory that journal and guard point to
  lock,
  sess,         \* per session: its place in the script and its variables
  errands, faults

disk == <<live, pending, tree, legacy>>
intent == <<journal, guard, backup>>
bounds == <<errands, faults>>
vars == <<disk, job, intent, lock, sess, bounds>>

-----------------------------------------------------------------------------
Versions == 1 .. MaxVersion
Plists == Wakers \cup {None}
\* The user's keys in settings.json, while it is truncated they are lost.
Keys == {"kept", "reset", "lost"}
Settings == [keys : Keys, pruned : BOOLEAN]
Files ==
  [ registry : Versions, settings : Settings, bin : 0 .. MaxVersion,
    schemas : 0 .. MaxVersion, execs : SUBSET Versions, plist : Plists,
    marker : BOOLEAN ]

\* state.json: `modes` is the version whose files' modes were recorded, and
\* whether they were executable then.
Backups ==
  [ files : Files, loaded : BOOLEAN, state : BOOLEAN,
    modes : {<<>>} \cup (Versions \X BOOLEAN) ]
ASSUME BackupAssumption == None \notin Backups

\* Fault: a surface is backed up and never restored.
Surfaces_NoSchemas == <<"settings", "registry", "bin", "execs", "marker", "plist">>

\* The surfaces a rollback restores, in its order.
Surfaces == <<"settings", "registry", "bin", "schemas", "execs", "marker", "plist">>

Begin == {"begin", "begin.state", "begin.journal", "begin.return"}
Claude == {"claude", "claude.settings"}
Shell == {"pending", "validate", "runtime", "keys", "keys.write", "prune", "prune.write",
          "chmod", "bin", "schemas", "legacy"}
Modes == {"modes"}
Install == {"in.validate", "in.snapshot", "in.quiesce", "in.migrate", "in.pending",
            "in.probe", "in.promote", "in.bootstrap", "in.marker", "in.return"}
Undo == {"un.bootout", "un.plist", "un.marker", "un.bootstrap"}
Uninstall == {"off.bootout", "off.plist", "off.marker"}
Commit == {"commit", "commit.unlink", "commit.mark", "commit.return"}
Rollback == {"rb.prepare", "rb.quiesce", "rb.restore", "rb.runtime", "rb.unlink",
             "rb.rmtree", "rb.return", "cl.rmtree", "cl.unlink", "cl.return"}
Blocks == {Begin, Claude, Modes, Install \cup Undo, Commit, Rollback}
Places == {"idle", "waiting"} \cup Shell \cup Uninstall \cup UNION Blocks

Sess ==
  [ pc : Places, kind : {"update", "install", "uninstall"}, waker : Wakers,
    orphan : BOOLEAN,       \* the script was killed, its child goes on
    reason : {"first", "failure", "cleanup"},   \* why a rollback was called
    keys : Keys, loaded : BOOLEAN, next : 1 .. Len(Surfaces),
    plist : Plists, marker : BOOLEAN, was : BOOLEAN, quiet : BOOLEAN,
    found : {<<>>} \cup (Files \X Plists) ]     \* what it found; not in the code

Resting ==
  [ pc |-> "idle", kind |-> "update", waker |-> Shared, orphan |-> FALSE,
    reason |-> "first", keys |-> "kept", loaded |-> FALSE, next |-> 1, plist |-> None,
    marker |-> FALSE, was |-> FALSE, quiet |-> FALSE, found |-> <<>> ]

TypeOK ==
  /\ live \in Files
  /\ pending \in Plists /\ job \in Plists
  /\ tree \in BOOLEAN /\ legacy \in BOOLEAN /\ journal \in BOOLEAN
  /\ guard \in {"none", "link", "committed"}
  /\ backup = None \/ backup \in Backups
  /\ lock \in Sessions \cup {None}
  /\ sess \in [Sessions -> Sess]
  /\ errands \in 0 .. MaxErrands /\ faults \in 0 .. MaxFaults

\* An installed plugin, either not cut over yet, or with wrappers, pruned
\* settings and a running supervisor.
Init ==
  /\ \/ /\ live = [ registry |-> 1, settings |-> [keys |-> "kept", pruned |-> FALSE],
                    bin |-> 0, schemas |-> 0, execs |-> {}, plist |-> None,
                    marker |-> FALSE ]
        /\ job = None /\ tree \in BOOLEAN /\ legacy = TRUE
     \/ /\ live = [ registry |-> 1, settings |-> [keys |-> "kept", pruned |-> TRUE],
                    bin |-> 1, schemas |-> 1, execs |-> {1}, plist |-> Shared,
                    marker |-> TRUE ]
        /\ job = Shared /\ tree = TRUE /\ legacy = FALSE
  /\ pending = None
  /\ journal = FALSE /\ guard = "none" /\ backup = None
  /\ lock = None /\ sess = [s \in Sessions |-> Resting]
  /\ errands = 0 /\ faults = 0

-----------------------------------------------------------------------------
(* Moving through the scripts.                                             *)

At(s, p) == sess[s].pc = p
SameBlock(p, q) == \E B \in Blocks : p \in B /\ q \in B

\* The end of a run closes its descriptor, the last one of the lock.
End(s) ==
  /\ sess' = [sess EXCEPT ![s] = Resting]
  /\ lock' = None

\* An orphan ends where its caller would have gone on.
Proceed(s, r) ==
  IF sess[s].orphan /\ ~SameBlock(sess[s].pc, r.pc)
    THEN End(s)
    ELSE sess' = [sess EXCEPT ![s] = r] /\ UNCHANGED lock

Go(s, p) == Proceed(s, [sess[s] EXCEPT !.pc = p])
RollBack(s, reason) ==
  Proceed(s, [sess[s] EXCEPT !.pc = "rb.prepare", !.reason = reason, !.next = 1])

Start(s, kind, w) ==
  /\ At(s, "idle")
  /\ IF kind = "update" THEN w = Shared /\ UNCHANGED errands
     ELSE errands < MaxErrands /\ errands' = errands + 1
  /\ sess' = [sess EXCEPT ![s] =
       [Resting EXCEPT !.pc = "waiting", !.kind = kind, !.waker = w]]
  /\ UNCHANGED <<disk, job, intent, lock, faults>>

Acquire(s) ==
  /\ At(s, "waiting") /\ lock = None
  /\ lock' = s
  /\ sess' = [sess EXCEPT ![s].pc =
       CASE sess[s].kind = "update" -> "pending"
         [] sess[s].kind = "install" -> "in.validate"
         [] sess[s].kind = "uninstall" -> "off.bootout"]
  /\ UNCHANGED <<disk, job, intent, bounds>>

-----------------------------------------------------------------------------
(* The updater.                                                            *)

\* Fault: the updater looks for the journal alone.
CheckPending_JournalOnly(s) ==
  /\ At(s, "pending")
  /\ IF journal THEN RollBack(s, "first") ELSE Go(s, "validate")
  /\ UNCHANGED <<disk, job, intent, bounds>>

CheckPending(s) ==
  /\ At(s, "pending")
  /\ IF journal \/ guard # "none" THEN RollBack(s, "first") ELSE Go(s, "validate")
  /\ UNCHANGED <<disk, job, intent, bounds>>

\* The updater reads the keys it will put back; it cannot parse a truncated file.
Validate(s) ==
  /\ At(s, "validate")
  /\ IF live.settings.keys = "lost" THEN End(s)
     ELSE Proceed(s, [sess[s] EXCEPT !.pc = "runtime", !.keys = live.settings.keys])
  /\ UNCHANGED <<disk, job, intent, bounds>>

ReadRuntime(s) ==
  /\ At(s, "runtime")
  /\ IF job # None /\ live.plist = None THEN End(s)
     ELSE Proceed(s, [sess[s] EXCEPT !.pc = "begin", !.loaded = (job # None),
                                     !.found = <<live, job>>])
  /\ UNCHANGED <<disk, job, intent, bounds>>

\* Fault: the journal is written before the state of the backup.
begin_JournalFirst(s) ==
  /\ At(s, "begin")
  /\ IF journal \/ guard # "none" THEN End(s) /\ UNCHANGED backup
     ELSE /\ backup' = [files |-> live, loaded |-> sess[s].loaded, state |-> FALSE,
                        modes |-> <<>>]
          /\ Go(s, "begin.journal")
  /\ UNCHANGED <<disk, job, journal, guard, bounds>>

begin(s) ==
  /\ At(s, "begin")
  /\ IF journal \/ guard # "none" THEN End(s) /\ UNCHANGED backup
     ELSE /\ backup' = [files |-> live, loaded |-> sess[s].loaded, state |-> FALSE,
                        modes |-> <<>>]
          /\ Go(s, "begin.state")
  /\ UNCHANGED <<disk, job, journal, guard, bounds>>

BeginState(s) ==
  /\ At(s, "begin.state")
  /\ backup' = [backup EXCEPT !.state = TRUE]
  /\ Go(s, "begin.journal")
  /\ UNCHANGED <<disk, job, journal, guard, bounds>>

BeginJournal(s) ==
  /\ At(s, "begin.journal")
  /\ journal' = TRUE
  /\ Go(s, "begin.return")
  /\ UNCHANGED <<disk, job, guard, backup, bounds>>

BeginReturn(s) ==
  /\ At(s, "begin.return")
  /\ Go(s, "claude")
  /\ UNCHANGED <<disk, job, intent, bounds>>

\* claude plugin update: another version, whose files are not executable, and
\* a settings file in which it may have reset the user's keys.
ClaudeUpdate(s) ==
  /\ At(s, "claude")
  /\ \E v \in live.registry .. MaxVersion : live' = [live EXCEPT !.registry = v]
  /\ Go(s, "claude.settings")
  /\ UNCHANGED <<pending, tree, legacy, job, intent, bounds>>

ClaudeSettings(s) ==
  /\ At(s, "claude.settings")
  /\ \E k \in {live.settings.keys, "reset"} :
       live' = [live EXCEPT !.settings.keys = k]
  /\ Go(s, "keys")
  /\ UNCHANGED <<pending, tree, legacy, job, intent, bounds>>

\* settings.json is rewritten in place, for the keys and again for the hooks.
RestoreKeys(s) ==
  /\ At(s, "keys")
  /\ IF live.settings.keys = sess[s].keys THEN Go(s, "prune") /\ UNCHANGED live
     ELSE live' = [live EXCEPT !.settings.keys = "lost"] /\ Go(s, "keys.write")
  /\ UNCHANGED <<pending, tree, legacy, job, intent, bounds>>

prune_hooks(s) ==
  /\ At(s, "prune")
  /\ IF live.settings.pruned THEN Go(s, "modes") /\ UNCHANGED live
     ELSE live' = [live EXCEPT !.settings.keys = "lost"] /\ Go(s, "prune.write")
  /\ UNCHANGED <<pending, tree, legacy, job, intent, bounds>>

WriteSettings(s) ==
  /\ \/ /\ At(s, "keys.write")
        /\ live' = [live EXCEPT !.settings.keys = sess[s].keys]
        /\ Go(s, "prune")
     \/ /\ At(s, "prune.write")
        /\ live' = [live EXCEPT !.settings = [keys |-> sess[s].keys, pruned |-> TRUE]]
        /\ Go(s, "modes")
  /\ UNCHANGED <<pending, tree, legacy, job, intent, bounds>>

\* Fault: the version is recorded without its mode.
record_modes_NoMode(s) ==
  /\ At(s, "modes")
  /\ backup' = [backup EXCEPT !.modes = <<live.registry>>]
  /\ Go(s, "chmod")
  /\ UNCHANGED <<disk, job, journal, guard, bounds>>

record_modes(s) ==
  /\ At(s, "modes")
  /\ backup' = [backup EXCEPT !.modes = <<live.registry, live.registry \in live.execs>>]
  /\ Go(s, "chmod")
  /\ UNCHANGED <<disk, job, journal, guard, bounds>>

chmod(s) ==
  /\ At(s, "chmod")
  /\ live' = [live EXCEPT !.execs = @ \cup {live.registry}]
  /\ Go(s, "bin")
  /\ UNCHANGED <<pending, tree, legacy, job, intent, bounds>>

\* Fault: the legacy links are cleaned up where the wrappers are linked.
replace_wrapper_WithLegacy(s) ==
  /\ \/ At(s, "bin") /\ live' = [live EXCEPT !.bin = live.registry] /\ Go(s, "schemas")
     \/ At(s, "schemas") /\ live' = [live EXCEPT !.schemas = live.registry]
                         /\ Go(s, "in.validate")
  /\ legacy' = FALSE
  /\ UNCHANGED <<pending, tree, job, intent, bounds>>

replace_wrapper(s) ==
  /\ \/ At(s, "bin") /\ live' = [live EXCEPT !.bin = live.registry] /\ Go(s, "schemas")
     \/ At(s, "schemas") /\ live' = [live EXCEPT !.schemas = live.registry]
                         /\ Go(s, "in.validate")
  /\ UNCHANGED <<pending, tree, legacy, job, intent, bounds>>

\* The legacy links go last, whatever became of the cleanup.
RemoveLegacy(s) ==
  /\ At(s, "legacy")
  /\ legacy' = FALSE
  /\ End(s)
  /\ UNCHANGED <<live, pending, tree, job, intent, bounds>>

-----------------------------------------------------------------------------
(* The transaction helper: commit, rollback and recover.                   *)

CommitLink(s) ==
  /\ At(s, "commit") /\ journal /\ guard = "none"
  /\ guard' = "link"
  /\ Go(s, "commit.unlink")
  /\ UNCHANGED <<disk, job, journal, backup, bounds>>

CommitUnlink(s) ==
  /\ At(s, "commit.unlink")
  /\ journal' = FALSE
  /\ Go(s, "commit.mark")
  /\ UNCHANGED <<disk, job, guard, backup, bounds>>

CommitMark(s) ==
  /\ At(s, "commit.mark")
  /\ guard' = "committed"
  /\ Go(s, "commit.return")
  /\ UNCHANGED <<disk, job, journal, backup, bounds>>

CommitReturn(s) ==
  /\ At(s, "commit.return")
  /\ RollBack(s, "cleanup")
  /\ UNCHANGED <<disk, job, intent, bounds>>

\* _load_journal finds the backup and a valid state.json in it.
Loadable == backup # None /\ backup.state

\* _prepare_rollback_journal.  A guard that is not committed becomes the journal
\* again; after a failure a committed one ends the run, its cleanup deferred.
PrepareRollback(s) ==
  /\ At(s, "rb.prepare") /\ (journal \/ guard = "link")
  /\ Loadable
  /\ journal' = TRUE /\ guard' = "none"
  /\ Go(s, "rb.quiesce")
  /\ UNCHANGED <<disk, job, backup, bounds>>

FindCommitted(s) ==
  /\ At(s, "rb.prepare") /\ ~journal /\ guard = "committed"
  /\ IF sess[s].reason = "failure" THEN End(s)
     ELSE Go(s, "cl.rmtree")
  /\ UNCHANGED <<disk, job, intent, bounds>>

Quiesce(s) ==
  /\ At(s, "rb.quiesce")
  /\ job' = None
  /\ Go(s, "rb.restore")
  /\ UNCHANGED <<disk, intent, bounds>>

\* The modes go back to what they were recorded as, the rest to the backup.
Restored(surface) ==
  IF surface # "execs" THEN [live EXCEPT ![surface] = backup.files[surface]]
  ELSE IF backup.modes = <<>> THEN live
  ELSE [live EXCEPT !.execs = IF backup.modes[2] THEN @ \cup {backup.modes[1]}
                              ELSE @ \ {backup.modes[1]}]

Restore(s) ==
  /\ At(s, "rb.restore")
  /\ live' = Restored(Surfaces[sess[s].next])
  /\ sess' = IF sess[s].next = Len(Surfaces) THEN [sess EXCEPT ![s].pc = "rb.runtime"]
             ELSE [sess EXCEPT ![s].next = @ + 1]
  /\ UNCHANGED <<pending, tree, legacy, job, intent, lock, bounds>>

\* --restore-loaded and --restore-unloaded.
RestoreRuntime(s) ==
  /\ At(s, "rb.runtime")
  /\ backup.loaded => live.plist # None \/ job # None
  /\ job' = IF ~backup.loaded THEN None ELSE IF live.plist # None THEN live.plist ELSE job
  /\ Go(s, "rb.unlink")
  /\ UNCHANGED <<disk, intent, bounds>>

UnlinkJournal(s) ==
  /\ At(s, "rb.unlink")
  /\ journal' = FALSE
  /\ Go(s, "rb.rmtree")
  /\ UNCHANGED <<disk, job, guard, backup, bounds>>

RemoveBackup(s) ==
  /\ \/ At(s, "rb.rmtree") /\ Go(s, "rb.return")
     \/ At(s, "cl.rmtree") /\ Go(s, "cl.unlink")
  /\ backup' = None
  /\ UNCHANGED <<disk, job, journal, guard, bounds>>

UnlinkGuard(s) ==
  /\ At(s, "cl.unlink")
  /\ guard' = "none"
  /\ Go(s, "cl.return")
  /\ UNCHANGED <<disk, job, journal, backup, bounds>>

RollbackReturn(s) ==
  /\ \/ At(s, "rb.return") /\ sess[s].reason = "failure"
        /\ End(s)
     \/ At(s, "cl.return") /\ sess[s].reason = "cleanup" /\ Go(s, "legacy")
     \/ sess[s].pc \in {"rb.return", "cl.return"} /\ sess[s].reason = "first"
        /\ Go(s, "validate")
  /\ UNCHANGED <<disk, job, intent, bounds>>

-----------------------------------------------------------------------------
(* The installer of the supervisor, called by the updater or on its own.   *)

\* The installer ends with an error, which the updater answers with a rollback.
InstallFails(s) ==
  IF sess[s].kind = "update" THEN RollBack(s, "failure") ELSE End(s)

ValidateState(s) ==
  /\ At(s, "in.validate")
  /\ Go(s, "in.snapshot")
  /\ UNCHANGED <<disk, job, intent, bounds>>

Snapshot(s) ==
  /\ At(s, "in.snapshot")
  /\ IF job # None /\ live.plist = None THEN InstallFails(s)
     ELSE Proceed(s, [sess[s] EXCEPT
            !.pc = "in.quiesce", !.plist = live.plist, !.marker = live.marker,
            !.was = (job # None),
            !.found = IF sess[s].kind = "install" THEN <<live, job>> ELSE @])
  /\ UNCHANGED <<disk, job, intent, bounds>>

\* Only an existing schedule tree has to be protected from the running job.
QuiesceFirst(s) ==
  /\ At(s, "in.quiesce")
  /\ job' = IF tree THEN None ELSE job
  /\ Proceed(s, [sess[s] EXCEPT !.pc = "in.migrate", !.quiet = tree])
  /\ UNCHANGED <<disk, intent, bounds>>

Migrate(s) ==
  /\ At(s, "in.migrate")
  /\ tree' = TRUE
  /\ Go(s, "in.pending")
  /\ UNCHANGED <<live, pending, legacy, job, intent, bounds>>

write_plist(s) ==
  /\ At(s, "in.pending")
  /\ pending' = sess[s].waker
  /\ Go(s, IF sess[s].quiet THEN "in.promote" ELSE "in.probe")
  /\ UNCHANGED <<live, tree, legacy, job, intent, bounds>>

\* Bootstrapping the candidate answers whether another job is loaded; that one
\* is then booted out, and the candidate loaded after its promotion.
Probe(s) ==
  /\ At(s, "in.probe")
  /\ job' = IF job = None THEN pending ELSE None
  /\ Proceed(s, [sess[s] EXCEPT !.pc = "in.promote", !.quiet = (job # None)])
  /\ UNCHANGED <<disk, intent, bounds>>

promote(s) ==
  /\ At(s, "in.promote")
  /\ live' = [live EXCEPT !.plist = pending] /\ pending' = None
  /\ Go(s, IF sess[s].quiet THEN "in.bootstrap" ELSE "in.marker")
  /\ UNCHANGED <<tree, legacy, job, intent, bounds>>

Bootstrap(s) ==
  /\ At(s, "in.bootstrap")
  /\ job' = live.plist
  /\ Go(s, "in.marker")
  /\ UNCHANGED <<disk, intent, bounds>>

WriteMarker(s) ==
  /\ At(s, "in.marker")
  /\ live' = [live EXCEPT !.marker = TRUE]
  /\ Go(s, "in.return")
  /\ UNCHANGED <<pending, tree, legacy, job, intent, bounds>>

InstallReturn(s) ==
  /\ At(s, "in.return")
  /\ IF sess[s].kind = "update" THEN Go(s, "commit") ELSE End(s)
  /\ UNCHANGED <<disk, job, intent, bounds>>

\* restore_previous, from the trap on EXIT.
UndoBootout(s) ==
  /\ At(s, "un.bootout")
  /\ job' = None
  /\ Go(s, "un.plist")
  /\ UNCHANGED <<disk, intent, bounds>>

UndoPlist(s) ==
  /\ At(s, "un.plist")
  /\ pending' = None /\ live' = [live EXCEPT !.plist = sess[s].plist]
  /\ Go(s, "un.marker")
  /\ UNCHANGED <<tree, legacy, job, intent, bounds>>

\* Fault: the marker is removed instead of restored.
UndoMarker_Removes(s) ==
  /\ At(s, "un.marker")
  /\ live' = [live EXCEPT !.marker = FALSE]
  /\ Go(s, "un.bootstrap")
  /\ UNCHANGED <<pending, tree, legacy, job, intent, bounds>>

UndoMarker(s) ==
  /\ At(s, "un.marker")
  /\ live' = [live EXCEPT !.marker = sess[s].marker]
  /\ Go(s, "un.bootstrap")
  /\ UNCHANGED <<pending, tree, legacy, job, intent, bounds>>

UndoBootstrap(s) ==
  /\ At(s, "un.bootstrap")
  /\ job' = IF sess[s].was THEN live.plist ELSE job
  /\ InstallFails(s)
  /\ UNCHANGED <<disk, intent, bounds>>

\* --uninstall.
Uninstalling(s) ==
  /\ \/ /\ At(s, "off.bootout") /\ Go(s, "off.plist")
        /\ job' = None /\ UNCHANGED <<live, pending>>
     \/ /\ At(s, "off.plist") /\ Go(s, "off.marker")
        /\ live' = [live EXCEPT !.plist = None] /\ pending' = None /\ UNCHANGED job
     \/ /\ At(s, "off.marker") /\ End(s)
        /\ live' = [live EXCEPT !.marker = FALSE] /\ UNCHANGED <<pending, job>>
  /\ UNCHANGED <<tree, legacy, intent, bounds>>

-----------------------------------------------------------------------------
(* Faults.                                                                 *)

Working(s) == sess[s].pc \notin {"idle", "waiting"}
Fault == faults < MaxFaults /\ faults' = faults + 1 /\ UNCHANGED <<disk, job, intent, errands>>

\* Before begin has returned no trap is set; an installer that was changing
\* things undoes them unless it was killed.
Armed == Install \ {"in.validate", "in.snapshot", "in.return"}
Trapped == Claude \cup Modes \cup Commit \cup
           {"keys", "keys.write", "prune", "prune.write", "chmod", "bin", "schemas"}

StepFails(s) ==
  /\ Working(s) /\ Fault
  /\ \/ sess[s].pc \in {"pending", "validate", "runtime"} \cup Begin /\ End(s)
     \/ sess[s].pc \in Trapped /\ RollBack(s, "failure")
     \/ sess[s].pc \in Armed /\ Go(s, "un.bootout")
     \/ sess[s].pc \in (Install \ Armed) \cup Undo /\ InstallFails(s)
     \/ sess[s].pc \in Armed /\ sess[s].kind = "update" /\ RollBack(s, "failure")
     \/ sess[s].pc \in Uninstall /\ End(s)
     \/ sess[s].pc \in Rollback /\ sess[s].reason # "cleanup" /\ End(s)
     \/ sess[s].pc \in Rollback /\ sess[s].reason = "cleanup" /\ Go(s, "legacy")

Killed(s) ==
  /\ Working(s) /\ Fault
  /\ \/ End(s)
     \/ /\ sess[s].kind = "update" /\ ~sess[s].orphan
        /\ sess[s].pc \in UNION Blocks
        /\ sess' = [sess EXCEPT ![s].orphan = TRUE]
        /\ UNCHANGED lock

-----------------------------------------------------------------------------
Updating(s) ==
  \/ CheckPending(s) \/ Validate(s) \/ ReadRuntime(s) \/ begin(s) \/ BeginState(s)
  \/ BeginJournal(s) \/ BeginReturn(s) \/ ClaudeUpdate(s) \/ ClaudeSettings(s)
  \/ RestoreKeys(s) \/ prune_hooks(s) \/ WriteSettings(s) \/ record_modes(s)
  \/ chmod(s) \/ replace_wrapper(s) \/ RemoveLegacy(s)

Deciding(s) ==
  \/ CommitLink(s) \/ CommitUnlink(s) \/ CommitMark(s) \/ CommitReturn(s)
  \/ PrepareRollback(s) \/ FindCommitted(s) \/ Quiesce(s) \/ Restore(s)
  \/ RestoreRuntime(s) \/ UnlinkJournal(s) \/ RemoveBackup(s) \/ UnlinkGuard(s)
  \/ RollbackReturn(s)

Installing(s) ==
  \/ ValidateState(s) \/ Snapshot(s) \/ QuiesceFirst(s) \/ Migrate(s) \/ write_plist(s)
  \/ Probe(s) \/ promote(s) \/ Bootstrap(s) \/ WriteMarker(s) \/ InstallReturn(s)
  \/ UndoBootout(s) \/ UndoPlist(s) \/ UndoMarker(s) \/ UndoBootstrap(s)

Step(s) == Acquire(s) \/ Updating(s) \/ Deciding(s) \/ Installing(s) \/ Uninstalling(s)

StartAny(s) ==
  \E kind \in {"update", "install", "uninstall"}, w \in Wakers : Start(s, kind, w)

Next ==
  \E s \in Sessions : StartAny(s) \/ Step(s) \/ StepFails(s) \/ Killed(s)

Spec == Init /\ [][Next]_vars

\* A script that runs goes on, and whoever finds an interrupted cutover runs the
\* updater again; installs outside an update are finitely many (MaxErrands).
LiveSpec ==
  /\ Spec
  /\ \A s \in Sessions : WF_vars(Step(s))
  /\ \A s \in Sessions : WF_vars(Start(s, "update", Shared))

-----------------------------------------------------------------------------
(* What an observer of the deployment sees: while a cutover is undecided,  *)
(* what recovery would restore.                                            *)

Undecided == journal \/ guard = "link"
Shown == IF Undecided THEN backup.files ELSE live
Supervisors == [plist : Plists, marker : BOOLEAN, running : BOOLEAN]
Plugin ==
  [ registry |-> Shown.registry, keys |-> Shown.settings.keys,
    pruned |-> Shown.settings.pruned, bin |-> Shown.bin, schemas |-> Shown.schemas,
    runnable |-> Shown.bin \in live.execs ]
Supervisor ==
  [ plist |-> Shown.plist, marker |-> Shown.marker,
    running |-> IF Undecided THEN backup.loaded ELSE job # None ]

Deployment == INSTANCE AtomicDeployment WITH
  Versions <- Versions,
  Supervisors <- Supervisors,
  Installed <- [plist |-> Shared, marker |-> TRUE, running |-> TRUE],
  plugin <- Plugin,
  supervisor <- Supervisor,
  open <- Undecided

-----------------------------------------------------------------------------
(* Properties.                                                             *)

\* The cutover implements the atomic deployment: whatever fails or is killed
\* between two steps, by itself or as an orphan, and whatever installs and
\* uninstalls run meanwhile, all surfaces change at commit's guard or not at all.
AtomicCutover == Deployment!Spec

\* As long as a cutover is undecided, its backup is complete, and names a
\* LaunchAgent for the job it has to load again: recovery cannot refuse it.
RecoverableWhileOpen ==
  Undecided =>
    /\ Loadable
    /\ backup.loaded => backup.files.plist # None

\* No job runs while a rollback changes the harness under it, whoever started
\* the rollback and whoever else is there.
RestoresQuiesced == \A s \in Sessions : At(s, "rb.restore") => job = None

\* The links of the pinned installer are not removed before the surfaces that
\* replace them are beyond any rollback.
LegacyGoesLast == ~legacy => Shown.bin # 0

SaysUpdated(s) ==
  RemoveLegacy(s) \/ (FindCommitted(s) /\ sess[s].reason = "failure" /\ ~sess[s].orphan)
SaysRestored(s) ==
  \/ RollbackReturn(s) /\ sess[s].reason = "failure" /\ ~sess[s].orphan
  \/ UndoBootstrap(s) /\ sess[s].kind = "install"

\* What a script says when it ends is so: an update that exits 0 leaves everything
\* at the registry's version and running, one that says "restored" leaves what it
\* found, and so does an install that fails.
ReportIsTrue ==
  [][\A s \in Sessions :
       /\ SaysUpdated(s) =>
            /\ ~Undecided' /\ job' = Shared
            /\ live'.bin = live'.registry /\ live'.schemas = live'.registry
            /\ live'.settings = [keys |-> "kept", pruned |-> TRUE]
       /\ SaysRestored(s) =>
            /\ sess[s].kind = "update" => ~Undecided'
            /\ live' = sess[s].found[1]
            /\ job' = IF sess[s].found[2] = None THEN None ELSE live'.plist]_vars

\* An interrupted cutover is decided by the next run of the updater, which waits
\* for the orphans of the one before.
PendingIsDecided == Undecided ~> ~Undecided
=============================================================================
