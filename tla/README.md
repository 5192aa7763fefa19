# Verification of the Escapement worktree transaction, continuation harness and plugin cutover

This directory holds TLA+ models of the parts of the repository whose
correctness depends on order: who holds which lock, what is durable when a
process dies, and what other people did to the same files in the meantime. It
holds the TLC configurations that check the models on small instances and the
TLAPS proofs of what holds for every instance.

Paths below are relative to the repository root.

## 1. The system and its parts

The repository installs a *continuation harness* for coding agents. Agents work
in git worktrees that a command line tool creates and retires; hooks stop a
session from ending before its contract is verified; a launchd job wakes
sessions up, polls conditions and retires worktrees whose work has landed.

| component | code | state it keeps | operations |
|---|---|---|---|
| worktree creation and rollback | `bin/escapement_worktree.py`, `_allocate_ref`, `_recovery`, `_rollback_ref`, `_rollback_lock`, `_rollback_fs`, `_registry`, `_git` | one receipt per lifecycle (phase, token, identities), the branch ref, its lock files and its detached claim, the worktree, its administrative directory, advisory locks | `create`, `recover` |
| worktree finish | `bin/escapement_worktree_finish.py`, `_cleanup` | the same receipt (phases `requested` … `ref_deleted`) | `finish` |
| landing proof, activity, root sync | `bin/escapement_worktree_github.py`, `_activity`, `_root` | none of its own; the primary checkout | queries; a fast-forward |
| worktree supervisor | `harness/bin/worktree_lifecycle_supervisor.py` | none: it reads the receipts | `reconcile` runs `recover` or `finish` per receipt |
| bootstrap runner | `bin/escapement_worktree_bootstrap.py` | a process group | `run_bootstrap` |
| wake schedules | `harness/bin/schedule_store.py`, `schedule_wakeup_bridge.py`, `wakeup_waker.py`, `wakeup_dispatch.py` | `scheduled.json` per thread and its lock | register, prune, poll, fire |
| continuation watchdog | `harness/bin/continuation_watchdog.py`, `session_observer.py` | one state file of candidates, leases and attempts | one pass: classify, claim, launch, observe |
| stop gate and contracts | `harness/bin/would_block_stop.py`, `stop_hook.py`, `winddown_*.py`, `init_contract.py`, `derive_contract.py`, `verify` | `contract.json`, `scheduled.json`, stop counters | init, verify, decide a stop |
| task modes and sessions | `harness/bin/task_mode_entry.py`, `task_session_mode.py`, `session_*.py`, `thread_identity.py`, `beads_task_state.py` | `session_mode.json` per thread | first claim, read |
| outcomes and incidents | `harness/bin/repo_outcome.py`, `set_repo_outcome.py`, `reconcile_incidents.py`, `blocker_verify.py`, `trusted_*.py` | single JSON files | validate, report |
| plugin cutover | `scripts/plugin-update-transaction.py`, `plugin-update.sh` | journal, commit guard, backup directory | begin, record, commit, rollback, recover |
| supervisor installation | `scripts/continuation-supervisor-state.py`, `continuation-supervisor-install.sh` | quarantine manifest and archive | migrate, recover |
| hooks | `claude/hooks/*.py` | a few marker files per session | allow or deny one tool call |
| generators, reporting tools | `tools/`, `claude/bin/`, `plugins/` | none | text in, text out |

How they interact:

- **One receipt, three commands, two kinds of caller.** A person or an agent
  runs `create`; `recover` and `finish` are run by the same people and, once a
  minute, by the waker through `reconcile`. All three read and rewrite the same
  receipt. A non-blocking lock per lifecycle decides who may; a blocking lock per
  repository serialises the git part.
- **The repository belongs to everybody.** Agents commit, delete branches, move
  and delete worktrees with plain git. They take none of the tool's locks; only
  git's own `<ref>.lock` file makes them meet.
- **The waker** runs the watchdog, then starts a detached process that fires the
  schedules and calls `reconcile`. `verify` prunes a schedule that the waker may
  be working on.
- **The stop gate** reads what `init_contract`, `verify`, the bridge and the task
  mode wrote, each in a process of its own.

What is hard in each of them, and what makes it correct:

- *create and recover*: a crash between any two durable steps; a rollback replayed
  from its journaled phase; names (path, branch, administrative directory) that
  point to something else by the time they are used. Correct when everything an
  attempt made has a receipt until it is gone, when nothing of anybody else is
  taken away, and when a creation cut off anywhere ends.
- *finish*: commits arrive between the approval of a commit and the deletion of
  its branch. Correct when no commit that has not landed loses its branch, and
  when landed work is retired in the end.
- *supervisor*: schedules and receipts, in any state, share one pass, which an exception
  may end. Correct when what is in order is reached past what is not, and when exit code
  0 means that nothing was passed over.
- *wake schedules*: a lock held across two-minute polls, launches before the
  schedule is rewritten. Correct when an entry is neither lost nor fired twice.
- *watchdog*: a durable claim before an external effect, a lease after it. Correct
  when a continuation is not delivered twice and not abandoned before its attempts
  are used.
- *stop gate*: one contract file read and written by unsynchronised processes.
  Correct when a stop is allowed only on the strength of what the current contract
  asked for.
- *plugin cutover, quarantine*: transactions over several files. Correct when any
  crash is decided one way by whichever of rollback and recover runs next.

`PROJECT.json` lists each hazard at the line where it bites, with the properties
that cover it or the reason none does yet.

## 2. Plan

Modules in the order they are written; each comes with its MC module, its
configurations and, where noted, its proofs.

1. `WorktreeLifecycle` — create, recover, finish and the outside world, at the
   granularity of durable steps. *Done, with proofs.*
2. `WakeSchedule` — one schedule, the waker, the bridge, `verify`'s prune; crashes
   between launch and rewrite. *Done, with proofs.*
3. `ContinuationWatchdog` — claim, launch, lease, attempts, observation. *Done, with
   proofs.*
4. `AtomicDeployment`, `PluginCutover` — what an update promises, and the updater, its
   transaction helper and the installer, shown to implement it. *Done, with proofs.*
5. `ScheduleQuarantine` — the transaction that moves schedules aside. *Done, with proofs.*
6. `StopGate` — contract, `init_contract`, `verify`, the Stop hook, wakes, the task
   scope. *Done, with proofs.*
7. `SupervisorPass` — the waker's pass over all schedules and receipts, its abandoned
   turns and its exit code. *Done, with proofs.*
8. `RollbackRef` — the journaled lock files and the detach and restore of a ref at
   file level, shown to implement the atomic `refLock` and `refClaim` of 1.
9. An abstract lifecycle (absent, creating, owned, retiring) that 1 implements
   under a refinement mapping.

`PluginCutover` composes the updater with the installer, because they share a lock and
the files; `ScheduleQuarantine` refines the one step `Migrate` of it in a module of its
own, because its actors are other ones (the sessions that write schedules). `StopGate`
takes a schedule as one bit, which `WakeSchedule` models in full. `SupervisorPass` composes
the waker with the supervisor and takes what 1 and 2 model of a receipt and of a schedule
as one answer each.

Section 11 has the theorems: every property that the passing runs check and that is not
about progress is proved, but for one case of `NoTurnIsMissed` of `ContinuationWatchdog`,
with kills and one session, which is worth adding.

## 3. WorktreeLifecycle

### State

| variable | in the code |
|---|---|
| `receipt[l]` | `registry/<lifecycle>.json`: phase, branch, attempt token, allocation state, the ref identity recorded for the rollback, the approved commit |
| `ref[b]` | the loose ref file: who made it and its commit |
| `refLock[b]` | the tool's journaled `<ref>.lock` |
| `refClaim[t]` | the ref file renamed away by a rollback, waiting to be dropped or put back |
| `tree[u]` | a worktree: where the checkout is (target, claim, disposal, elsewhere), whether git still has its administrative directory, whether the token is in it, its HEAD, whether it has uncommitted files |
| `lifeLock`, `repoLock` | the two `flock`s; the kernel releases them when a process ends or dies |
| `landed` | commits the live default branch contains |
| `proc[p]` | the program counter and the locals that survive a step |

Every attempt of `create` draws one token, and makes at most one ref file and one
worktree. The code recognises these by inode; the model by the token. Whatever
somebody else makes has the identity `Foreign`, even under the same name and at
the same commit. A commit is named by the outside change that made it; `Source`
is the commit a creation starts from.

### Steps

One action stands for the code between two points where another process, a crash
or a person can be noticed: a write of the receipt, a git command, a rename, a
lock. `create` is `CreateStart` … `FinalVerify`; both its failure paths and
`recover` continue with `ClaimWorktree` … `Settle`, the body of
`abort_creation_locked`; `finish` is `FinishStart` … `FinishForget`. `Crash` ends
a process anywhere: its locks go, its files stay. The `User…` actions are what
git allows outside the tool (they respect git's ref locks and nothing else), and
`Land` is a merge on the server.

Failures of commands that succeed or fail for reasons outside the model
(`git worktree add`, `git worktree move`, writing the token, a busy ref lock, the
bootstrap, activity in the worktree) are allowed when the constant `Outside`
contains them.

### Runs

| run | question | instance |
|---|---|---|
| `worktree_safety` | `TypeOK`, `ResidueIsReceipted`, `NoHeadlessCheckout`, `CreatorKeepsItsReceipt`, `HandedOverIsNeverRolledBack`, `NoCommittedWorkLost`, `LateOwnerKeepsBranch`, `RollbackRemovesOnlyItsOwn` | 2 processes, 2 lifecycles that want one branch, 2 attempts, 1 crash, 2 outside changes; 1.2 million states |
| `worktree_live` | `CreationEnds`, `LandedWorkIsRetired` under `LiveSpec` | 2 processes, 1 lifecycle, 2 crashes, 2 outside changes: commits (also in a claimed worktree), a detached HEAD, a branch made by somebody else, a failing `git worktree add`, token or bootstrap; 60 thousand states |
| `worktree_headless` | section 10 | the smallest instance that shows it |

Why the bounds are enough. Two processes are what the lifecycle lock lets meet
usefully: a holder and an intruder; a third one waits for the same lock. Two
attempts and one branch name make a branch left by one lifecycle the obstacle of
another. A rollback that dies twice, in `worktree_live`, has been cut off, replayed, and
cut off in the replay. Two outside changes, beside any number of merges, tell most stories:
commit, land, commit; delete a branch and create it again; take a branch and dirty the
checkout. Longer ones, and a second crash, are left to the proofs: each safety property of
this module is proved for any number of both (section 11).
`CHECK_DEADLOCK` stays on: an idle process can always start a `finish` or a
`create`.

`worktree_safety` leaves out the two outside changes with which
the findings of section 10 refute `ResidueIsReceipted` and `NoHeadlessCheckout` (a detached HEAD left by
the user, a commit in a claimed worktree). Everything else is in, so, within its bounds, the run says
that these two are the only ways, among those modelled, in which the two
properties fail; `WorktreeResidue_proofs` says so without bounds (section 11).
The proofs of the other properties include them. `worktree_live` includes
them too, and leaves out the failures after which a receipt may stay: a rename or lock that
fails again and again, people who dirty, remove or replace the worktree or delete the branch.

### Properties

- `ResidueIsReceipted`: nothing an attempt made (worktree, ref file, detached ref,
  ref lock) outlives the receipt that names the attempt.
- `NoHeadlessCheckout`: no checkout at its target or its claim path is without its
  administrative directory.
- `CreatorKeepsItsReceipt`: while a process holds a lifecycle's lock no other step,
  crash or person changes the receipt.
- `HandedOverIsNeverRolledBack`: no step turns a finish phase back into a creation
  phase, so `recover` never takes a worktree that was handed to its user.
- `NoCommittedWorkLost`: no step of the tool drops or rewinds a branch whose commit
  is not the source and has not landed.
- `LateOwnerKeepsBranch`: a detached ref is dropped only if nobody has the branch
  checked out, and put back otherwise.
- `RollbackRemovesOnlyItsOwn`: a registered worktree disappears only through an
  approved finish or the journaled rollback of the attempt that made it.
- `CreationEnds`: a receipt in a creation phase leaves it, unless what is left cannot
  be proved to be the creation's (`Unprovable`: no token in the worktree or a HEAD
  off its branch, a ref that was prepared and is not there, a ref at another commit). The code refuses
  those for ever on purpose.
- `LandedWorkIsRetired`: a clean worktree whose tip has landed is retired, unless
  its tip moves between approval and removal (`TipMoved`; tests/test_worktree_lifecycle.py
  asserts that such a branch is kept and pending) or its user takes it off its branch
  (`OffBranch`).

### Fairness

`LiveSpec` adds strong fairness of each running process, because a blocking
`flock` that is free again and again is granted in the end and no step between
locks waits for anything; and strong fairness of the supervisor for each
receipt: launchd starts the waker every minute and the waker calls `reconcile`
at the end of every pass. Nothing is assumed of crashes, people or merges. The
second assumption is stronger than the code in one respect: a receipt that makes
`reconcile` raise ends the turn for the receipts that sort after it. Where a
command fails in the model it fails for its own receipt only; the composition is
`SupervisorPass`.

## 4. WakeSchedule

### State and steps

| variable | in the code |
|---|---|
| `schedule`, `present` | the entries of one thread's `scheduled.json`, and whether the file exists |
| `lock` | the `flock` on `scheduled.json.lock` |
| `waker` | the locals of one pass of `wakeup_waker.py --legacy-fire`: the entries loaded (`seen`), those still to plan (`todo`), `kept`, `spawns`, the repository it resolved (`bound`), whether it may rewrite, and how old its `now` is (`age`) |
| `bridge[b]` | a process of `schedule_wakeup_bridge.py` between its load and its write |
| `actor`, `context` | the thread directory belongs to a subagent; `session_mode.json` names a repository that exists |
| `used`, `launched`, `cancelled`, `crashes` | history, read by properties, and by the guards that name the bounds |

`PassStart` reads the clock; `PassLock` takes the lock and loads; `Plan` treats one
due entry (`PlanResume`, `PlanCheck`); `PlanDone` ends the planning; `Launch` and
`LaunchFails` are one `Popen` each; `PassWrite` rewrites and unlocks. A hook is
`Register` or `VerifyPassed` (try the lock, load, build) and `BridgeWrite` (replace
the file, unlock). Only one pass runs at a time, because the process holds
`legacy-fire.json.lock`. `RegisterCheck` stands for whatever registers polls and
entries of other creators: the code reads them, but nothing in the repository
writes them.

Time is relative: `Tick` moves all times down by one and is possible between any two
steps, in a pass up to `MaxAge` times, so that a pass polls with a clock that is
late, as `main` does. The entries carry an identity that the JSON does not have;
no guard compares it.

### Runs

| run | instance | shows |
|---|---|---|
| `wake` | two wakes, two prompts, two hooks, delays and deadlines up to 2, a pass one tick late, one crash | `TypeOK`, `CancelledStaysCancelled`, `LaunchesOncePerCrash`, `OnlyLaunchedWakesArePruned`, `DueWakeIsServed`; 0.6 million states |

Two wakes are one that a pass holds and one registered meanwhile, equal to it (same
type and prompt, hence dropped as a duplicate) or not. Two hooks are one
that holds the lock and one that finds it taken. With delays and deadlines up to 2 a poll
is re-armed first and given up later, or late at once. One crash is at every place: in
the planning, between two launches, before the write.

### Properties

- `CancelledStaysCancelled`: a wake removed by a prune that was written is in no
  schedule and in no planned launch afterwards.
- `LaunchesOncePerCrash`: a wake launches at most once more than processes were
  killed.
- `OnlyLaunchedWakesArePruned`: a pass that ends removes a wake only if it or an equal
  one was launched or is kept.
- `DueWakeIsServed`: a due resume, and a poll past its deadline, leave the schedule,
  unless the session has no repository (the code keeps such a schedule as it is).

### Fairness

Time goes on, a pass starts every minute (launchd) and goes on, a hook that holds
the lock writes, and a launch that is tried for ever is not refused for ever
(strong fairness of `Launch`). `NotAlwaysBusy` says that a pass which starts again
and again finds the lock free at some time: it only tries once per minute, and a
hook holds the lock for milliseconds, but nothing in the code excludes that they
meet every time.

## 5. ContinuationWatchdog

### State and steps

| variable | in the code |
|---|---|
| `session[s]` | a transcript as `session_observer.py` parses it: its last turn, whether it ended, how long it has to be quiet, the markers in it, whether it was modified since the recorded scan; whether a process has the session open and its directory is there; the messages on their way to it |
| `stored` | `state.json`: `initialized`, and per delivery key a record (phase, attempts, the time it waits for, the backoff of the judge, the verdict) |
| `pass` | the locals of one `run_once`: its copy of the records, the candidates left (`todo`), those whose quiet window was open, the candidate at hand, how many it evaluated, how old its clock is |
| `launches`, `delivered`, `late`, `baseline`, `old`, `crashes` | history; `late` are the turns with a launch after which the lease or the grace period could end before the message arrives (`LateAt`) |

A delivery key is a session and the number of its turn. `PassStart` takes
`watchdog.lock` and reads the clock; `Baseline` is the first pass; `Scan` finds the
candidates; then `Skip`, `Close`, `Evaluate`, `Judge` or `JudgeFails`, `Recheck`, `Busy`
or `Claim`, and `Launch` are the loop's body, cut where something outside (the
model, the list of active sessions, the host) answers; `PassWrite` writes the state.
`PassCrash` kills a pass anywhere. A session's turns (`UserTurn`, `TurnEnds`), the rest
of its transcript (`Touch`), its processes and its directory change at any time.
`Launch` reports success or failure independently of whether the message is on its
way: a started process may die and a command that timed out may have been
accepted. `Deliver` puts the marker in the transcript with the turn it begins, or
before it.

Times are relative to the clock the pass read, as the code compares them: `Tick` in a
pass adds to its `age`, and its end takes the age from every time. `until` is
`lease_until` while launching and `retry_after` otherwise. A terminal record keeps only
its phase, because the code reads nothing else of it.

### Runs

| run | instance | shows |
|---|---|---|
| `watchdog_safety` | one Claude session, two turns, two attempts, two evaluations per pass, lease 2 and grace 3, a pass up to 2 and a delivery up to 1 late, two crashes, every outside change | `TypeOK`, `LaunchesAreBounded`, `OnlyLateLaunchesRepeat`, `BaselineIsLeftAlone`, `NoTurnIsMissed`; 3.2 million states |
| `watchdog_live` | one Claude session, one crash, two attempts | `TurnIsDecided` under `LiveSpec` |
| `watchdog_lost` | two Codex sessions, one crash; symmetric | a violation, section 10 |
| `watchdog_twice` | a Claude and a Codex session, a pass as old as the lease, one crash | a violation of `ContinuedOnce`, section 10 |

Two attempts and two crashes are a launch that a kill cuts off, and the last one; the budget is
proved for any number of them. One session suffices for the properties about one turn: two sessions share
only the evaluation budget and the write of the state; `watchdog_lost` is about the
latter, and shows that `NoTurnIsMissed`, which survives crashes with one session, does
not with two. Two turns are the one the first pass
baselines, or an old one, and the one that follows it.

Whether a turn is continued twice depends on time. The lease (`LEASE_SECONDS`, two minutes) and the
grace period (three) both run from the start of the pass, and a pass may wait for two verdicts of a
minute each, for the list of active sessions and for earlier launches before it makes its claim. So a
claim may be made with a lease that is over. The instance allows that: a pass may be as old as the
lease. Then a turn may be continued twice, which `watchdog_twice` shows. What does hold
is `OnlyLateLaunchesRepeat`: without such a late launch no kill, no lost answer and no retry
continues a turn twice. It is proved without any assumption on the times. `NoTurnIsMissed` is
proved for any number of sessions until a pass is killed, which with `watchdog_lost` says what it
takes to lose a turn.

### Properties

- `LaunchesAreBounded`: the host is asked at most `MAX_HOST_ATTEMPTS` times to resume a
  turn, wherever passes are killed; the claim is durable before the launch.
- `OnlyLateLaunchesRepeat`: the message of a turn reaches its session twice only if a launch of
  that turn came late in its pass.
- `ContinuedOnce`: it never does. Expected to fail.
- `BaselineIsLeftAlone`: what the first pass found is never resumed.
- `NoTurnIsMissed`: between passes every ended turn has a record, or lies in a
  transcript that the next scan reads. This relates the modification times the scan
  filters by to the clock of the pass before.
- `TurnIsDecided`: a recorded turn reaches a terminal phase, unless its user has the
  session open (`Busy` puts it off for as long as that lasts, on purpose).

### Fairness

Time goes on, launchd starts a pass every minute and it goes on, and a message on its way
arrives. Strong fairness of `Judge` and `Claim` says that a local model which is asked
again and again answers in the end, and that the list of active sessions does: both
may fail for ever, and the code then waits for ever.

## 6. PluginCutover and AtomicDeployment

`AtomicDeployment` is what `plugin-update.sh` promises whoever looks at the deployment:
the plugin's surfaces (registry, settings, wrappers, executable bits) and the
supervisor change together, to one version, when a cutover commits; a cutover that
fails or dies changes nothing; between cutovers the supervisor may come and go.
`PluginCutover` is the code: the updater, the helper
`plugin-update-transaction.py`, the installer it calls, and the lock the scripts share.

### State and steps

| variable | in the code |
|---|---|
| `live` | the files a cutover changes: version in the plugin registry, the user's keys and the pruned hooks in `settings.json`, the `bin` and `schemas` wrappers (0: not linked to the plugin), the versions whose files are executable, the LaunchAgent plist, the install marker |
| `pending`, `job`, `tree`, `legacy` | the plist about to be promoted, the job launchd has loaded, whether there is a schedule tree, whether the pinned installer's links are there |
| `journal`, `guard`, `backup` | `.plugin-update-transaction.json`, its commit guard (a hard link to the journal, or the text that says committed), the backup directory they point to |
| `lock` | the lock of `run_with_lock`, whose descriptor every child inherits |
| `sess[s]` | one run of `plugin-update.sh` or of `continuation-supervisor-install.sh`: its place, the user's keys it read, whether the job was loaded, what the installer saved for its undo, why a rollback was called; `found` is history |

One action is one durable step. `CheckPending` … `RemoveLegacy` are the updater;
`begin` … `UnlinkGuard` the helper's commands (`PrepareRollback` is
`_prepare_rollback_journal`, which recover and rollback share); `ValidateState` …
`UndoBootstrap` the installer with its trap, `Uninstalling` its `--uninstall`. `StepFails`
takes the way the code takes when that step fails: end, rollback, undo. `Killed` either
ends the run, or leaves the child that was running as an `orphan`: it goes on to the end
of its own program (`SameBlock`) and keeps the lock until then. A block is one child:
`claude`, one call of the helper, or the installer.

### Run and bounds

`cutover`: two sessions, two versions, two programs a LaunchAgent may run (the shared
wrapper and another one), one errand (an install or uninstall outside an update), two
faults; 0.3 million states. Two sessions are one that died or is an orphan and one that
recovers; two faults are one that interrupts a cutover and one that interrupts its
recovery or its undo. Two versions are the old and the new one, from a deployment that was
cut over before and from one that was not.

### Properties

- `AtomicCutover`: every step of the scripts is a step of `AtomicDeployment` or changes
  nothing an observer sees. While a cutover is undecided (the journal is there, or an
  uncommitted guard), an observer is shown what recovery would restore; the guard's
  commit is the step that changes everything.
- `RecoverableWhileOpen`: the backup of an undecided cutover is complete.
- `LegacyGoesLast`: the pinned installer's links outlive every rollback that needs them.
- `ReportIsTrue`: an update that exits 0 left everything at one version and running; one
  that says it restored, and an install that fails, left what they found.
- `PendingIsDecided`: the next update decides an interrupted cutover, after its orphans
  have ended.

Fairness: a script that runs goes on, and somebody runs the updater again
(`WF(Start(s, "update", Shared))`); errands are finitely many.

## 7. ScheduleQuarantine

The installer's call of `migrate`: before the job is loaded for the first time,
schedules with a due or malformed entry are moved to a quarantine directory. The
manifest lists them before the first move, so that a later run completes the moves.

| variable | in the code |
|---|---|
| `sched[t]`, `written[t]` | `scheduled.json` of a thread as a number, the how many-th content it has had (0: no file), which stands for its bytes and their digest |
| `ripe` | contents that have a due or malformed entry by now |
| `quarantine[x]` | one transaction directory: no manifest yet, `prepared` or `complete`, the digests it lists, the archive |
| `marker`, `inst` | the install marker, and the locals of the install in progress |

`List` … `Recovered` are `_recover` over all directories of the tree, `Read` …
`WriteManifest` the search of a first install. `Refuse` is any of the four refusals of
`_recover`. `Rewrite` is a hook, a `verify` or a waker that replaces a schedule at any
time, since `migrate` does not take a schedule's lock; between `CheckRecord` (the
digest) and `Move` (the rename) too.

`quarantine`: two threads, two contents each, two kills, one uninstall, four names (as many
as transactions are possible, so that none is missing); 0.5 million states.

- `NothingIsDestroyed`: a content leaves the tree only for an archive, and stays there.
- `NoHazardIsLoaded`: when the install goes on to load the job, nothing that was due at its
  clock is in the tree, and nothing a manifest lists has stayed or come back.
- `RefusedWithCause`: a kill alone never makes a later install refuse; a session must have
  written a schedule after a manifest listed it.
- `InstallConverges`: without such a write, repeating the install succeeds
  (`WF(Install)`: updates run the installer again).

## 8. StopGate

### State and steps

| variable | in the code |
|---|---|
| `contract`, `declaring` | `contract.json`: absent, torn (does not parse) or whole; and the text `init_contract` is about to write after it truncated the file |
| `start` | `scope_watermark.json`; a watermark is the set of beads older than it |
| `verify[v]` | a background run of `harness/bin/verify`: which declaration's command it runs, the contract it read again |
| `beads` | each bead: not filed, open and ready, open and waiting for others, in progress, closed, or `parked`: bd's own statuses `blocked` and `deferred`; changed by the session and by others |
| `scheduled` | `scheduled.json` has a future entry |
| `entering` | claimed beads whose PostToolUse hook (`task_mode_entry.py`) has not ended |
| `mode`, `found`, `incident` | `session_mode.json`: the root of the recorded scope, and whether Beads is found from the directory recorded with it (`has_beads_dir`); the file a failed record leaves |
| `first` | history: the scope that was recorded first |
| `turn`, `active`, `released` | the host: the session's turn, `stop_hook_active`, whether the user's last message says to stop |
| `hook` | the locals of `main` in `stop_hook.py` and where it stands; as history, the root of the first scope if it was unfinished all the time since it started (`live`), and the beads it has to see (`steady`): those that were active when it started and that nobody changed since but to let them wait, less, once the watermark is read, those older, and none once bd gave no answer that parses |

`Stop` … `TaskFails` are the reads of `main` in their order, one action per file or per
query of bd: mode, contract, decision, watermark, the three queries, git, pull request,
judge; or, in task mode, root, blockers, ready, blocked. `Declare` truncates and
`DeclareWrites` writes; `VerifyLoads`, `VerifyTruncates`, `VerifyWrites` do the same
after the command has run. Two writers that both truncated the file may leave one
text's tail behind the other (`Overwrite`). `Expire` is the end of the five minutes in
which a verdict counts.

`Update` is what bd lets anybody do to a bead: take it, release it, park it, close it, reopen it,
add or drop what it waits for. `Claim` is `bd update --claim`; its hook, which walks to the root
and records the scope under the lock of the file, is a step of its own (`Enter`), so that the
hooks of parallel claims meet; it may fail, or be killed (`EnterDies`).

A query of bd has three outcomes. It answers; it fails, which the queue outside task mode takes
for no work and the task scope for a refusal, unless no Beads is found; or its answer does not
parse as beads, which counts as an empty list in task mode (`TaskFails`,
`beads_task_state.py:50-53`). `Listed` is what the three queries list: a parked bead is in none.

Answers that depend on text or on other systems are nondeterministic: the judge, the
suppression of a green contract, whether a blocker is substantiated, the state of the
checkout and of the pull request. `passed` is a fresh green verdict, whichever command it
was that passed.

### Run

| run | instance | shows |
|---|---|---|
| `stop_gate` | a root and a task, one verify, two declarations or claims (`Plans`), others who change beads, one fault, under `LiveSpec` | `TypeOK`, `ConversationalIsFree`, `SteadyWorkBlocks`, `TaskOutcomeIsClosed`, `TurnEnds`; 0.5 million states |

`Plans` is a bound: a session declares a contract or claims tasks. In task mode the hook
does not look at the contract, so what a combination adds is a declaration the hook
ignores. Two declarations are one that a verify runs for and one that replaces it. Two beads are
two claims whose hooks run side by side, one for the root and one below it, and a walk that fails
makes the second a scope of its own. One fault is a query, a record or a writer cut off.

### Properties

- `ConversationalIsFree`: a session with a declared contract is never let go as one without,
  whatever state the file was in when it was read.
- `SteadyWorkBlocks`: outside task mode, with a verdict or a wake, the turn ends only if every bead
  that was active (in progress, ready or waiting) when the hook started, and that nobody changed
  since but to let it wait, is older than the watermark in force; or if bd did not answer. Beads
  that are taken or released between two of the three queries may be missed.
- `TaskOutcomeIsClosed`: of the scope that was recorded first, whoever claims or reopens beads
  while the hook runs: where Beads is found, only the user or a second Stop in a row ends a turn during
  which its root was never closed; and after a drained queue that bd answered, a bead
  of the scope that nobody changed but to let it wait is in progress.
- `TurnEnds`: the gate traps nobody.

What comments promise beyond `SteadyWorkBlocks` and `TaskOutcomeIsClosed` fails; section 10 has the
three cases.

### Fairness

Commands and hooks end (`WF` of `Declaring`, `StopHook` and `Entering`; the first two are never
enabled together, so that one condition serves both). The hooks of the parallel
tools of one message have all ended before the next message, so again and again none is left
(`SF(Entering /\ entering' = {})`). The host offers every turn a Stop in which the model does
not go on with tools for ever (`SF(Stop)`): strong, because a Stop has to wait for the hooks of
new claims and declarations.

## 9. SupervisorPass

launchd starts `wakeup_waker.py --fire` every minute. It makes a pass of the watchdog and
starts a detached `--legacy-fire`, unless one still runs, which goes through all schedules
and then, with `reconcile`, through all receipts.

| variable | in the code |
|---|---|
| `condition[s]`, `busy` | what a pass will find in a schedule: no file, one that is not trusted, not a list, one whose checks or launches fail, one that raises what `main` does not catch, a sound one; and whether a hook or `verify` holds its lock |
| `phase[r]`, `answer[r]` | the receipt's phase as far as `reconcile` looks, and what `escapement-worktree` will come to: `completed`, `pending`, an error, or no answer in three minutes |
| `tick`, `pass` | the two processes; of the second its place, the lists still to visit, `scheduled_ok`, `exit_code`, and, as history, what it listed, inspected and settled |
| `exit` | the exit code of the last pass |

A schedule or a receipt is a number, in the order of names in which a pass visits them.
`SkipUntrusted`, `SkipLocked`, `Lock` and `Inspect` are one round of the first loop,
`RefuseEntry`, `ReadReceipt`, `Command` and `CommandFails` one of the second; `Escapes` is an
exception that leaves `main`, `Killed` the end of the process at any place. `Inspect` is what
`WakeSchedule` models in full, `Command` what `WorktreeLifecycle` does. Users change
schedules and receipts at any time, between the listing and the visit, and between the
reading of a receipt and the command, so `recover` may meet a receipt that was handed over
or is gone (`Results`).

`supervisor`: two schedules and three receipts, all in order at first, two changes by others,
one kill or failed start; 0.3 million states. Two changes are one receipt or schedule that
is out of order and one that changes while a pass is on its way; three receipts are one that
is stale, one before it and one after it.

- `ExitIsTrue`: exit code 0 vouches for everything the pass had listed, whatever changed
  meanwhile. Proved for any number of schedules and receipts.
- `WorkIsReached`: a trusted schedule that nobody has locked is visited again and again, and a
  receipt too, unless one that fails comes before it. Untrusted, locked, unreadable and
  failing schedules do not keep others waiting; this once stopped reconciliation for days
  (`wakeup_waker.py:352-354`), which is what its mutant does.

Fairness: `WF(Tick)`, since launchd starts the job every minute and a pass of the watchdog
ends; `WF(Pass)`, since every command of a pass ends or is ended by its time limit.

## 10. What the checks found

Three runs are expected to end in a violation. Each property is a sentence of the
design document or of a comment, or an assertion of a test, and each trace is what the
code does.

1. `worktree_headless`: a crash after `rollback_claimed`, a commit in the claimed
   worktree. `recover` moves the checkout back to its target because it cannot prove
   ownership, and leaves the phase. The next `recover` takes the empty claim path
   for a removal that was cut off and removes the administrative directory by its
   inode. The preserved checkout is no repository any more. The design
   (`docs/superpowers/specs/2026-07-29-escapement-owned-worktree-creation-design.md:259-260`)
   says that a worktree whose ownership cannot be proven is never deleted.
2. `watchdog_lost`: two turns end, a pass finds both, claims the first and is killed.
   The claim has stored the time of the scan, but the second turn had no record yet:
   the next scan does not look at its transcript and it is not looked up by its record, so
   nobody ever continues it. `harness/tests/test_continuation_watchdog.py:100` and `:124`
   assert that a turn in an unchanged transcript is visited again.
3. `watchdog_twice`: a pass waits for its verdicts until the lease it is about to take is over
   (`continuation_watchdog.py:371` counts it from the start of the pass), claims, launches and is
   killed. The next pass finds the lease over and no marker yet, and launches again; both messages
   arrive. `continuation_watchdog.py:373` calls the claim a "durable claim before external acceptance", and
   `harness/tests/test_continuation_watchdog.py:263` claims that the marker prevents the
   duplicate.
More disagreements were met while modelling. The models contain the steps; no run is
kept for them:

- `create` fails in its bootstrap after HEAD was detached. The rollback leaves the
  worktree but deletes the branch and journals `rollback_ref_removed`; the next `recover`
  finds no branch, deletes the receipt and reports completion, and no receipt names the
  worktree that stays (`bin/escapement_worktree_recovery.py:281`). The design (262-264)
  promises that residue is reported and never hidden. `worktree_safety`'s instance
  shows it when `detach` is added to `Outside`.
- A branch deleted and created again at the same commit between the identity check and
  the ref lock is detached and dropped by a rollback as if it were the creation's
  (`bin/escapement_worktree_rollback_ref.py:452`): the first attempt compares it with an
  identity nothing has recorded yet.
- A waker killed between a launch and the rewrite leaves the wake in the schedule and the
  next pass launches it again; the head of `harness/bin/wakeup_waker.py` (14-15) says that
  a one-shot wake never survives to fire again. `LaunchesOncePerCrash` is what does hold.
- `verify` passes while a pass holds the schedule's lock for minutes: the prune is given up
  and the wake of finished work fires; `harness/bin/schedule_wakeup_bridge.py:33-35` says
  that it cannot.
- A registration drops every entry that is past as "already fired / stale"
  (`schedule_wakeup_bridge.py:91`, `:101`), also one that became due since the last pass
  and that nobody has fired: another program's poll is lost.
- A session that ended before the two-day look-back of the watchdog's first pass has no
  baseline record (`continuation_watchdog.py:251`); when its transcript is modified
  without a turn, its old turn is a new candidate and is resumed.
- A session files a bead, gives it a status that none of the three queries lists
  (`harness/bin/stop_hook.py:870-872`; bd has `blocked` and `deferred`, which
  `harness/tests/test_parent_outcome_gate.py:118-119` counts as unfinished), registers a
  wake and is let go. The same happens to a bead that is taken after the first query and
  before the second. The comment at `stop_hook.py:1137-1138` says that
  session-fresh work blocks. `SteadyWorkBlocks` is what does hold.
- A session files a bead, declares its contract, and is let go with the bead
  unfinished: `resolve_watermark` (`harness/bin/would_block_stop.py:124`) prefers the time of the
  contract to the start of the session, so the bead counts as backlog. A second declaration moves
  the watermark again. `harness/bin/session_watermark.py:11-13` says that a later
  watermark is a premature stop and the first one is kept; the comment at
  `harness/bin/stop_hook.py:603-605` names the case the check is there for.
- In task mode, the root closed, bd answers the query for ready beads with exit
  code 0 and something that does not parse. `_default_runner`
  (`harness/bin/beads_task_state.py:53`) makes an empty list of it, and the turn ends as drained
  with a ready bead. The docstring of `check_task_scope` (`:134-136`) says that unknown state
  fails closed in a Beads context, and `harness/tests/test_task_mode_queue.py:53-54` takes None
  for a bd failure ("no parseable JSON"). `TaskOutcomeIsClosed` excepts it (`steady`).
- A contract declared while a `verify` runs the command of the one before receives that
  verdict (`harness/bin/verify:50`).
- An exception that `main` of the waker does not catch (a schedule that is not UTF-8, a
  schedule lock that cannot be opened, a full disk, an entry with a value that is no
  string) ends the whole pass, and the next one: later schedules and all receipts wait until
  the file is repaired. The comment at `harness/bin/wakeup_waker.py:352-354` says that a
  schedule that could not be inspected no longer disables anything else; `WorkIsReached`
  excludes these (`Quiet`).
- `subprocess.TimeoutExpired`, of a command of `reconcile` that takes more than three minutes,
  is not caught either (`wakeup_waker.py:349`): the pass ends without the report that the
  reconciliation was incomplete.
- A receipt that fails for ever, or an entry of the registry that is none, keeps all
  receipts that sort after it waiting; `WorkIsReached` excludes it (`Clear`).
- `migrate` looks at `threads/*/scheduled.json`
  (`scripts/continuation-supervisor-state.py:251-252`); schedules of agents, one directory
  further down, which the waker fires too (`thread_identity.py:94-96`), are not quarantined.
- `launchctl bootout` does not end a legacy pass that was started in a session of its own
  (`wakeup_waker.py:233`), so the comment at `scripts/continuation-supervisor-install.sh:257`,
  which quiesces before schedules are read, does not hold for it.
- A thread whose schedule was quarantined and that writes a schedule again makes every
  later install, hence every later update, refuse as ambiguous
  (`scripts/continuation-supervisor-state.py:183`); `tests/test_continuation_supervisor_install.sh`
  asserts that installing again succeeds. `RefusedWithCause` says that this is the only way.
- An installer on its own that is killed after it loaded the job and before it promoted
  the plist leaves a job without a plist; later installs and updates refuse
  (`Snapshot`, `ReadRuntime`) until `--uninstall`.

States the code leaves for a person on purpose, and which the liveness properties
exclude by name: a ref prepared and never committed; a worktree without its token;
a branch at another commit; a tip that moved after the worktree was removed.

## 11. What is proved

`WorktreeLifecycle_proofs` holds the theorems, for any sets of processes,
lifecycles and branches, any number of attempts, crashes and outside changes,
and any subset of outside kinds. The only assumptions are `BoundsAssumption` (the
bounds are naturals, `Outside` contains known kinds) and `NamesAssumption` (the
null values are not elements of the sets they complete).

| theorem | statement |
|---|---|
| `TypeCorrect` | `Spec => []TypeOK` |
| `LocksAndTokens` | `Spec => []Control` |
| `ReceiptIsKept` | `Spec => CreatorKeepsItsReceipt` |
| `HandedOver` | `Spec => HandedOverIsNeverRolledBack` |
| `RepositoryInOrder` | `Spec => []KInv` |
| `CommitsAreKept` | `Spec => NoCommittedWorkLost` |
| `LateOwners` | `Spec => LateOwnerKeepsBranch` |
| `OnlyItsOwn` | `Spec => RollbackRemovesOnlyItsOwn` |

The argument. `TypeOK` is not enough for `ReceiptIsKept` and `HandedOver`: a process may write the
receipt of the lifecycle it works on, so one needs to know that it holds that
lifecycle's lock, that nobody else does, and that its program counter fits the
phase it finds. `Control` states this, together with what makes tokens unique and
what makes a restore possible (a process about to restore a ref finds a detached
one). `IInv == TypeOK /\ Control` is inductive. Each action is shown to be one of
four moves of a process relative to `Control`: it starts holding a lifecycle
(*Enter*), goes on under the lock (*Continue*), ends and drops its locks
(*Leave*), or touches nothing `Control` speaks about (*Quiet*). One lemma per move
shows that it preserves `Control`; one lemma per action shows which move it is and
that it keeps the types; `NextIInv` collects them.

The last three are about refs and worktrees, which people change as well, and need a second
invariant on top of the first. `KInv` says that a process in the repository has the
repository's lock (`RepoDiscipline`), what it knows of the branch by its place (`RefKnown`:
it has git's lock file, the ref is at the source when it is about to be detached, gone when
it is about to be dropped, and nobody owns it then), that a worktree is removed under the
phase that was journaled for it (`PhaseKnown`), that an approved commit has landed
(`Approved`), and that only a receipt names a token (`Blank`). Each step of a process is shown
to be `Good`: it stays out of the repository or is alone in it (`Apart`), knows afterwards
what its new place says, and is `Harmless`, which is what the three properties ask of a
single step. `OutsideRespects` is all that is known of people: they change a ref only while
neither lock file is there, and check out only branches that exist. Since a ref that is
detached does not exist, nobody can come to own it between the second look and the drop.

`WorktreeResidue_proofs` continues it, under assumptions on what people do, each of which
is needed:

| theorem | assumed of `Outside` | statement |
|---|---|---|
| `NothingHeadless` | nobody commits in a claimed worktree | `Spec => []NoHeadlessCheckout` |
| `ResidueReceipted` | nobody does that or detaches a HEAD | `Spec => []ResidueIsReceipted` |

Everything else people may do is in: they remove, add, move and dirty worktrees, commit,
delete and create branches, at any moment of a rollback. A commit in a claimed worktree
refutes the first (run `worktree_headless`), and a detached HEAD the second (section 10).
The commit refutes the second as well: it leaves a checkout without its administrative
directory, and the receipt of that goes when the branch has been deleted and made again at the
source (TLC finds this with one lifecycle, two kills and three outside changes).

`HInv`, on top of the other two invariants, is about worktrees and their administrative
directories: a checkout that anybody can find is registered (`Registered`), no branch is
checked out twice (`OneOwner`), and what a rollback has journaled as its claim is its own
worktree, on the branch and at the commit it was made for (`ClaimsKept`, and `ClaimKnown` for
what a process knows of it by its place). That is what lets the rollback take the checkout
first and the administrative directory after it without looking again. A commit in the claim
breaks `ClaimsKept`.

`RInv` is about receipts: besides `ResidueIsReceipted`, the worktree of an attempt is where the
phase of its receipt has the recovery look for it (`Home`), and its ref, its detached ref and
its lock file are there only in the phases that look for them (`Trace`; together `Kept`); a
process that is about to write the next phase knows that the last one left nothing
(`ResidueKnown`). The invariant is stronger than the property, because a receipt with the right
token is of no use in a phase that no longer looks. Each step of a process is shown to be
`Receipted`: it keeps this for its own lifecycle and touches no other attempt's files
(`Spares`). One lemma per kind of step shows how: it rewrites its receipt and leaves the files
(`Rewritten`), deletes it (`Forgotten`), or leaves it (`GoesOn`) and changes a ref
(`RefReceipted`) or a worktree (`TreeReceipted`). `OutsideRInv` shows that people keep the
invariant.

`WakeSchedule_proofs` proves, for any wakes, prompts, hooks and bounds, assuming only
`ScheduleAssumption` (the bounds are naturals, the waker and the hooks are different
processes):

| theorem | statement |
|---|---|
| `WakeTypeCorrect` | `Spec => []TypeOK` |
| `LockProtectsSchedule` | `Spec => []IInv` |
| `CancelledForGood` | `Spec => []CancelledStaysCancelled` |
| `LaunchesOnce` | `Spec => []LaunchesOncePerCrash` |
| `PrunesOnlyLaunched` | `Spec => OnlyLaunchedWakesArePruned` |

`CancelledStaysCancelled` is not inductive: a hook or a pass that is about to write could hold
anything. `IInv` adds that whoever is about to write holds the lock
(`WritersHoldTheLock`), that what a pass holds is still in the schedule
(`PassHasScheduled`), that what a hook holds is not cancelled (`NotRestored`), and
that every id seen is registered (`OnlyRegistered`), so that a new registration is
not a cancelled wake. Steps of the pass that change only its own memory are reduced
to that memory by one lemma, `PassGoesOn`.

The last two need `LInv` as well: ids are unique, and a pass has each wake in one place only
(`DistinctIds`); what it remembers is what the schedule holds (`PassMemory`); a wake that may
still be launched was launched at most once per kill (`LaunchCount`), because a pass that
ends without being killed has taken what it launched out of the schedule; and what a pass
that will write has dropped was launched, or has an equal that was or is kept (`Accounted`).

`ContinuationWatchdog_proofs` proves, for any sessions, times, attempts, evaluations and
bounds, assuming only `WatchdogAssumption` (they are naturals, and attempts, evaluations and
turns are not 0):

| theorem | statement |
|---|---|
| `WatchdogTypeCorrect` | `Spec => []TypeOK` |
| `ClaimsCountLaunches` | `Spec => []IInv` |
| `LaunchBudget` | `Spec => []LaunchesAreBounded` |
| `BaselineIsClosed` | `Spec => []BaselineIsLeftAlone` |
| `TurnsAreSeen` | `Spec => [](crashes = 0 => NoTurnIsMissed)` |
| `RepeatsAreLate` | `Spec => []OnlyLateLaunchesRepeat` |

The budget is kept by a counter that a crash can roll back, so `IInv` speaks of both copies
of the records: a record that is not terminal counts every launch of its turn, in the
stored state and, while the loop runs, in the pass's copy (`Covered`, `PassIsCovered`); the
turn at hand has attempts left until it is claimed (`HasAttemptsLeft`); and when the launch
comes, both copies count it already (`ClaimCounts`). `TypeOK` then bounds the count. Even
the types need this: that a claim does not count beyond `MaxHostAttempts` follows from
`HasAttemptsLeft`. `DoneHolds` and `GoOnHolds` reduce most steps of the loop to the
record they leave behind.

The other three add one invariant each. `BaselineKept`: the turns the first pass found have a
terminal record in both copies, and are never at hand. `TurnsKept`: during a pass, a turn that ended
is in its copy, still to visit, or in a transcript modified since the scan. A kill breaks
this, since the copy is lost and the time of the scan may have been stored, and
`watchdog_lost` shows that it must: hence `crashes = 0`. `MessagesKept`, of the turns without a
late launch: while a message is on its way, it is the only one of its turn, and in both copies the record
of the turn is terminal or its lease outlasts the way. It needs no assumption on the times, because a
launch after which the lease may be too short (`LateAt`) takes its turn out of it.

`PluginCutover_proofs` proves, for any number of sessions, versions, errands, failures and
kills, assuming only `CutoverAssumption` (the shared harness is one of the wakers, `None` is
neither a waker nor a session, there is a version, the other bounds are naturals) and
`BackupAssumption` (`None` is not a backup):

| theorem | statement |
|---|---|
| `Invariant` | `Spec => []IInv` |
| `TypeCorrect` | `Spec => []TypeOK` |
| `Recoverable` | `Spec => []RecoverableWhileOpen` |
| `Quiesced` | `Spec => []RestoresQuiesced` |
| `LegacyLast` | `Spec => []LegacyGoesLast` |
| `Atomic` | `Spec => AtomicCutover` |
| `Reported` | `Spec => ReportIsTrue` |

Whether a recovery works depends on where the run it recovers had come to, so none of the
properties is inductive. `IInv` says four things besides the types. `Exclusion`: whoever
works has the lock. `Shape`, of the files alone and therefore also after a kill: an undecided
cutover has a backup that recovery can use (`BackupIsGood`), whose wrapper is still there
to be restored, executable again, with the user's keys; a decided one left the user's keys
and a wrapper that runs. `Places_hold`, of a session by its place in the script: what the
updater has brought to the new version so far (`Converging`), what the installer has
promoted (`Promoting`), which of journal and guard exist during a commit (`Committing`),
which surfaces a rollback has restored already (`RollingBack`), and that the backup is a
copy of the deployment until the journal is written (`Preparing`). `LegacyGoesLast` is part
of it because a rollback to the pinned checkout needs the links.

A kill needs no case of its own: it changes no file, and a session at rest satisfies every
`Place`. The steps of the updater are reduced to two lemmas, one for steps that write
files inside an open cutover (`Writes`, `GoWrites`) and one for steps that only move on
(`Walks`); `Opens`, `Commits` and `Abandons` are the steps that decide. The refinement
hides everything an observer cannot see while a cutover is open: `Plugin` and `Supervisor`
are what recovery would leave, the backup's files if the cutover is undecided and the live
ones otherwise. Writing the journal is then `Open`, marking the guard `Commit`, unlinking
the journal at the end of a rollback `Abandon`, a step of the installer outside a cutover
`Maintain`, and every other step shows nothing (`NextRefines`).

A report is about a whole run. `RInv` follows what a session found at its start and where it
is kept until the end: the backup is a copy of it, or what the backup lacks is recorded in it (`BackedPlace`); a
rollback after a failure has restored the surfaces in their order (`RestoredPlace`); after the
commit everything is at one version and supervised (`CommittedPlace`); an install on its own
changes the LaunchAgent and the marker and remembers both for its undo (`UndonePlace`).

`SupervisorPass_proofs` proves, for any number of schedules, receipts, changes and kills,
assuming only `PassAssumption` (schedules and receipts are numbers, the bounds are naturals):

| theorem | statement |
|---|---|
| `PassInvariant` | `Spec => []IInv` |
| `PassTypeCorrect` | `Spec => []TypeOK` |
| `ExitTold` | `Spec => ExitIsTrue` |

`IInv` accounts for the lists of a pass at each place in it: as long as `scheduled_ok` holds,
what was listed is inspected or still to visit (`SchedulesCounted`); the receipts listed are
settled or still to visit until a refusal sets `exit_code` (`ReceiptsCounted`); and the one at
hand is one of those still to visit (`AtHand`), without which a command could settle another
one than it takes off the list.

`ScheduleQuarantine_proofs` proves, for any number of threads, contents, transactions, kills
and uninstalls, assuming only `QuarantineAssumption` (threads and transaction names are
finitely many, the bounds are naturals):

| theorem | statement |
|---|---|
| `TypeCorrect` | `Spec => []TypeOK` |
| `HazardsAreGone` | `Spec => []NoHazardIsLoaded` |
| `RefusalHasCause` | `Spec => RefusedWithCause` |
| `ContentsSurvive` | `Spec => NothingIsDestroyed` |

What is loaded at the end depends on every step before, of this install and of those that
died. Of the files alone `IInv` says: a directory without a manifest holds nothing
(`Preparations_empty`); an archived content is what was listed or newer, and older than a
file beside it (`Archives_older`); a listed content that is not in its archive is in the tree,
or a session has replaced it, and no two manifests wait for the same file (`Pending_present`).
Hence a kill needs no case of its own. Of the install: the transactions it does not have to
visit any more are settled (`Visited`), and what was due when it read the clock and is still
in the tree is in the data it is about to list (`Read_data`). `RefusalHasCause` then follows:
of the four refusals each contradicts one of these, unless a session wrote.

`StopGate_proofs` proves, for any beads, verifies and plans and any number of declarations and
faults, assuming only `GateAssumption` (beads are finitely many, the root is one and `None` is
not, the bounds are naturals):

| theorem | statement |
|---|---|
| `TypeCorrect` | `Spec => []TypeOK` |
| `SessionWithContractIsHeld` | `Spec => ConversationalIsFree` |
| `SteadyWorkIsSeen` | `Spec => SteadyWorkBlocks` |
| `TaskEndsClosed` | `Spec => TaskOutcomeIsClosed` |

The hook decides on answers that are old by the time it decides. `HookKnows` says which of
them still hold, at each of its places: once a contract has been declared the file is there,
whole or torn, so what is read is never absent (`FilesKnow`, `ContractKnown`); an active bead that
nobody changed but to let it wait was seen by the query that was made at its status, so after the
three queries it is older than the watermark or blocks (`QueueKnown`); and in task mode a root
that was read closed has not been live all the time, whoever reopens it, the scope in force is
the first one (`FilesKnow`), and what stood still below it was not ready when bd listed the ready
beads, nor waiting when it listed the blocked ones (`ScopeKnown`).

Only model-checked:

- `NoTurnIsMissed` after kills, with one session; with two it is false.
- The liveness properties (`CreationEnds`, `LandedWorkIsRetired`, `DueWakeIsServed`,
  `TurnIsDecided`, `PendingIsDecided`, `InstallConverges`, `TurnEnds`, `WorkIsReached`),
  which need reasoning about fairness that the proof system does not support.

## 12. What is left out

Of `WorktreeLifecycle`:

- The private temporary, hard link and adoption of the journaled lock file are one
  atomic `refLock`; packed refs, reflogs and empty parent directories of a ref are
  absent.
- Device and inode numbers are tokens; reuse of an inode number is not modelled.
- The bootstrap contract, its process group and the time limit are one step that
  succeeds or fails; what a bootstrap may do to its worktree is among the outside
  changes.
- Landing is membership in a set: the queries to GitHub and the live default branch,
  and the check of stashes, open files and running processes, are the event
  `preserve` or its absence.
- The fast-forward of the primary checkout after a completed finish.
- `rm -rf` of a worktree without `git worktree prune`, symlinked paths, file modes,
  and malformed receipts: the code refuses them all before it changes anything.
- Ignored files in a worktree, which `git worktree remove` deletes.
- A killed process's git command, which the model ends with it. In the code it may complete a
  moment later, when the kernel has released the locks already.
- A verification of a worktree that is in order does not fail over an error of git, and the
  rollback that would follow (`bin/escapement_worktree_recovery.py:245-249`) does not start there.
- Some steps are merged or left out: the release of a claimed ref and the phase
  `rollback_worktree_removed` that is written after it
  (`bin/escapement_worktree_rollback_ref.py:162-163`) are one step, so that no kill falls
  between them; the identity of a ref is recorded only when the branch has no owner, whereas the
  code does so before it looks (`:486`); and the commit of the prepared ref
  does not fail except by a kill.

Of `WakeSchedule`:

- Several schedules in one pass: each is locked, planned and rewritten by itself; only the
  age of the clock and the end of the process are shared, and both are in the model. Who
  is reached in a pass is `SupervisorPass`.
- Malformed entries, unknown kinds and a schedule file that is not trusted or not a
  list: they are dropped or the schedule is skipped before anything changes.
- `thread_id` and `model` in the key of a launch: one thread has one of the first,
  and the second varies like the prompt.
- The creator `execution-supervisor`, which the prune also removes and a
  registration does not: nothing writes it any more.
- The dry run, which neither locks nor writes.

Of `ContinuationWatchdog`:

- The parsing of transcripts row by row, the judge's prompt and answer, the wording
  and hash of the marker, and the environment of the launched process.
- An unreadable or deleted transcript and a malformed `state.json`: the first supersedes a
  turn, the second makes the next pass the first one.
- The backoff of the judge grows from five minutes to an hour; the model has one constant.
- The wait that is recorded when the session is active is never read, because the verdict
  is already there; it is left out.
- `seen_at` orders candidates; the model keeps that recorded ones come before new ones.
- The probe for a Codex writer, which only chooses the command.

Of `PluginCutover`:

- Loss of power: every write the helper makes is followed by an fsync, and the model has
  them in order; what the shell script writes without one is not reordered.
- Trust checks on paths, owners and modes (they end a run before it changes anything), and
  file modes other than the executable bit.
- Edits of `settings.json`, of wrappers or of the LaunchAgent by the user, and calls of
  `launchctl` by hand, during a cutover.
- `--dry-run`, which takes no lock and changes nothing.
- What `claude plugin update` does inside: it may install any later version and may reset
  the user's keys.
- A rollback whose recorded plugin directory has been deleted fails for ever (the mode of
  its files cannot be restored); plugin directories do not disappear in the model.

Of `SupervisorPass`: the checks of the registry and of the installed command before the
first receipt, which end the turn as an invalid entry does; the dry run; a `--threads-root`
other than the canonical one, for which `--fire` makes the legacy pass itself.

Of `ScheduleQuarantine`: the schedules of agents below a thread's directory, which `migrate`
does not look at; reading and archiving byte by byte, manifests that are not trusted
or malformed (a refusal before any change), the installer's undo, which is in
`PluginCutover`.

Of `StopGate`:

- The text of messages, patterns and prompts; the judge's cache of a verdict, which only
  saves a call; the incident log and the gate's signals, which nothing here reads.
- The bd and git questions that `_winddown_override` repeats to spare the judge.
- Outside task mode, a Stop without a working directory, in which the queue is not asked.
- Deletion of a bead, and molecules of more than two levels.
- The dependencies between beads: a bead becomes ready or waiting as if by itself.
- Deletion of `contract.json` or `session_mode.json`, which no program does.
- Several sessions on one thread directory; others appear as those who move beads.

Not modelled at all, and why:

- *Landing proof, activity, root synchronisation*: queries to GitHub, to the process table
  and a fast-forward; their outcomes are inputs of `finish`.
- *Outcome and incident records*: validation of single files without concurrency.
- *Hooks*: about sixty filters of one tool call; parsing. A few keep a marker file per session
  that is read and rewritten without a lock (`context_burn_detector.py`, `review_gate.py`,
  `_advisory_dedupe.py`, `discovery-close-gate.py`), so that two parallel tool calls may both
  get an advice that is meant to come once.
- *Command-line tools, renderers, plugin trees, Beads scripts, skills and rules*: text
  in, text out. The plugin trees under `plugins/` are generated copies of the harness and
  the hooks, which is most of the repository's lines: what is modelled here is modelled
  for the copies as well.
