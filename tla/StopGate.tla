------------------------------ MODULE StopGate ------------------------------
(***************************************************************************)
(* The Stop hook of one session (harness/bin/stop_hook.py main) with what  *)
(* it decides on: the contract (init_contract.py, derive_contract.py) and  *)
(* the verdict verify stamps on it, registered wakes, the task scope       *)
(* (task_mode_entry.py), the queue of bd, git and the pull request.        *)
(*                                                                         *)
(* The hook is a separate process that reads these one after the other;    *)
(* verify runs in the background, and sub-agents and other sessions change *)
(* beads meanwhile.  A watermark is the set of the beads older than it.    *)
(***************************************************************************)
EXTENDS Naturals, FiniteSets

CONSTANTS
  Beads, Root,       \* Root is the molecule the other beads belong to
  Verifiers,         \* runs of harness/bin/verify
  None,              \* no task scope
  Others,            \* whether anybody else changes beads
  Plans,             \* bound: what a session does, subsets of {"declare", "claim"}
  MaxDeclarations,   \* bound
  MaxFaults          \* bound: failed queries and writes, interrupted commands

ASSUME GateAssumption ==
  /\ IsFiniteSet(Beads) /\ Root \in Beads /\ None \notin Beads
  /\ Others \in BOOLEAN /\ Plans \subseteq SUBSET {"declare", "claim"}
  /\ {MaxDeclarations, MaxFaults} \subseteq Nat

VARIABLES
  beads,       \* what bd knows of each bead
  contract,    \* contract.json
  declaring,   \* the contract init_contract is about to write, or none
  declared,    \* contracts declared; not in the code
  start,       \* scope_watermark.json
  verify,      \* the runs of verify
  scheduled,   \* whether scheduled.json has a future entry
  entering,    \* claimed beads of which a hook of task_mode_entry.py runs
  mode,        \* session_mode.json: the root of the task's scope
  found,       \* whether Beads is found from the directory recorded with it
  first,       \* the scope that was recorded first; not in the code
  incident,    \* task_mode_incident.json
  turn,        \* of the session: "working", "stopping", "ended"
  active,      \* stop_hook_active
  released,    \* whether the last message of the user says to stop
  hook,        \* the Stop hook that runs
  outcome,     \* the reason why the turn could end
  plan,        \* what the session does
  faults

files == <<contract, declaring, declared, start, verify>>
task == <<entering, mode, found, first, incident>>
session == <<turn, active, released, outcome>>
vars == <<beads, files, scheduled, task, session, hook, plan, faults>>

-----------------------------------------------------------------------------
\* An open bead is "ready", or "waiting" for the beads it depends on.  "parked" are
\* bd's own statuses blocked and deferred, which somebody gave it.
Statuses == {"unfiled", "ready", "waiting", "in_progress", "parked", "closed"}
Active == {b \in Beads : beads[b] \in {"ready", "waiting", "in_progress"}}
Unfinished == {b \in Beads : beads[b] \notin {"unfiled", "closed"}}
Filed == {b \in Beads : beads[b] # "unfiled"}
Numbers == 0 .. MaxDeclarations

\* A "torn" contract is one that does not parse.  Of last_run is kept whether it
\* is green: a passing run, not older than five minutes.
Contracts ==
  [ state : {"absent", "torn", "whole"}, older : SUBSET Beads, passed : BOOLEAN ]
Missing == [state |-> "absent", older |-> {}, passed |-> FALSE]
Torn == [Missing EXCEPT !.state = "torn"]

Green(c) == c.passed

Runs ==
  [ pc : {"idle", "running", "loaded", "writing", "pruning"},
    contract : Contracts ]
NotRunning == [pc |-> "idle", contract |-> Missing]

Reasons ==
  {"none", "stop_hook_active", "user_released", "task_mode_incident_unresolved",
   "verification_passed", "wakeup_registered", "conversational",
   "verification_suppressed", "no_completion_or_resumption_proof",
   "implicit_queue_scoped", "verification_passed_git_work_remains",
   "verification_passed_unmerged_automerge_pr", "winddown_offer_work_remains",
   "parent_outcome_unresolved", "wakeup_blocker_unverified",
   "task_mode_bd_ready_failed", "task_mode_bd_unavailable", "tasks_remain_in_queue",
   "blocked_tasks_no_wakeup", "queue_drained"}

Marks == [known : BOOLEAN, older : SUBSET Beads]
Unknown == [known |-> FALSE, older |-> {}]

Hooks ==
  [ pc : {"idle", "mode", "contract", "decide", "watermark", "in_progress", "ready",
          "open", "git", "pr", "judge", "task", "wake_root", "wake_blockers",
          "task_ready", "task_root", "task_blocked", "task_drained"},
    reason : Reasons,
    contract : Contracts, mark : Marks, seen : SUBSET Beads,
    steady : SUBSET Beads,      \* what it has to see: active, and at most put to wait
                                \* since it started; less, once the watermark is read,
                                \* those older; none, once bd gave no answer that
                                \* parses; not in the code
    live : SUBSET Beads,        \* the root of the first scope, if unfinished all the
                                \* time since; not in the code
    declared : Numbers ]        \* when it started; not in the code
Resting ==
  [ pc |-> "idle", reason |-> "none", contract |-> Missing, mark |-> Unknown,
    seen |-> {}, live |-> {}, steady |-> {}, declared |-> 0 ]

TypeOK ==
  /\ beads \in [Beads -> Statuses]
  /\ contract \in Contracts /\ declaring \in Contracts /\ declared \in Numbers
  /\ start \in Marks /\ verify \in [Verifiers -> Runs]
  /\ scheduled \in BOOLEAN
  /\ entering \subseteq Beads /\ mode \in Beads \cup {None} /\ found \in BOOLEAN
  /\ first \in Beads \cup {None} /\ incident \in BOOLEAN
  /\ turn \in {"working", "stopping", "ended"}
  /\ active \in BOOLEAN /\ released \in BOOLEAN
  /\ hook \in Hooks /\ outcome \in Reasons
  /\ plan \in Plans
  /\ faults \in 0 .. MaxFaults

\* session_watermark.py, at the start of the session, is best effort.
Init ==
  /\ beads \in [Beads -> {"unfiled", "ready", "waiting"}] /\ beads[Root] = "ready"
  /\ contract = Missing /\ declaring = Missing /\ declared = 0
  /\ \/ start = [known |-> TRUE, older |-> Filed] /\ faults = 0
     \/ start = Unknown /\ faults = 1 /\ MaxFaults > 0
  /\ verify = [v \in Verifiers |-> NotRunning]
  /\ scheduled = FALSE /\ incident = FALSE
  /\ entering = {} /\ mode = None /\ found = FALSE /\ first = None
  /\ turn = "working" /\ active = FALSE /\ released = FALSE
  /\ hook = Resting /\ outcome = "none"
  /\ plan \in Plans

-----------------------------------------------------------------------------
(* The beads and the checkout, changed by the session at work or by others. *)

Somebody == turn = "working" \/ Others

MoveBead(b, status) ==
  /\ beads' = [beads EXCEPT ![b] = status]
  /\ hook' = [hook EXCEPT
       !.live = IF status = "closed" THEN @ \ {b} ELSE @,
       !.steady = IF beads[b] = "ready" /\ status = "waiting" THEN @ ELSE @ \ {b}]
  /\ UNCHANGED <<files, scheduled, task, session, plan, faults>>

File(b) ==
  /\ Somebody /\ beads[b] = "unfiled"
  /\ \E status \in {"ready", "waiting"} : MoveBead(b, status)

\* bd lets anybody take a bead, release, park, close or reopen it, and add or drop
\* what it depends on.
Update(b) ==
  /\ Somebody /\ b \in Filed
  /\ \E status \in Statuses \ {"unfiled", beads[b]} : MoveBead(b, status)

-----------------------------------------------------------------------------
(* init_contract.py and derive_contract.py: the new contract is stamped,   *)
(* then the file is truncated, then written.                               *)

others == <<beads, scheduled, task, session, hook, plan>>

Declare ==
  /\ turn = "working" /\ "declare" \in plan
  /\ declaring = Missing /\ declared < MaxDeclarations
  /\ declared' = declared + 1
  /\ declaring' = [Missing EXCEPT !.state = "whole", !.older = Filed]
  /\ contract' = Torn
  /\ UNCHANGED <<others, start, verify, faults>>

\* Two writers that both truncated the file write over each other, and the
\* longer text leaves its tail behind the shorter one.
Overwrite(new) ==
  \/ contract' = new
  \/ contract.state = "whole" /\ contract' = Torn

DeclareWrites ==
  /\ declaring # Missing /\ Overwrite(declaring)
  /\ declaring' = Missing
  /\ UNCHANGED <<others, declared, start, verify, faults>>

DeclareDies ==
  /\ declaring # Missing /\ faults < MaxFaults
  /\ declaring' = Missing /\ faults' = faults + 1
  /\ UNCHANGED <<others, contract, declared, start, verify>>

-----------------------------------------------------------------------------
(* harness/bin/verify.                                                     *)

base == <<beads, task, session, hook, plan, declaring, declared, start, faults>>
Goes(v, run) == verify' = [verify EXCEPT ![v] = run]

VerifyStarts(v) ==
  /\ turn = "working" /\ verify[v].pc = "idle" /\ contract.state = "whole"
  /\ Goes(v, [NotRunning EXCEPT !.pc = "running"])
  /\ UNCHANGED <<base, contract, scheduled>>

Reported(ok) == IF ok THEN [NotRunning EXCEPT !.pc = "pruning"] ELSE NotRunning

\* The command has run, and the contract is read again.  When it does not parse
\* now, nothing is stamped, and the script goes on: it has no set -e.
VerifyLoads(v) ==
  /\ verify[v].pc = "running"
  /\ \E ok \in BOOLEAN :
       Goes(v, IF contract.state = "whole"
                 THEN [pc |-> "loaded", contract |-> [contract EXCEPT !.passed = ok]]
                 ELSE Reported(ok))
  /\ UNCHANGED <<base, contract, scheduled>>

VerifyTruncates(v) ==
  /\ verify[v].pc = "loaded"
  /\ contract' = Torn
  /\ Goes(v, [verify[v] EXCEPT !.pc = "writing"])
  /\ UNCHANGED <<base, scheduled>>

VerifyWrites(v) ==
  /\ verify[v].pc = "writing"
  /\ Overwrite(verify[v].contract)
  /\ Goes(v, Reported(verify[v].contract.passed))
  /\ UNCHANGED <<base, scheduled>>

\* The prune gives up when the schedule is locked.
VerifyPrunes(v) ==
  /\ verify[v].pc = "pruning"
  /\ scheduled' \in {FALSE, scheduled}
  /\ Goes(v, NotRunning)
  /\ UNCHANGED <<base, contract>>

VerifyDies(v) ==
  /\ verify[v].pc # "idle" /\ faults < MaxFaults
  /\ faults' = faults + 1 /\ Goes(v, NotRunning)
  /\ UNCHANGED <<beads, task, session, hook, plan, declaring, declared, start,
                 contract, scheduled>>

\* CURRENT_TURN_WINDOW_SECONDS after the run.
Expire ==
  /\ contract.passed /\ contract' = [contract EXCEPT !.passed = FALSE]
  /\ UNCHANGED <<base, verify, scheduled>>

-----------------------------------------------------------------------------
(* Wakes, and the task scope.                                              *)

RegisterWake ==
  /\ turn = "working" /\ ~scheduled /\ scheduled' = TRUE
  /\ UNCHANGED <<beads, files, task, session, hook, plan, faults>>

\* The time of the last future wake comes, or a waker prunes it.
WakeComes ==
  /\ scheduled /\ scheduled' = FALSE
  /\ UNCHANGED <<beads, files, task, session, hook, plan, faults>>

\* The root of the molecule, or the claimed bead when a bd show of the walk fails.
Walk(b, scope) ==
  \/ scope = Root /\ UNCHANGED faults
  \/ scope = b /\ faults < MaxFaults /\ faults' = faults + 1

\* Fault: a later claim moves the scope.
FirstClaim_LastWins(scope) == mode' = scope

FirstClaim(scope) == mode' = IF mode = None THEN scope ELSE mode

\* When the scope cannot be recorded an incident is, unless that fails too.
RecordFails ==
  /\ faults < MaxFaults /\ faults' = faults + 1
  /\ incident' \in {incident, TRUE} /\ UNCHANGED mode

\* bd update <b> --claim; the PostToolUse hooks of parallel claims run side by side.
Claim(b) ==
  /\ turn = "working" /\ "claim" \in plan /\ beads[b] = "ready"
  /\ beads' = [beads EXCEPT ![b] = "in_progress"]
  /\ entering' = entering \cup {b}
  /\ UNCHANGED <<files, scheduled, mode, found, first, incident, session, hook, plan,
                 faults>>

\* task_mode_entry.py: the walk, and the record under the lock of its file.  In the
\* directory recorded with the scope Beads may be found or not.
Enter(b) ==
  /\ b \in entering /\ entering' = entering \ {b}
  /\ \/ \E scope \in {Root, b} :
          /\ Walk(b, scope) /\ FirstClaim(scope)
          /\ first' = IF first = None THEN scope ELSE first
          /\ found' \in IF mode = None THEN BOOLEAN ELSE {found}
          /\ UNCHANGED incident
     \/ RecordFails /\ UNCHANGED <<found, first>>
  /\ UNCHANGED <<beads, files, scheduled, session, hook, plan>>

\* The host kills the hook.
EnterDies(b) ==
  /\ b \in entering /\ entering' = entering \ {b}
  /\ faults < MaxFaults /\ faults' = faults + 1
  /\ UNCHANGED <<beads, files, scheduled, mode, found, first, incident, session, hook,
                 plan>>

-----------------------------------------------------------------------------
(* The Stop hook.                                                          *)

still == <<beads, files, scheduled, task, plan, released>>
sure == <<still, turn, active, outcome>>

Allow(reason) ==
  /\ turn' = "ended" /\ outcome' = reason /\ hook' = Resting
  /\ UNCHANGED active

\* The turn goes on, and the next Stop has stop_hook_active set.  The reason
\* words the message.
Deny(reason) ==
  /\ turn' = "working" /\ active' = TRUE /\ hook' = Resting
  /\ reason \in Reasons /\ UNCHANGED outcome

\* Fault: stop_hook_active is not looked at.
Stop_IgnoresActive ==
  /\ turn = "working" /\ declaring = Missing /\ entering = {}
  /\ \/ released /\ Allow("user_released")
     \/ /\ ~released /\ turn' = "stopping"
        /\ hook' = [Resting EXCEPT !.pc = "mode", !.live = Unfinished \cap {first},
                                   !.steady = Active, !.declared = declared]
        /\ UNCHANGED <<active, outcome>>
  /\ UNCHANGED <<still, faults>>

\* The hooks of its tools have ended when the session stops.
Stop ==
  /\ turn = "working" /\ declaring = Missing /\ entering = {}
  /\ \/ active /\ Allow("stop_hook_active")
     \/ ~active /\ released /\ Allow("user_released")
     \/ /\ ~active /\ ~released /\ turn' = "stopping"
        /\ hook' = [Resting EXCEPT !.pc = "mode", !.live = Unfinished \cap {first},
                                   !.steady = Active, !.declared = declared]
        /\ UNCHANGED <<active, outcome>>
  /\ UNCHANGED <<still, faults>>

LoadMode ==
  /\ hook.pc = "mode"
  /\ \/ incident /\ Deny("task_mode_incident_unresolved")
     \/ /\ ~incident
        /\ hook' = [hook EXCEPT !.pc = IF mode = None THEN "contract" ELSE "task"]
        /\ UNCHANGED <<turn, active, outcome>>
  /\ UNCHANGED <<still, faults>>

\* Fault: a contract that does not parse counts as none.
LoadContract_Lenient ==
  /\ hook.pc = "contract"
  /\ hook' = [hook EXCEPT !.pc = "decide",
                !.contract = IF contract.state = "torn" THEN Missing ELSE contract]
  /\ UNCHANGED <<sure, faults>>

LoadContract ==
  /\ hook.pc = "contract"
  /\ hook' = [hook EXCEPT !.pc = "decide", !.contract = contract]
  /\ UNCHANGED <<sure, faults>>

\* would_block_stop.  Whether the command of a green contract is one that cannot
\* fail is for verify_integrity.py to say.
Decide ==
  LET c == hook.contract
      goOn(reason, place) ==
        /\ hook' = [hook EXCEPT !.pc = place, !.reason = reason,
                     !.contract = Missing]
        /\ UNCHANGED <<turn, active, outcome>>
  IN  /\ hook.pc = "decide"
      /\ \/ Green(c) /\ goOn("verification_passed", "watermark")
         \/ scheduled /\ goOn("wakeup_registered", "watermark")
         \/ ~scheduled /\ Green(c) /\ Deny("verification_suppressed")
         \/ ~scheduled /\ c.state = "absent" /\ goOn("conversational", "judge")
         \/ /\ ~scheduled /\ ~Green(c) /\ c.state # "absent"
            /\ Deny("no_completion_or_resumption_proof")
      /\ UNCHANGED <<still, faults>>

-----------------------------------------------------------------------------
(* _check_bd_queue_implicit: in_progress, ready, open, one query each.     *)

Watermark ==
  IF contract.state = "whole" THEN [known |-> TRUE, older |-> contract.older] ELSE start

\* Fault: the query for open beads is dropped, bd ready lists them already.
Listed_NoOpen(query) ==
  CASE query = "in_progress" -> {b \in Beads : beads[b] = "in_progress"}
    [] query = "ready" -> {b \in Beads : beads[b] = "ready"}
    [] query = "open" -> {}

\* What is parked, no query lists.
Listed(query) ==
  CASE query = "in_progress" -> {b \in Beads : beads[b] = "in_progress"}
    [] query = "ready" -> {b \in Beads : beads[b] = "ready"}
    [] query = "open" -> {b \in Beads : beads[b] \in {"ready", "waiting"}}

Then(query) == CASE query = "in_progress" -> "ready" [] query = "ready" -> "open"

\* What follows when bd shows no work, or cannot.
Drained(h) ==
  [h EXCEPT !.seen = {}, !.pc = IF h.reason = "verification_passed" THEN "git" ELSE "judge"]

LoadWatermark ==
  /\ hook.pc = "watermark"
  /\ hook' = IF Watermark.known
               THEN [hook EXCEPT !.pc = "in_progress", !.mark = Watermark,
                                 !.steady = @ \ Watermark.older]
               ELSE Drained(hook)
  /\ UNCHANGED <<sure, faults>>

\* After the last of them, a bead seen that is not older than the watermark blocks.
AfterQuery(h) ==
  \/ /\ h.pc # "open" /\ hook' = [h EXCEPT !.pc = Then(h.pc)]
     /\ UNCHANGED <<turn, active, outcome>>
  \/ /\ h.pc = "open" /\ h.seen = {} /\ hook' = Drained(h)
     /\ UNCHANGED <<turn, active, outcome>>
  \/ /\ h.pc = "open" /\ h.seen # {}
     /\ Deny("implicit_queue_scoped")

Query ==
  /\ hook.pc \in {"in_progress", "ready", "open"}
  /\ AfterQuery([hook EXCEPT !.seen = @ \cup (Listed(hook.pc) \ hook.mark.older)])
  /\ UNCHANGED <<still, faults>>

\* Without an answer the queue counts as drained; an answer that holds no beads
\* counts as empty.
QueryFails ==
  LET h == [hook EXCEPT !.steady = {}]
  IN  /\ hook.pc \in {"in_progress", "ready", "open"}
      /\ faults < MaxFaults /\ faults' = faults + 1
      /\ \/ hook' = Drained(h) /\ UNCHANGED <<turn, active, outcome>>
         \/ AfterQuery(h)
      /\ UNCHANGED still

\* _git_work_remains, then _unmerged_automerge_pr: a dirty or unpushed checkout
\* blocks, and so does an open pull request in a repository that merges by itself.
Git ==
  /\ hook.pc = "git"
  /\ \/ Deny("verification_passed_git_work_remains")
     \/ hook' = [hook EXCEPT !.pc = "pr"] /\ UNCHANGED <<turn, active, outcome>>
  /\ UNCHANGED <<still, faults>>

PullRequest ==
  /\ hook.pc = "pr"
  /\ \/ Deny("verification_passed_unmerged_automerge_pr")
     \/ Allow(hook.reason)
  /\ UNCHANGED <<still, faults>>

\* _winddown_override: the judge is asked whether the last message offers to wind
\* down.  That it asks bd and git again, to spare the judge, is left out.
Judge ==
  /\ hook.pc = "judge"
  /\ \/ Allow(hook.reason)
     \/ Deny("winddown_offer_work_remains")
  /\ UNCHANGED <<still, faults>>

-----------------------------------------------------------------------------
(* In task mode: the wake path, else check_task_scope.                     *)

Below(scope) == IF scope = Root THEN Beads \ {Root} ELSE {}

\* bd blocked lists what waits; of the parked beads and those in progress it lists
\* the ones with an unfinished dependency.
Blocked(answer) ==
  /\ answer \subseteq {b \in Below(mode) : beads[b] \in {"waiting", "parked", "in_progress"}}
  /\ {b \in Below(mode) : beads[b] = "waiting"} \subseteq answer

At(place) == hook' = [hook EXCEPT !.pc = place] /\ UNCHANGED <<turn, active, outcome>>

TaskMode ==
  /\ hook.pc = "task"
  /\ At(IF scheduled THEN "wake_root" ELSE "task_ready")
  /\ UNCHANGED <<still, faults>>

\* Fault: a wake is taken as proof that the root is done.
WakeRoot_Trusts ==
  /\ hook.pc = "wake_root"
  /\ At("wake_blockers")
  /\ UNCHANGED <<still, faults>>

WakeRoot ==
  /\ hook.pc = "wake_root"
  /\ \/ beads[mode] = "closed" /\ At("wake_blockers")
     \/ beads[mode] # "closed" /\ Deny("parent_outcome_unresolved")
  /\ UNCHANGED <<still, faults>>

\* Whether a blocker is substantiated is for blocker_verify.py to say.
WakeBlockers ==
  /\ hook.pc = "wake_blockers"
  /\ \/ Allow("wakeup_registered")
     \/ \E answer \in SUBSET Below(mode) :
          /\ Blocked(answer) /\ ~(answer \subseteq Watermark.older)
          /\ Deny("wakeup_blocker_unverified")
  /\ UNCHANGED <<still, faults>>

TaskReady ==
  /\ hook.pc = "task_ready"
  /\ LET ready == Below(mode) \cap Listed("ready")
     IN  \/ ready # {} /\ Deny("tasks_remain_in_queue")
         \/ ready = {} /\ At("task_root")
  /\ UNCHANGED <<still, faults>>

TaskRoot ==
  /\ hook.pc = "task_root"
  /\ \/ beads[mode] = "closed" /\ At("task_blocked")
     \/ beads[mode] # "closed" /\ Deny("parent_outcome_unresolved")
  /\ UNCHANGED <<still, faults>>

TaskBlocked ==
  /\ hook.pc = "task_blocked"
  /\ \E answer \in SUBSET Below(mode) :
       /\ Blocked(answer)
       /\ \/ answer = {} /\ At("task_drained")
          \/ answer # {} /\ Deny("blocked_tasks_no_wakeup")
  /\ UNCHANGED <<still, faults>>

\* Fault: a reason that no reader knows.
TaskEnds_Renamed ==
  /\ hook.pc = "task_drained"
  /\ Allow("task_queue_drained")
  /\ UNCHANGED <<still, faults>>

TaskEnds ==
  /\ hook.pc = "task_drained"
  /\ Allow("queue_drained")
  /\ UNCHANGED <<still, faults>>

\* A query without an answer blocks where Beads is found, and elsewhere ends the
\* turn; but an answer that does not parse counts as an empty one.
TaskFails ==
  LET empty(place) ==
        /\ hook' = [hook EXCEPT !.pc = place, !.steady = {}]
        /\ UNCHANGED <<turn, active, outcome>>
  IN  /\ faults < MaxFaults /\ faults' = faults + 1
      /\ \/ hook.pc \in {"wake_root", "task_root"} /\ Deny("parent_outcome_unresolved")
         \/ /\ hook.pc \in {"task_ready", "task_blocked"} /\ found
            /\ Deny("task_mode_bd_ready_failed")
         \/ hook.pc = "task_ready" /\ ~found /\ Allow("task_mode_bd_unavailable")
         \/ hook.pc = "task_ready" /\ empty("task_root")
         \/ hook.pc = "task_blocked" /\ empty("task_drained")
      /\ UNCHANGED still

-----------------------------------------------------------------------------
UserPrompt ==
  /\ turn = "ended" /\ turn' = "working" /\ active' = FALSE
  /\ released' \in BOOLEAN /\ outcome' = "none"
  /\ UNCHANGED <<beads, files, scheduled, task, hook, plan, faults>>

StopHook ==
  \/ LoadMode \/ LoadContract \/ Decide
  \/ LoadWatermark \/ Query \/ QueryFails \/ Git \/ PullRequest \/ Judge
  \/ TaskMode \/ WakeRoot \/ WakeBlockers
  \/ TaskReady \/ TaskRoot \/ TaskBlocked \/ TaskEnds \/ TaskFails

Declaring == DeclareWrites \/ DeclareDies
Entering == \E b \in Beads : Enter(b) \/ EnterDies(b)

Verifying(v) ==
  \/ VerifyStarts(v) \/ VerifyLoads(v) \/ VerifyTruncates(v)
  \/ VerifyWrites(v) \/ VerifyPrunes(v) \/ VerifyDies(v)

Next ==
  \/ \E b \in Beads : File(b) \/ Update(b) \/ Claim(b)
  \/ Entering
  \/ Declare \/ Declaring \/ Expire
  \/ \E v \in Verifiers : Verifying(v)
  \/ RegisterWake \/ WakeComes
  \/ Stop \/ StopHook \/ UserPrompt

Spec == Init /\ [][Next]_vars

\* The host's commands and hooks end, those of the parallel tools of one message
\* before the next message; and a session that can stop again and again does so in
\* the end.  No declaration is under way while the Stop hook runs, so that one
\* condition serves both.
LiveSpec ==
  /\ Spec /\ WF_vars(Declaring \/ StopHook)
  /\ WF_vars(Entering) /\ SF_vars(Entering /\ entering' = {})
  /\ SF_vars(Stop)

-----------------------------------------------------------------------------
(* Properties.                                                             *)

Ends(reasons) == turn # "ended" /\ turn' = "ended" /\ outcome' \in reasons

\* A session whose contract was declared before the hook started is not let go
\* as one without a contract, whatever init_contract and verify were doing to the
\* file, and wherever they died.
ConversationalIsFree ==
  [][Ends({"conversational"}) => hook.declared = 0]_vars

\* Outside task mode a verdict or a wake ends the turn only if every bead that was
\* active when the hook started, and that nobody changed since but to let it wait,
\* is older than the watermark in force; or if bd did not answer.
SteadyWorkBlocks ==
  [][Ends({"verification_passed", "wakeup_registered"}) /\ mode = None =>
       ~hook.mark.known \/ hook.steady = {}]_vars

\* In task mode, where the first claim of the session set the scope, nothing but
\* the user, a second Stop in a row or a place without Beads ends a turn unless the
\* root of that scope was closed at some moment since the hook started; and of a
\* drained queue, every bead that nobody changed since but to let it wait is in
\* progress, if bd answered.
TaskOutcomeIsClosed ==
  [][Ends(Reasons \ {"stop_hook_active", "user_released"}) /\ first # None =>
       /\ \/ first \notin hook.live
          \/ ~found /\ outcome' = "task_mode_bd_unavailable"
       /\ outcome' = "queue_drained" =>
            \A b \in hook.steady \cap Below(first) : beads[b] = "in_progress"]_vars

\* The gate is no trap: every turn ends, whatever the gate finds.
TurnEnds == (turn = "working") ~> (turn = "ended")
=============================================================================
