--------------------------- MODULE SupervisorPass ---------------------------
(***************************************************************************)
(* What launchd runs every minute: wakeup_waker.py --fire, which makes a   *)
(* pass of the watchdog and starts a detached wakeup_waker.py              *)
(* --legacy-fire, and that one's pass over all schedules and, with         *)
(* worktree_lifecycle_supervisor.py, over all receipts.                    *)
(*                                                                         *)
(* This module composes what WakeSchedule, ContinuationWatchdog and        *)
(* WorktreeLifecycle model one by one: who is served, whatever state the   *)
(* others are in.  Schedules and receipts are numbered in the order of     *)
(* their names, in which a pass visits them.                               *)
(***************************************************************************)
EXTENDS Naturals

CONSTANTS
  Schedules, Receipts,   \* numbers
  MaxChanges,            \* bound: what others do to schedules and receipts
  MaxFaults              \* bound: processes killed or not started

ASSUME PassAssumption ==
  /\ Schedules \subseteq Nat /\ Receipts \subseteq Nat
  /\ MaxChanges \in Nat /\ MaxFaults \in Nat

VARIABLES
  condition,    \* per schedule: what the waker will find
  busy,         \* schedules whose lock a hook or verify holds
  phase,        \* per receipt: its file
  answer,       \* per receipt: what escapement-worktree will come to
  tick,         \* the --fire process
  pass,         \* the --legacy-fire process, which holds legacy-fire.json.lock
  exit,         \* exit code of the last pass, 0 while one runs
  changes, faults

vars == <<condition, busy, phase, answer, tick, pass, exit, changes, faults>>
world == <<condition, busy, phase, answer, changes>>

-----------------------------------------------------------------------------
\* unreadable: not JSON, or not a list.  faulty: its actor has no repository, or
\* a check or a launch fails.  raising: an exception that main does not catch,
\* like bytes that are not UTF-8, a lock file that cannot be opened, a full disk.
Conditions == {"absent", "untrusted", "unreadable", "faulty", "raising", "sound"}
\* foreign: something that is not a well-formed receipt.
Phases == {"absent", "foreign", "creation", "created"}
Answers == {"completed", "pending", "fails", "hangs"}

Passes ==
  [ pc : {"idle", "schedules", "locked", "receipts", "command", "report"},
    schedules : SUBSET Schedules, receipts : SUBSET Receipts,   \* still to visit
    listed : SUBSET Schedules, entries : SUBSET Receipts,       \* all it has listed
    creating : BOOLEAN,                  \* the receipt at hand was read as a creation
    scheduled_ok : BOOLEAN, exit_code : {0, 1},
    inspected : SUBSET Schedules, checked : SUBSET Receipts ]
NoPass ==
  [ pc |-> "idle", schedules |-> {}, receipts |-> {}, listed |-> {}, entries |-> {},
    creating |-> FALSE, scheduled_ok |-> TRUE, exit_code |-> 0,
    inspected |-> {}, checked |-> {} ]

TypeOK ==
  /\ condition \in [Schedules -> Conditions] /\ busy \subseteq Schedules
  /\ phase \in [Receipts -> Phases] /\ answer \in [Receipts -> Answers]
  /\ tick \in {"off", "launch"} /\ pass \in Passes /\ exit \in {0, 1}
  /\ changes \in 0 .. MaxChanges /\ faults \in 0 .. MaxFaults

\* The supervisor is installed where sessions have worked before.
Init ==
  /\ condition = [s \in Schedules |-> "sound"] /\ busy = {}
  /\ \E p \in {"creation", "created"} : phase = [r \in Receipts |-> p]
  /\ answer = [r \in Receipts |-> "pending"]
  /\ tick = "off" /\ pass = NoPass /\ exit = 0
  /\ changes = 0 /\ faults = 0

\* The one that comes first in S.
First(S) == CHOOSE n \in S : \A m \in S : n <= m
At(place) == pass.pc = place
Go(p) == pass' = p /\ UNCHANGED <<world, tick, exit, faults>>

-----------------------------------------------------------------------------
(* The --fire process.                                                     *)

\* run_once ends or raises; either way the legacy pass is launched.
Watchdog ==
  /\ tick = "off" /\ tick' = "launch"
  /\ UNCHANGED <<world, pass, exit, faults>>

Start ==
  [NoPass EXCEPT !.pc = "schedules",
     !.schedules = {s \in Schedules : condition[s] # "absent"},
     !.listed = {s \in Schedules : condition[s] # "absent"}]

\* A second legacy pass finds the lock taken and ends.
Launch ==
  /\ tick = "launch" /\ tick' = "off"
  /\ pass' = IF At("idle") THEN Start ELSE pass
  /\ exit' = IF At("idle") THEN 0 ELSE exit
  /\ UNCHANGED <<world, faults>>

\* The --fire process is killed, or cannot start another one.
LaunchFails ==
  /\ tick = "launch" /\ tick' = "off"
  /\ faults < MaxFaults /\ faults' = faults + 1
  /\ UNCHANGED <<world, pass, exit>>

Tick == Watchdog \/ Launch

-----------------------------------------------------------------------------
(* The legacy pass: schedules.                                             *)

Visited(s) == [pass EXCEPT !.pc = "schedules", !.schedules = @ \ {s}]

\* Fault: a schedule that is locked is left to the next pass without a word.
SkipLocked_Silently ==
  /\ At("schedules") /\ pass.schedules # {}
  /\ LET s == First(pass.schedules) IN
       /\ condition[s] \notin {"absent", "untrusted"} /\ s \in busy
       /\ Go(Visited(s))

SkipLocked ==
  /\ At("schedules") /\ pass.schedules # {}
  /\ LET s == First(pass.schedules) IN
       /\ condition[s] \notin {"absent", "untrusted"} /\ s \in busy
       /\ Go([Visited(s) EXCEPT !.scheduled_ok = FALSE])

\* A schedule that is gone by now is no trusted file either.
SkipUntrusted ==
  /\ At("schedules") /\ pass.schedules # {}
  /\ LET s == First(pass.schedules) IN
       /\ condition[s] \in {"absent", "untrusted"}
       /\ Go([Visited(s) EXCEPT !.scheduled_ok = FALSE])

Lock(s) ==
  /\ At("schedules") /\ s \in pass.schedules /\ s = First(pass.schedules)
  /\ condition[s] \notin {"absent", "untrusted"} /\ s \notin busy
  /\ Go([pass EXCEPT !.pc = "locked"])

\* Load, plan, launch and rewrite, which WakeSchedule models step by step.
Inspect ==
  /\ At("locked")
  /\ LET s == First(pass.schedules) IN
       \/ /\ condition[s] \in {"absent", "unreadable"}
          /\ Go([Visited(s) EXCEPT !.scheduled_ok = FALSE])
       \/ /\ condition[s] = "faulty"
          /\ Go([Visited(s) EXCEPT !.scheduled_ok = FALSE, !.exit_code = 1])
       \/ /\ condition[s] \in {"sound", "untrusted"}
          /\ Go([Visited(s) EXCEPT !.inspected = @ \cup {s}])

-----------------------------------------------------------------------------
(* The legacy pass: reconcile.                                             *)

Listing == {r \in Receipts : phase[r] # "absent"}

\* Fault: schedules that could not be inspected keep the receipts waiting.
Reconcile_Gated ==
  /\ At("schedules") /\ pass.schedules = {}
  /\ Go(IF pass.scheduled_ok
          THEN [pass EXCEPT !.pc = "receipts", !.receipts = Listing, !.entries = Listing]
          ELSE [pass EXCEPT !.pc = "report"])

Reconcile ==
  /\ At("schedules") /\ pass.schedules = {}
  /\ Go([pass EXCEPT !.pc = "receipts", !.receipts = Listing, !.entries = Listing])

\* Fault: failures are counted.
Refuse_Counting == [pass EXCEPT !.pc = "report", !.exit_code = @ + 1]

Refuse == [pass EXCEPT !.pc = "report", !.exit_code = 1]

\* What is no receipt, or none any more, ends the turn.
RefuseEntry ==
  /\ At("receipts") /\ pass.receipts # {}
  /\ phase[First(pass.receipts)] \in {"absent", "foreign"}
  /\ Go(Refuse)

\* The phase decides between recover and finish.
ReadReceipt(r) ==
  /\ At("receipts") /\ r \in pass.receipts /\ r = First(pass.receipts)
  /\ phase[r] \in {"creation", "created"}
  /\ Go([pass EXCEPT !.pc = "command", !.creating = (phase[r] = "creation")])

\* What escapement-worktree finds may differ from what was read: recover of a
\* receipt that is gone is complete, of one that is created by now pending, and so
\* is finish of a creation; finish of one that is gone fails, unless it goes after
\* the first of two looks.
Results(r) ==
  IF phase[r] = "absent"
    THEN {"completed"} \cup IF pass.creating THEN {} ELSE {"fails"}
  ELSE IF phase[r] = "foreign" THEN {"fails"}
  ELSE IF pass.creating # (phase[r] = "creation") THEN {"pending"}
  ELSE {answer[r]}

Command ==
  /\ At("command")
  /\ LET r == First(pass.receipts) IN
       /\ \/ "completed" \in Results(r) /\ phase' = [phase EXCEPT ![r] = "absent"]
          \/ "pending" \in Results(r) /\ UNCHANGED phase
       /\ pass' = [pass EXCEPT !.pc = "receipts", !.receipts = @ \ {r},
                               !.checked = @ \cup {r}]
  /\ UNCHANGED <<condition, busy, answer, tick, exit, changes, faults>>

CommandFails ==
  /\ At("command") /\ "fails" \in Results(First(pass.receipts))
  /\ Go(Refuse)

Reconciled ==
  /\ At("receipts") /\ pass.receipts = {}
  /\ Go([pass EXCEPT !.pc = "report"])

-----------------------------------------------------------------------------
(* The end of a pass.                                                      *)

Ends(code) ==
  /\ pass' = NoPass /\ exit' = code
  /\ UNCHANGED <<world, tick>>

Report ==
  /\ At("report") /\ UNCHANGED faults
  /\ Ends(IF pass.scheduled_ok THEN pass.exit_code ELSE 1)

\* main catches neither what the schedule store raises nor the TimeoutExpired of
\* a command that takes longer than 180 seconds.
Escapes ==
  /\ \/ At("locked") /\ condition[First(pass.schedules)] = "raising"
     \/ At("command") /\ "hangs" \in Results(First(pass.receipts))
  /\ Ends(1) /\ UNCHANGED faults

Killed ==
  /\ ~At("idle") /\ faults < MaxFaults /\ faults' = faults + 1
  /\ Ends(1)

Pass ==
  \/ SkipLocked \/ SkipUntrusted \/ (\E s \in Schedules : Lock(s)) \/ Inspect
  \/ Reconcile \/ RefuseEntry \/ (\E r \in Receipts : ReadReceipt(r))
  \/ Command \/ CommandFails \/ Reconciled \/ Report \/ Escapes

-----------------------------------------------------------------------------
(* Everybody else.                                                         *)

\* A session, a user, a full disk.
ScheduleChanges(s) ==
  /\ changes < MaxChanges /\ changes' = changes + 1
  /\ \E c \in Conditions \ {condition[s]} : condition' = [condition EXCEPT ![s] = c]
  /\ UNCHANGED <<busy, phase, answer, tick, pass, exit, faults>>

\* A hook or verify locks a schedule, for a moment.
HookLocks(s) ==
  /\ changes < MaxChanges /\ changes' = changes + 1
  /\ s \notin busy /\ ~(At("locked") /\ s = First(pass.schedules))
  /\ busy' = busy \cup {s}
  /\ UNCHANGED <<condition, phase, answer, tick, pass, exit, faults>>
HookUnlocks(s) ==
  /\ s \in busy /\ busy' = busy \ {s}
  /\ UNCHANGED <<condition, phase, answer, tick, pass, exit, changes, faults>>

\* create and finish by their users; what becomes of the branch.
ReceiptChanges(r) ==
  /\ changes < MaxChanges /\ changes' = changes + 1
  /\ \E p \in Phases, a \in Answers :
       /\ phase[r] \in {"created", "foreign"} => p # "creation"
       /\ <<p, a>> # <<phase[r], answer[r]>>
       /\ phase' = [phase EXCEPT ![r] = p]
       /\ answer' = [answer EXCEPT ![r] = a]
  /\ UNCHANGED <<condition, busy, tick, pass, exit, faults>>

Others ==
  \/ \E s \in Schedules : ScheduleChanges(s) \/ HookLocks(s) \/ HookUnlocks(s)
  \/ \E r \in Receipts : ReceiptChanges(r)

Next == Tick \/ LaunchFails \/ Pass \/ Killed \/ Others

Spec == Init /\ [][Next]_vars

\* launchd starts the job every minute; a command of a pass ends or is ended.
LiveSpec == Spec /\ WF_vars(Tick) /\ WF_vars(Pass)

-----------------------------------------------------------------------------
(* Properties.                                                             *)

\* An exit code of 0 is the truth about everything the pass has listed: every
\* schedule was planned and launched without a failure, every receipt was settled
\* or is pending, whatever changed meanwhile.
ExitIsTrue ==
  [][Report /\ exit' = 0 =>
       pass.listed = pass.inspected /\ pass.entries = pass.checked]_vars

\* A trusted schedule that nobody has locked is visited again and again, and so
\* is a receipt that no failing one comes before: what is untrusted, locked,
\* unreadable or faulty keeps nobody else waiting.
Clear(r) ==
  \/ phase[r] = "absent"
  \/ phase[r] \in {"creation", "created"} /\ answer[r] \in {"completed", "pending"}
Quiet(s) == condition[s] # "raising"
WorkIsReached ==
  /\ \A s \in Schedules :
       <>[](condition[s] \notin {"absent", "untrusted"} /\ s \notin busy
            /\ \A t \in Schedules : t < s => Quiet(t))
         => []<><<Lock(s)>>_vars
  /\ \A r \in Receipts :
       <>[](phase[r] \in {"creation", "created"}
            /\ (\A q \in Receipts : q < r => Clear(q))
            /\ \A t \in Schedules : Quiet(t))
         => []<><<ReadReceipt(r)>>_vars
=============================================================================
