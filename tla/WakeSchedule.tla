---------------------------- MODULE WakeSchedule ----------------------------
(***************************************************************************)
(* The wake schedule of one thread: `scheduled.json`, its lock file, the   *)
(* waker that launchd runs, the ScheduleWakeup hook that registers wakes,  *)
(* and `verify`, whose passing run cancels them.                           *)
(*                                                                         *)
(* Times are relative to the present in ticks of one minute, the waker's   *)
(* period: Tick moves every time in memory and on disk down by one.  A     *)
(* time that is not after the present is past; below -MaxAge two past      *)
(* times are not told apart.                                               *)
(***************************************************************************)
EXTENDS Integers, FiniteSets

CONSTANTS
  Ids,          \* bound: the wakes ever registered
  Prompts,
  Bridges,      \* processes that run schedule_wakeup_bridge.py
  NoOne,
  Waker,        \* the one process that holds legacy-fire.json.lock
  MaxWait,      \* bound: the longest delay, poll interval or deadline
  MaxAge,       \* bound: how old the waker's clock gets during a pass
  MaxCrashes    \* bound: processes killed

ASSUME ScheduleAssumption ==
  /\ MaxWait \in Nat \ {0} /\ MaxAge \in Nat /\ MaxCrashes \in Nat
  /\ Waker \notin Bridges /\ NoOne \notin Bridges \cup {Waker}

VARIABLES
  schedule,     \* the entries of scheduled.json
  present,      \* scheduled.json exists
  lock,         \* holder of scheduled.json.lock
  actor,        \* the thread directory is a subagent's
  context,      \* session_mode.json names a repository that is there
  waker,        \* the waker's pass
  bridge,       \* per bridge process: what it is about to write
  used,         \* ids registered so far
  launched,     \* how often each wake launched a session
  cancelled,    \* ids cancelled by a prune that was written
  crashes

history == <<used, launched, cancelled>>
vars == <<schedule, present, lock, actor, context, waker, bridge, used,
          launched, cancelled, crashes>>

-----------------------------------------------------------------------------
Never == MaxWait + 1
Times == -MaxAge .. MaxWait
Entries ==
  [ id : Ids, kind : {"resume", "check"}, created_by : {"ScheduleWakeup", "other"},
    prompt : Prompts, wake_at : Times, deadline : Times \cup {Never} ]
Spawns == [type : {"resume", "handoff"}, late : BOOLEAN, entry : Entries]

Idle == [pc |-> "idle", age |-> 0, seen |-> {}, todo |-> {}, kept |-> {},
         spawns |-> {}, bound |-> FALSE, writable |-> TRUE]
Wakers ==
  [ pc : {"idle", "start", "plan", "launch"}, age : 0 .. MaxAge,
    seen : SUBSET Entries, todo : SUBSET Entries, kept : SUBSET Entries,
    spawns : SUBSET Spawns, bound : BOOLEAN, writable : BOOLEAN ]
Away == [pc |-> "idle", updated |-> {}, prune |-> FALSE]

TypeOK ==
  /\ schedule \subseteq Entries /\ present \in BOOLEAN
  /\ lock \in Bridges \cup {Waker, NoOne}
  /\ actor \in BOOLEAN /\ context \in BOOLEAN
  /\ waker \in Wakers
  /\ bridge \in [Bridges -> [pc : {"idle", "write"}, updated : SUBSET Entries,
                             prune : BOOLEAN]]
  /\ used \subseteq Ids /\ cancelled \subseteq Ids
  /\ launched \in [Ids -> Nat]
  /\ crashes \in 0 .. MaxCrashes

Init ==
  /\ schedule = {} /\ present = FALSE /\ lock = NoOne
  /\ actor \in BOOLEAN /\ context \in BOOLEAN
  /\ waker = Idle
  /\ bridge = [b \in Bridges |-> Away]
  /\ used = {} /\ cancelled = {}
  /\ launched = [i \in Ids |-> 0]
  /\ crashes = 0

IdsOf(S) == {e.id : e \in S}
Own(e) == e.created_by = "ScheduleWakeup"
Past(e) == e.wake_at <= 0

-----------------------------------------------------------------------------
(* The passage of time.                                                    *)

Earlier(t) == IF t = Never THEN t ELSE IF t > -MaxAge THEN t - 1 ELSE t
Shift(e) == [e EXCEPT !.wake_at = Earlier(@), !.deadline = Earlier(@)]
ShiftAll(S) == {Shift(e) : e \in S}

Tick ==
  /\ waker.pc = "idle" \/ waker.age < MaxAge
  /\ schedule' = ShiftAll(schedule)
  /\ waker' = [waker EXCEPT
       !.age = IF waker.pc = "idle" THEN 0 ELSE @ + 1,
       !.seen = ShiftAll(@), !.todo = ShiftAll(@), !.kept = ShiftAll(@),
       !.spawns = {[s EXCEPT !.entry = Shift(@)] : s \in @}]
  /\ bridge' = [b \in Bridges |->
       [bridge[b] EXCEPT !.updated = ShiftAll(@)]]
  /\ UNCHANGED <<present, lock, actor, context, history, crashes>>

-----------------------------------------------------------------------------
(* schedule_wakeup_bridge.py: register and prune.                          *)

merge_entries(existing, new) ==
  {e \in existing : ~Past(e) /\ ~Own(e)} \cup {new}
without_own(existing) == {e \in existing : ~Own(e)}

\* Fault: the schedule is read and written without its lock.
WriteEntries_NoLock(b, updated, prune) ==
  /\ bridge[b].pc = "idle"
  /\ bridge' = [bridge EXCEPT ![b] =
       [pc |-> "write", updated |-> updated, prune |-> prune]]
  /\ UNCHANGED lock

\* _write_entries: try the lock, load, build; the write is a step of its own.
WriteEntries(b, updated, prune) ==
  /\ bridge[b].pc = "idle" /\ lock = NoOne
  /\ lock' = b
  /\ bridge' = [bridge EXCEPT ![b] =
       [pc |-> "write", updated |-> updated, prune |-> prune]]

\* parse_and_register; the hook fails open when the lock is taken.
Register(b, i, prompt, delay) ==
  LET new == [id |-> i, kind |-> "resume", created_by |-> "ScheduleWakeup",
              prompt |-> prompt, wake_at |-> delay, deadline |-> Never]
  IN
  /\ i \notin used
  /\ used' = used \cup {i}
  /\ WriteEntries(b, merge_entries(schedule, new), FALSE)
  /\ UNCHANGED <<schedule, present, actor, context, waker, launched, cancelled, crashes>>

\* verify passed: prune_thread, best effort: when the lock is taken it gives up.
VerifyPassed(b) ==
  /\ present
  /\ WriteEntries(b, without_own(schedule), TRUE)
  /\ UNCHANGED <<schedule, present, actor, context, waker, used, launched,
                 cancelled, crashes>>

\* write_durable, and the lock file is closed.
BridgeWrite(b) ==
  LET r == bridge[b] IN
  /\ r.pc = "write"
  /\ schedule' = r.updated /\ present' = TRUE
  /\ lock' = IF lock = b THEN NoOne ELSE lock
  /\ bridge' = [bridge EXCEPT ![b] = Away]
  /\ cancelled' = IF r.prune
                     THEN cancelled \cup (IdsOf(schedule) \ IdsOf(r.updated))
                     ELSE cancelled
  /\ UNCHANGED <<actor, context, waker, used, launched, crashes>>

BridgeCrash(b) ==
  /\ bridge[b].pc = "write" /\ crashes < MaxCrashes
  /\ crashes' = crashes + 1
  /\ bridge' = [bridge EXCEPT ![b] = Away]
  /\ lock' = IF lock = b THEN NoOne ELSE lock
  /\ UNCHANGED <<schedule, present, actor, context, waker, history>>

\* Another program registers a poll, under the same lock.
RegisterCheck(i, prompt, delay, deadline) ==
  /\ i \notin used /\ lock = NoOne
  /\ used' = used \cup {i}
  /\ schedule' = schedule \cup
       {[id |-> i, kind |-> "check", created_by |-> "other", prompt |-> prompt,
         wake_at |-> delay, deadline |-> deadline]}
  /\ present' = TRUE
  /\ UNCHANGED <<lock, actor, context, waker, bridge, launched, cancelled, crashes>>

-----------------------------------------------------------------------------
(* wakeup_waker.py --legacy-fire: one pass over this schedule.             *)

\* main reads the clock once, before it looks at any schedule.
PassStart ==
  /\ waker.pc = "idle"
  /\ waker' = [Idle EXCEPT !.pc = "start"]
  /\ UNCHANGED <<schedule, present, lock, actor, context, bridge, history, crashes>>

PassSkip ==
  /\ waker.pc = "start" /\ (lock # NoOne \/ ~present)
  /\ waker' = Idle
  /\ UNCHANGED <<schedule, present, lock, actor, context, bridge, history, crashes>>

\* The lock, the entries, and the repository the sessions will run in.
PassLock ==
  LET due == {e \in schedule : e.wake_at <= -waker.age} IN
  /\ waker.pc = "start" /\ lock = NoOne /\ present
  /\ lock' = Waker
  /\ waker' = [waker EXCEPT !.pc = "plan", !.seen = schedule, !.todo = due,
                            !.kept = schedule \ due, !.bound = context]
  /\ UNCHANGED <<schedule, present, actor, context, bridge, history, crashes>>

key(s) == <<s.type, s.late, s.entry.prompt>>

\* Fault: the next poll comes one interval too late.
Rearmed_TooLate(e) ==
  LET poll_interval == MaxWait + 1 IN [e EXCEPT !.wake_at = poll_interval - waker.age]

Rearmed(e) ==
  LET poll_interval == 1 IN
  [e EXCEPT !.wake_at = IF poll_interval - waker.age < -MaxAge THEN -MaxAge
                        ELSE poll_interval - waker.age]

\* plan: a launch is planned once per key; an equal later one is dropped.
PlanSpawn(s) ==
  LET new == \A x \in waker.spawns : key(x) # key(s) IN
  waker' = [waker EXCEPT !.todo = @ \ {s.entry},
                         !.spawns = IF new THEN @ \cup {s} ELSE @]

\* Fault: a fired one-shot wake stays in the schedule.
PlanResume_Keeps(e) ==
  /\ e.kind = "resume"
  /\ waker' = [waker EXCEPT !.todo = @ \ {e}, !.kept = @ \cup {e},
       !.spawns = @ \cup {[type |-> "resume", late |-> FALSE, entry |-> e]}]

PlanResume(e) ==
  /\ e.kind = "resume"
  /\ PlanSpawn([type |-> "resume", late |-> FALSE, entry |-> e])

\* Fault: a poll is re-armed although its deadline has passed.
PlanCheck_NoDeadline(e) ==
  LET failed == actor /\ ~waker.bound IN
  /\ e.kind = "check"
  /\ \/ /\ ~failed
        /\ PlanSpawn([type |-> "handoff", late |-> FALSE, entry |-> e])
     \/ /\ waker' = [waker EXCEPT !.todo = @ \ {e}, !.kept = @ \cup {Rearmed(e)},
                                  !.writable = @ /\ ~failed]

\* dispatch of a poll: met, or not ready (or its runner failed) before or
\* after the deadline.  A subagent's poll does not run without its repository,
\* which also keeps the schedule from being rewritten.
PlanCheck(e) ==
  LET failed == actor /\ ~waker.bound
      past_deadline == e.deadline <= -waker.age
  IN
  /\ e.kind = "check"
  /\ \/ /\ ~failed
        /\ PlanSpawn([type |-> "handoff", late |-> FALSE, entry |-> e])
     \/ /\ past_deadline
        /\ PlanSpawn([type |-> "handoff", late |-> TRUE, entry |-> e])
     \/ /\ ~past_deadline
        /\ waker' = [waker EXCEPT !.todo = @ \ {e}, !.kept = @ \cup {Rearmed(e)},
                                  !.writable = @ /\ ~failed]

Plan ==
  /\ waker.pc = "plan"
  /\ \E e \in waker.todo : PlanResume(e) \/ PlanCheck(e)
  /\ UNCHANGED <<schedule, present, lock, actor, context, bridge, used, launched,
                 cancelled, crashes>>

\* Nothing is launched without a repository, and then nothing is rewritten.
PlanDone ==
  /\ waker.pc = "plan" /\ waker.todo = {}
  /\ waker' = [waker EXCEPT !.pc = "launch",
       !.spawns = IF waker.bound THEN @ ELSE {},
       !.writable = @ /\ (waker.bound \/ waker.spawns = {})]
  /\ UNCHANGED <<schedule, present, lock, actor, context, bridge, history, crashes>>

\* Popen
Launch(s) ==
  /\ waker.pc = "launch" /\ s \in waker.spawns /\ context
  /\ launched' = [launched EXCEPT ![s.entry.id] = @ + 1]
  /\ waker' = [waker EXCEPT !.spawns = @ \ {s}]
  /\ UNCHANGED <<schedule, present, lock, actor, context, bridge, used, cancelled, crashes>>

\* Fault: the entry of a launch that failed is not kept.
LaunchFails_Drops(s) ==
  /\ waker.pc = "launch" /\ s \in waker.spawns
  /\ waker' = [waker EXCEPT !.spawns = @ \ {s}]
  /\ UNCHANGED <<schedule, present, lock, actor, context, bridge, history, crashes>>

\* OSError, for one because the repository is gone by now.
LaunchFails(s) ==
  /\ waker.pc = "launch" /\ s \in waker.spawns
  /\ waker' = [waker EXCEPT !.spawns = @ \ {s}, !.kept = @ \cup {s.entry}]
  /\ UNCHANGED <<schedule, present, lock, actor, context, bridge, history, crashes>>

PassWrite ==
  LET write == waker.writable /\ waker.kept # waker.seen IN
  /\ waker.pc = "launch" /\ waker.spawns = {}
  /\ schedule' = IF write THEN waker.kept ELSE schedule
  /\ present' = (present \/ write)
  /\ lock' = NoOne
  /\ waker' = Idle
  /\ UNCHANGED <<actor, context, bridge, history, crashes>>

\* Killed, or an error of write_durable that main does not catch.
WakerCrash ==
  /\ waker.pc # "idle" /\ crashes < MaxCrashes
  /\ crashes' = crashes + 1
  /\ waker' = Idle
  /\ lock' = IF lock = Waker THEN NoOne ELSE lock
  /\ UNCHANGED <<schedule, present, actor, context, bridge, history>>

\* The session claims a task, or its repository directory goes.
ContextChanges ==
  /\ context' = ~context
  /\ UNCHANGED <<schedule, present, lock, actor, waker, bridge, history, crashes>>

-----------------------------------------------------------------------------
Register_or_prune(b) ==
  \/ \E i \in Ids, prompt \in Prompts, delay \in 1 .. MaxWait :
       Register(b, i, prompt, delay)
  \/ VerifyPassed(b)
Pass == \/ PassSkip \/ PassLock \/ Plan \/ PlanDone \/ PassWrite
        \/ \E s \in waker.spawns : Launch(s) \/ LaunchFails(s)

Next ==
  \/ Tick \/ PassStart \/ Pass \/ WakerCrash \/ ContextChanges
  \/ \E b \in Bridges : Register_or_prune(b) \/ BridgeWrite(b) \/ BridgeCrash(b)
  \/ \E i \in Ids, prompt \in Prompts, delay \in 1 .. MaxWait,
        deadline \in 1 .. MaxWait \cup {Never} :
       RegisterCheck(i, prompt, delay, deadline)

Spec == Init /\ [][Next]_vars

\* A bridge holds the lock for milliseconds and a pass comes once a minute: not
\* every pass meets one.
NotAlwaysBusy ==
  []<>(waker.pc = "start" /\ present) => []<><<PassLock>>_vars

\* launchd starts a pass every minute, a pass goes on, and launches do not fail
\* for ever.
Fairness ==
  /\ WF_vars(Tick) /\ WF_vars(PassStart) /\ WF_vars(Pass)
  /\ SF_vars(\E s \in waker.spawns : Launch(s))
  /\ \A b \in Bridges : WF_vars(BridgeWrite(b))
  /\ NotAlwaysBusy
LiveSpec == Spec /\ Fairness

-----------------------------------------------------------------------------
(* Properties.                                                             *)

\* Wakes that a written prune cancelled are gone for good: a pass that loaded
\* the schedule before does not write them back, and none of them launches.
CancelledStaysCancelled ==
  /\ cancelled \cap IdsOf(schedule) = {}
  /\ cancelled \cap IdsOf({s.entry : s \in waker.spawns}) = {}

\* A wake launches once, and again only if a process was killed meanwhile.
LaunchesOncePerCrash == \A i \in Ids : launched[i] <= 1 + crashes

\* A pass removes a wake only if it, or an equal one, was launched or is kept:
\* no registration made while the pass was polling is overwritten, and a launch
\* that failed is tried again.
OnlyLaunchedWakesArePruned ==
  [][waker.pc = "launch" /\ waker'.pc = "idle" =>
       \A e \in schedule : e.id \in IdsOf(schedule') \/
         \E f \in schedule : /\ f.kind = e.kind /\ f.prompt = e.prompt
                             /\ (launched[f.id] > 0 \/ f.id \in IdsOf(schedule'))]_vars

\* A due resume, and a poll past its deadline, leave the schedule (by a launch,
\* a cancellation or a newer wake) unless the session has no repository.
DueWakeIsServed ==
  \A i \in Ids :
    (\E e \in schedule :
       e.id = i /\ ((e.kind = "resume" /\ Past(e)) \/ e.deadline <= 0))
    ~> (i \notin IdsOf(schedule) \/ ~context)
=============================================================================
