------------------------ MODULE SupervisorPass_proofs ------------------------
(***************************************************************************)
(* A pass of the supervisor that ends with exit code 0 has inspected every *)
(* schedule and settled every receipt it listed, for any number of them.   *)
(***************************************************************************)
EXTENDS SupervisorPass, TLAPS

-----------------------------------------------------------------------------
(* The invariant: what a pass has listed is visited or still to visit, or  *)
(* the pass knows that it is not.                                          *)

SchedulesCounted ==
  pass.scheduled_ok => pass.listed = pass.schedules \cup pass.inspected

\* The schedule, or the receipt, at hand is one of those still to visit.
AtHand ==
  /\ At("locked") => First(pass.schedules) \in pass.schedules
  /\ At("command") => First(pass.receipts) \in pass.receipts

ReceiptsCounted ==
  /\ pass.pc \in {"schedules", "locked"} => pass.checked = {}
  /\ pass.pc \in {"receipts", "command", "report"} => pass.schedules = {}
  /\ pass.pc \in {"receipts", "command"} => pass.entries = pass.receipts \cup pass.checked
  /\ At("report") /\ pass.exit_code = 0 => pass.entries = pass.checked

IInv == TypeOK /\ SchedulesCounted /\ AtHand /\ ReceiptsCounted

-----------------------------------------------------------------------------
\* Everything but a step of the legacy pass leaves the pass alone, or starts or
\* ends it.
LEMMA PassAtRest ==
  ASSUME IInv, pass' \in {pass, NoPass, Start}
  PROVE  /\ pass' \in Passes
         /\ SchedulesCounted' /\ AtHand' /\ ReceiptsCounted'
<1>1. pass \in Passes
  BY DEF IInv, TypeOK
<1>2. CASE pass' = pass
  BY <1>1, <1>2 DEF IInv, SchedulesCounted, AtHand, ReceiptsCounted, At, First
<1>3. CASE pass' = NoPass
  BY <1>3 DEF NoPass, Passes, SchedulesCounted, AtHand, ReceiptsCounted, At
<1>4. CASE pass' = Start
  BY <1>4 DEF Start, NoPass, Passes, SchedulesCounted, AtHand, ReceiptsCounted, At
<1>5. QED
  BY <1>2, <1>3, <1>4

-----------------------------------------------------------------------------
(* The steps of a pass.  Each changes the pass only, or the receipt that   *)
(* its command settled too.                                                *)

Counted == SchedulesCounted /\ AtHand /\ ReceiptsCounted

\* A schedule that was not inspected spoils the report.
LEMMA SkipCounts ==
  ASSUME IInv, At("schedules") \/ At("locked"), NEW s,
         NEW code \in {0, 1},
         pass' = [Visited(s) EXCEPT !.scheduled_ok = FALSE, !.exit_code = code]
  PROVE  pass' \in Passes /\ Counted'
  BY DEF IInv, TypeOK, Passes, Visited, Counted, SchedulesCounted, AtHand, ReceiptsCounted, At

LEMMA InspectCounts ==
  ASSUME IInv, Inspect
  PROVE  pass' \in Passes /\ Counted'
<1> DEFINE s == First(pass.schedules)
<1>1. s \in pass.schedules /\ At("locked") /\ pass \in Passes
  BY DEF IInv, TypeOK, AtHand, Inspect
<1>2. CASE pass' = [Visited(s) EXCEPT !.scheduled_ok = FALSE]
  <2>1. pass' = [Visited(s) EXCEPT !.scheduled_ok = FALSE, !.exit_code = pass.exit_code]
    BY <1>1, <1>2 DEF Visited, Passes
  <2> QED
    BY <1>1, <2>1, SkipCounts DEF Passes
<1>3. CASE pass' = [Visited(s) EXCEPT !.scheduled_ok = FALSE, !.exit_code = 1]
  BY <1>1, <1>3, SkipCounts
<1>4. CASE pass' = [Visited(s) EXCEPT !.inspected = @ \cup {s}]
  <2> HIDE DEF s
  <2>1. pass' \in Passes
    BY <1>1, <1>4 DEF Visited, Passes
  <2>2. /\ pass'.pc = "schedules" /\ pass'.schedules = pass.schedules \ {s}
        /\ pass'.inspected = pass.inspected \cup {s} /\ pass'.listed = pass.listed
        /\ pass'.scheduled_ok = pass.scheduled_ok /\ pass'.checked = pass.checked
    BY <1>1, <1>4 DEF Visited, Passes
  <2>3. SchedulesCounted' /\ ReceiptsCounted'
    BY <1>1, <2>2 DEF IInv, SchedulesCounted, ReceiptsCounted, At
  <2>4. AtHand'
    BY <2>2 DEF AtHand, At
  <2> QED
    BY <2>1, <2>3, <2>4 DEF Counted
<1> QED
  BY <1>2, <1>3, <1>4 DEF Inspect, Go

\* From the listing of the receipts to the report.
LEMMA ReceiptsCount ==
  ASSUME IInv,
         \/ Reconcile \/ RefuseEntry \/ (\E r \in Receipts : ReadReceipt(r))
         \/ CommandFails \/ Reconciled
  PROVE  pass' \in Passes /\ Counted'
<1>1. pass \in Passes
  BY DEF IInv, TypeOK
<1>2. CASE Reconcile
  BY <1>1, <1>2
  DEF IInv, Passes, Reconcile, Go, Listing, Counted, SchedulesCounted, AtHand, ReceiptsCounted, At
<1>3. CASE RefuseEntry \/ CommandFails
  <2>1. pass.pc \in {"receipts", "command"} /\ pass' = Refuse
    BY <1>3 DEF RefuseEntry, CommandFails, Go, At
  <2>2. pass' \in Passes /\ pass'.pc = "report" /\ pass'.exit_code = 1
    BY <1>1, <2>1 DEF Refuse, Passes
  <2>3. /\ pass'.schedules = pass.schedules /\ pass'.listed = pass.listed
        /\ pass'.inspected = pass.inspected /\ pass'.scheduled_ok = pass.scheduled_ok
    BY <1>1, <2>1 DEF Refuse, Passes
  <2>4. SchedulesCounted' /\ ReceiptsCounted'
    BY <2>1, <2>2, <2>3 DEF IInv, SchedulesCounted, ReceiptsCounted, At
  <2>5. AtHand'
    BY <2>2 DEF AtHand, At
  <2> QED
    BY <2>2, <2>4, <2>5 DEF Counted
<1>4. ASSUME NEW r \in Receipts, ReadReceipt(r)
      PROVE  pass' \in Passes /\ Counted'
  <2>1. pass'.receipts = pass.receipts
    BY <1>1, <1>4 DEF ReadReceipt, Go, Passes
  <2>2. First(pass'.receipts) \in pass'.receipts
    BY <1>4, <2>1 DEF ReadReceipt
  <2> QED
    BY <1>1, <1>4, <2>2
    DEF IInv, Passes, ReadReceipt, Go, Counted, SchedulesCounted, AtHand, ReceiptsCounted, At
<1>5. CASE Reconciled
  BY <1>1, <1>5
  DEF IInv, Passes, Reconciled, Go, Counted, SchedulesCounted, AtHand, ReceiptsCounted, At
<1> QED
  BY <1>2, <1>3, <1>4, <1>5

LEMMA CommandCounts ==
  ASSUME IInv, Command
  PROVE  pass' \in Passes /\ Counted' /\ phase' \in [Receipts -> Phases]
<1> DEFINE r == First(pass.receipts)
<1>1. r \in pass.receipts /\ At("command") /\ pass \in Passes
  BY DEF IInv, TypeOK, AtHand, Command
<1>2. pass' = [pass EXCEPT !.pc = "receipts", !.receipts = @ \ {r}, !.checked = @ \cup {r}]
  BY DEF Command
<1>3. phase' \in [Receipts -> Phases]
  BY DEF IInv, TypeOK, Command, Phases
<1> HIDE DEF r
<1>4. pass' \in Passes
  BY <1>1, <1>2 DEF Passes
<1>5. /\ pass'.pc = "receipts" /\ pass'.receipts = pass.receipts \ {r}
      /\ pass'.checked = pass.checked \cup {r} /\ pass'.entries = pass.entries
      /\ pass'.schedules = pass.schedules /\ pass'.listed = pass.listed
      /\ pass'.inspected = pass.inspected /\ pass'.scheduled_ok = pass.scheduled_ok
  BY <1>1, <1>2 DEF Passes
<1>6. SchedulesCounted' /\ ReceiptsCounted'
  BY <1>1, <1>5 DEF IInv, SchedulesCounted, ReceiptsCounted, At
<1>7. AtHand'
  BY <1>5 DEF AtHand, At
<1> QED
  BY <1>3, <1>4, <1>6, <1>7 DEF Counted

LEMMA PassIInv ==
  ASSUME IInv, Pass
  PROVE  IInv'
<1>1. TypeOK /\ pass \in Passes
  BY DEF IInv, TypeOK
<1>2. CASE SkipLocked \/ SkipUntrusted
  <2>1. PICK s : At("schedules") /\ Go([Visited(s) EXCEPT !.scheduled_ok = FALSE])
    BY <1>2 DEF SkipLocked, SkipUntrusted
  <2>2. pass' = [Visited(s) EXCEPT !.scheduled_ok = FALSE, !.exit_code = pass.exit_code]
    BY <1>1, <2>1 DEF Visited, Passes, Go
  <2>3. pass' \in Passes /\ Counted'
    BY <1>1, <2>1, <2>2, SkipCounts DEF Passes
  <2> QED
    BY <1>1, <2>1, <2>3 DEF IInv, TypeOK, Counted, Go, world
<1>3. ASSUME NEW s \in Schedules, Lock(s)
      PROVE  IInv'
  <2>1. pass'.schedules = pass.schedules
    BY <1>1, <1>3 DEF Lock, Go, Passes
  <2>2. First(pass'.schedules) \in pass'.schedules
    BY <1>3, <2>1 DEF Lock
  <2>3. pass' \in Passes /\ Counted'
    BY <1>1, <1>3, <2>2
    DEF IInv, Passes, Lock, Go, Counted, SchedulesCounted, AtHand, ReceiptsCounted, At
  <2> QED
    BY <1>1, <1>3, <2>3 DEF IInv, TypeOK, Counted, Lock, Go, world
<1>4. CASE Inspect
  BY <1>1, <1>4, InspectCounts DEF IInv, TypeOK, Counted, Inspect, Go, world
<1>5. CASE \/ Reconcile \/ RefuseEntry \/ (\E r \in Receipts : ReadReceipt(r))
           \/ CommandFails \/ Reconciled
  <2>1. pass' \in Passes /\ Counted'
    BY <1>5, ReceiptsCount
  <2>2. UNCHANGED <<world, tick, exit, faults>>
    BY <1>5 DEF Reconcile, RefuseEntry, ReadReceipt, CommandFails, Reconciled, Go
  <2> QED
    BY <1>1, <2>1, <2>2 DEF IInv, TypeOK, Counted, world
<1>6. CASE Command
  BY <1>1, <1>6, CommandCounts DEF IInv, TypeOK, Counted, Command
<1>7. CASE Report \/ Escapes
  <2>1. pass' = NoPass /\ exit' \in {0, 1} /\ UNCHANGED <<world, tick, faults>>
    BY <1>1, <1>7 DEF Report, Escapes, Ends, Passes
  <2>2. pass' \in Passes /\ SchedulesCounted' /\ AtHand' /\ ReceiptsCounted'
    BY <2>1, PassAtRest
  <2> QED
    BY <1>1, <2>1, <2>2 DEF IInv, TypeOK, world
<1> QED
  BY <1>2, <1>3, <1>4, <1>5, <1>6, <1>7 DEF Pass

-----------------------------------------------------------------------------
(* All other steps.                                                        *)

LEMMA InitIInv == Init => IInv
  BY PassAssumption
  DEF Init, IInv, TypeOK, NoPass, Passes, SchedulesCounted, AtHand, ReceiptsCounted, At,
      Conditions, Phases, Answers

LEMMA NextIInv == IInv /\ [Next]_vars => IInv'
<1> SUFFICES ASSUME IInv, [Next]_vars
             PROVE  IInv'
  OBVIOUS
<1>1. TypeOK
  BY DEF IInv
<1>2. CASE Pass
  BY <1>2, PassIInv
<1>3. CASE Tick \/ LaunchFails \/ Killed
  <2>1. pass' \in {pass, NoPass, Start}
    BY <1>3 DEF Tick, Watchdog, Launch, LaunchFails, Killed, Ends
  <2>2. /\ tick' \in {"off", "launch"} /\ exit' \in {0, 1} /\ faults' \in 0 .. MaxFaults
        /\ UNCHANGED world
    BY <1>1, <1>3, PassAssumption
    DEF TypeOK, Tick, Watchdog, Launch, LaunchFails, Killed, Ends
  <2> QED
    BY <1>1, <2>1, <2>2, PassAtRest DEF IInv, TypeOK, world
<1>4. CASE Others \/ UNCHANGED vars
  <2>1. UNCHANGED <<tick, pass, exit, faults>>
    BY <1>4 DEF Others, ScheduleChanges, HookLocks, HookUnlocks, ReceiptChanges, vars
  <2>2. /\ condition' \in [Schedules -> Conditions] /\ busy' \subseteq Schedules
        /\ phase' \in [Receipts -> Phases] /\ answer' \in [Receipts -> Answers]
        /\ changes' \in 0 .. MaxChanges
    <3>1. ASSUME NEW s \in Schedules, ScheduleChanges(s)
          PROVE  /\ condition' \in [Schedules -> Conditions] /\ busy' \subseteq Schedules
                 /\ phase' \in [Receipts -> Phases] /\ answer' \in [Receipts -> Answers]
                 /\ changes' \in 0 .. MaxChanges
      BY <1>1, <3>1, PassAssumption DEF TypeOK, ScheduleChanges
    <3>2. ASSUME NEW s \in Schedules, HookLocks(s) \/ HookUnlocks(s)
          PROVE  /\ condition' \in [Schedules -> Conditions] /\ busy' \subseteq Schedules
                 /\ phase' \in [Receipts -> Phases] /\ answer' \in [Receipts -> Answers]
                 /\ changes' \in 0 .. MaxChanges
      <4>1. busy' \in {busy \cup {s}, busy \ {s}} /\ UNCHANGED <<condition, phase, answer>>
        BY <3>2 DEF HookLocks, HookUnlocks
      <4>2. \/ changes' = changes
            \/ changes < MaxChanges /\ changes' = changes + 1
        BY <3>2 DEF HookLocks, HookUnlocks
      <4>3. changes' \in 0 .. MaxChanges
        BY <1>1, <4>2, PassAssumption DEF TypeOK
      <4> QED
        BY <1>1, <4>1, <4>3 DEF TypeOK
    <3>3. ASSUME NEW r \in Receipts, ReceiptChanges(r)
          PROVE  /\ condition' \in [Schedules -> Conditions] /\ busy' \subseteq Schedules
                 /\ phase' \in [Receipts -> Phases] /\ answer' \in [Receipts -> Answers]
                 /\ changes' \in 0 .. MaxChanges
      <4>1. phase' \in [Receipts -> Phases] /\ answer' \in [Receipts -> Answers]
        BY <1>1, <3>3 DEF TypeOK, ReceiptChanges
      <4>2. changes' \in 0 .. MaxChanges /\ condition' = condition /\ busy' = busy
        BY <1>1, <3>3, PassAssumption DEF TypeOK, ReceiptChanges
      <4> QED
        BY <1>1, <4>1, <4>2 DEF TypeOK
    <3>4. CASE UNCHANGED vars
      BY <1>1, <3>4 DEF TypeOK, vars
    <3> QED
      BY <1>4, <3>1, <3>2, <3>3, <3>4 DEF Others
  <2> QED
    BY <1>1, <2>1, <2>2, PassAtRest DEF IInv, TypeOK
<1> QED
  BY <1>2, <1>3, <1>4 DEF Next

\* Types, and what a pass knows of its lists, hold throughout.
THEOREM PassInvariant == Spec => []IInv
  BY InitIInv, NextIInv, PTL DEF Spec

\* Every variable of the supervisor's passes keeps its type.
THEOREM PassTypeCorrect == Spec => []TypeOK
<1>1. IInv => TypeOK
  BY DEF IInv
<1> QED
  BY <1>1, PassInvariant, PTL

\* main's exit code of 0 (wakeup_waker.py, last line) vouches for every schedule
\* and every receipt the pass has listed, for any number of them.
THEOREM ExitTold == Spec => ExitIsTrue
<1>1. IInv /\ [Next]_vars =>
        [Report /\ exit' = 0 =>
           pass.listed = pass.inspected /\ pass.entries = pass.checked]_vars
  <2> SUFFICES ASSUME IInv, Report, exit' = 0
               PROVE  pass.listed = pass.inspected /\ pass.entries = pass.checked
    OBVIOUS
  <2>1. pass.scheduled_ok /\ pass.exit_code = 0 /\ At("report")
    BY DEF Report, Ends, IInv, TypeOK, Passes
  <2>2. pass.schedules = {}
    BY <2>1 DEF IInv, ReceiptsCounted, At
  <2> QED
    BY <2>1, <2>2 DEF IInv, TypeOK, Passes, SchedulesCounted, ReceiptsCounted, At
<1> QED
  BY <1>1, PassInvariant, PTL DEF Spec, ExitIsTrue
=============================================================================
