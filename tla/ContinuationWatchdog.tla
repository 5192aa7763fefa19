------------------------ MODULE ContinuationWatchdog ------------------------
(***************************************************************************)
(* continuation_watchdog.py: one pass a minute looks for sessions whose    *)
(* last turn ended, asks a local model whether work was left, and resumes  *)
(* them with a message that carries a marker.                              *)
(*                                                                         *)
(* A key is a session and the number of the turn that ended.  Every time   *)
(* is relative to the clock that the pass read when it started, which is   *)
(* what the code compares with; a pass that took `age` minutes moves all   *)
(* times down by `age` when it ends.  A time that has passed is 0.         *)
(***************************************************************************)
EXTENDS Integers, FiniteSets

CONSTANTS
  Sessions,
  Claude,            \* the sessions of that host; the others are Codex's
  Quiet, Lease, Grace, Backoff,     \* in minutes
  MaxHostAttempts,
  MaxEvaluations,    \* per pass
  Outside,           \* bound: what may happen to a session besides its turns
  MaxTurns,          \* bound: turns of a session
  MaxAge,            \* bound: how long a pass lasts
  MaxDelay,          \* bound: from a launch to the marker in the transcript
  MaxCrashes         \* bound: passes killed

ASSUME WatchdogAssumption ==
  /\ Claude \subseteq Sessions /\ Outside \subseteq {"touch", "open", "home"}
  /\ {Quiet, Lease, Grace, Backoff, MaxAge, MaxDelay, MaxCrashes} \subseteq Nat
  /\ {MaxHostAttempts, MaxEvaluations, MaxTurns} \subseteq Nat \ {0}

VARIABLES
  session,      \* per session: its transcript and the processes that have it
  stored,       \* state.json
  pass,         \* the pass in progress, and its copy of the state
  launches,     \* per key: how often the host was asked to resume it
  delivered,    \* per key: how often its message reached the session
  late,         \* keys launched when little of the lease or grace was left
  baseline,     \* keys recorded by the first pass
  old,          \* keys whose turn had ended by then
  crashes

history == <<launches, delivered, late, baseline, old>>
vars == <<session, stored, pass, history, crashes>>

-----------------------------------------------------------------------------
Turns == 1 .. MaxTurns
Keys == Sessions \X Turns
SessionOf(k) == k[1]
TurnOf(k) == k[2]

Terminal == {"baseline", "delivered", "not_needed", "invalid", "exhausted", "superseded"}
Longest(S) == CHOOSE m \in S : \A x \in S : x <= m
Minutes == 0 .. Longest({Quiet + MaxAge, Lease, Grace, Backoff, MaxDelay})

\* `until` is lease_until while launching and retry_after otherwise: of the two
\* only that one can lie ahead.
Records ==
  [ phase : {"none", "pending", "launching", "launched"} \cup Terminal,
    attempts : 0 .. MaxHostAttempts, until : Minutes, backoff : Minutes,
    verdict : BOOLEAN ]
Record(phase) ==
  [phase |-> phase, attempts |-> 0, until |-> 0, backoff |-> 0, verdict |-> FALSE]
NoRecord == Record("none")

Messages == [turn : Turns, attempt : 1 .. MaxHostAttempts, left : 0 .. MaxDelay]
Transcripts ==
  [ turn : Turns, ended : BOOLEAN, quiet : Minutes, markers : SUBSET Turns,
    open : BOOLEAN,         \* a user has it open
    home : BOOLEAN,         \* its working directory is there
    changed : BOOLEAN,      \* modified since the scan that state.json records
    changedNow : BOOLEAN,   \* modified since the pass in progress began
    sent : SUBSET Messages ]

Idle == [pc |-> "idle", age |-> 0, recs |-> [k \in Keys |-> NoRecord], todo |-> {},
         early |-> {}, key |-> {}, evaluated |-> 0]
Passes ==
  [ pc : {"idle", "scan", "loop", "judge", "recheck", "claim", "launch"},
    age : 0 .. MaxAge, recs : [Keys -> Records], todo : SUBSET Keys,
    early : SUBSET Keys, key : SUBSET Keys, evaluated : 0 .. MaxEvaluations ]

TypeOK ==
  /\ session \in [Sessions -> Transcripts]
  /\ stored \in [initialized : BOOLEAN, recs : [Keys -> Records]]
  /\ pass \in Passes
  /\ launches \in [Keys -> Nat] /\ delivered \in [Keys -> Nat]
  /\ late \subseteq Keys /\ baseline \subseteq Keys /\ old \subseteq Keys
  /\ crashes \in 0 .. MaxCrashes

Init ==
  /\ session \in [Sessions ->
       [ turn : {1}, ended : BOOLEAN, quiet : {0}, markers : {{}}, open : {FALSE},
         home : {TRUE}, changed : BOOLEAN, changedNow : {FALSE}, sent : {{}} ]]
  /\ stored = [initialized |-> FALSE, recs |-> [k \in Keys |-> NoRecord]]
  /\ pass = Idle
  /\ launches = [k \in Keys |-> 0] /\ delivered = [k \in Keys |-> 0]
  /\ late = {} /\ baseline = {} /\ old = {} /\ crashes = 0

-----------------------------------------------------------------------------
(* The sessions.                                                           *)

\* parse_claude, parse_codex: the key of a turn that ended, and is the last.
Parsed(s) == IF session[s].ended THEN {<<s, session[s].turn>>} ELSE {}
Current(k) == k \in Parsed(SessionOf(k))
contains_marker(k) == TurnOf(k) \in session[SessionOf(k)].markers

Write(s, t) ==
  session' = [session EXCEPT ![s] =
    [t EXCEPT !.changed = TRUE, !.changedNow = (pass.pc # "idle")]]

UserTurn(s) ==
  /\ session[s].ended /\ session[s].open
  /\ Write(s, [session[s] EXCEPT !.ended = FALSE, !.quiet = 0])
  /\ UNCHANGED <<stored, pass, history, crashes>>

TurnEnds(s) ==
  /\ ~session[s].ended /\ session[s].turn < MaxTurns
  /\ Write(s, [session[s] EXCEPT !.ended = TRUE, !.turn = @ + 1,
                                 !.quiet = Quiet + pass.age])
  /\ UNCHANGED <<stored, pass, history, crashes>>

\* Rows that are no turn are appended: a summary, settings.
Touch(s) ==
  /\ "touch" \in Outside
  /\ ~session[s].changed \/ ~session[s].changedNow
  /\ Write(s, session[s])
  /\ UNCHANGED <<stored, pass, history, crashes>>

OpenOrClose(s) ==
  /\ "open" \in Outside
  /\ session' = [session EXCEPT ![s].open = ~@]
  /\ UNCHANGED <<stored, pass, history, crashes>>

HomeGoes(s) ==
  /\ "home" \in Outside /\ session[s].home
  /\ session' = [session EXCEPT ![s].home = FALSE]
  /\ UNCHANGED <<stored, pass, history, crashes>>

\* A message reaches the transcript, with the turn it begins or before it.
Deliver(s, m) ==
  /\ m \in session[s].sent
  /\ \E ended \in {FALSE, session[s].ended} :
       Write(s, [session[s] EXCEPT !.sent = @ \ {m}, !.markers = @ \cup {m.turn},
                                   !.ended = ended,
                                   !.quiet = IF ended THEN @ ELSE 0])
  /\ delivered' = [delivered EXCEPT ![<<s, m.turn>>] = @ + 1]
  /\ UNCHANGED <<stored, pass, launches, late, baseline, old, crashes>>

-----------------------------------------------------------------------------
(* The passage of time.                                                    *)

Left(t, n) == IF t > n THEN t - n ELSE 0
Aged(recs, n) ==
  [k \in Keys |-> [recs[k] EXCEPT !.until = Left(@, n), !.backoff = Left(@, n)]]
Calm(s, n) == [session[s] EXCEPT !.quiet = Left(@, n), !.changedNow = FALSE]
Travel(t) == [t EXCEPT !.sent = {[m EXCEPT !.left = @ - 1] : m \in @}]

Tick ==
  /\ \A s \in Sessions : \A m \in session[s].sent : m.left > 0
  /\ \/ /\ pass.pc = "idle"
        /\ session' = [s \in Sessions |-> Travel(Calm(s, 1))]
        /\ stored' = [stored EXCEPT !.recs = Aged(@, 1)]
        /\ UNCHANGED pass
     \/ /\ pass.pc # "idle" /\ pass.age < MaxAge
        /\ session' = [s \in Sessions |-> Travel(session[s])]
        /\ pass' = [pass EXCEPT !.age = @ + 1]
        /\ UNCHANGED stored
  /\ UNCHANGED <<history, crashes>>

-----------------------------------------------------------------------------
(* A pass: run_once, under watchdog.lock.                                  *)

\* The clock is read first.
PassStart ==
  /\ pass.pc = "idle"
  /\ pass' = [Idle EXCEPT !.pc = "scan"]
  /\ UNCHANGED <<session, stored, history, crashes>>

\* state.json is replaced; the files modified before the pass's clock will not
\* be looked at again.
Store(recs) ==
  stored' = [initialized |-> TRUE, recs |-> recs]
Scanned(s) == [session[s] EXCEPT !.changed = session[s].changedNow]

\* Fault: the scan is recorded with the time at which the pass ends.
EndPass_LateClock(recs) ==
  /\ Store(Aged(recs, pass.age))
  /\ session' = [s \in Sessions |-> [Calm(s, pass.age) EXCEPT !.changed = FALSE]]
  /\ pass' = Idle

\* The pass ends: from here on times are relative to the present again.
EndPass(recs) ==
  /\ Store(Aged(recs, pass.age))
  /\ session' = [s \in Sessions |->
       [Calm(s, pass.age) EXCEPT !.changed = session[s].changedNow]]
  /\ pass' = Idle

discover == UNION {Parsed(s) : s \in {x \in Sessions : session[x].changed}}

\* Fault: the first pass does not record what it finds.
Baseline_Forgets ==
  /\ pass.pc = "scan" /\ ~stored.initialized
  /\ EndPass(stored.recs)
  /\ baseline' = discover
  /\ old' = UNION {Parsed(s) : s \in Sessions}
  /\ UNCHANGED <<launches, delivered, late, crashes>>

Baseline ==
  /\ pass.pc = "scan" /\ ~stored.initialized
  /\ EndPass([k \in Keys |-> IF k \in discover THEN Record("baseline")
                                               ELSE stored.recs[k]])
  /\ baseline' = discover
  /\ old' = UNION {Parsed(s) : s \in Sessions}
  /\ UNCHANGED <<launches, delivered, late, crashes>>

Waiting == {k \in Keys : stored.recs[k].phase \notin Terminal \cup {"none"}}

\* Fault: a key that the scan did not find again is not looked at.
Scan_OnlyChanged ==
  /\ pass.pc = "scan" /\ stored.initialized
  /\ pass' = [pass EXCEPT !.pc = "loop", !.recs = stored.recs, !.todo = discover,
       !.early = {k \in discover : session[SessionOf(k)].quiet > 0}]
  /\ UNCHANGED <<session, stored, history, crashes>>

\* The keys that are waiting are looked up again, whether their transcript
\* changed or not.
Scan ==
  LET gone == {k \in Waiting \ discover : ~Current(k)}
      candidates == discover \cup (Waiting \ gone)
  IN
  /\ pass.pc = "scan" /\ stored.initialized
  /\ pass' = [pass EXCEPT !.pc = "loop",
       !.recs = [k \in Keys |-> IF k \in gone THEN Record("superseded")
                                              ELSE stored.recs[k]],
       !.todo = candidates,
       !.early = {k \in candidates : session[SessionOf(k)].quiet > 0}]
  /\ UNCHANGED <<session, stored, history, crashes>>

\* The record of a key, made when the loop reaches it.
Rec(k) == IF pass.recs[k] = NoRecord THEN Record("pending") ELSE pass.recs[k]

\* Candidates are taken in the order in which they were first seen.
Turn(k) ==
  /\ pass.pc = "loop" /\ k \in pass.todo
  /\ pass.recs[k] = NoRecord => \A j \in pass.todo : pass.recs[j] = NoRecord

\* The loop goes on with the next candidate, or with this one at pc.
Done(k, r) ==
  pass' = [pass EXCEPT !.pc = "loop", !.todo = @ \ {k}, !.recs[k] = r, !.key = {}]
GoOn(k, r, pc, evaluated) ==
  pass' = [pass EXCEPT !.pc = pc, !.todo = @ \ {k}, !.recs[k] = r, !.key = {k},
                       !.evaluated = evaluated]

Closed(k) == Rec(k).phase \in Terminal \/ k \in pass.early
Held(k) == Rec(k).until > 0

\* Fault: neither the lease nor the grace period of a launch is respected.
Ready_NoLease(k) ==
  /\ ~Closed(k) /\ ~contains_marker(k)
  /\ Rec(k).attempts < MaxHostAttempts /\ session[SessionOf(k)].home

Ready(k) ==
  /\ ~Closed(k) /\ ~contains_marker(k) /\ ~Held(k)
  /\ Rec(k).attempts < MaxHostAttempts /\ session[SessionOf(k)].home

Skip(k) ==
  /\ Turn(k)
  /\ \/ Closed(k)
     \/ ~contains_marker(k) /\ Held(k)
     \/ /\ Ready(k) /\ ~Rec(k).verdict
        /\ Rec(k).backoff > 0 \/ pass.evaluated = MaxEvaluations
  /\ Done(k, Rec(k))
  /\ UNCHANGED <<session, stored, history, crashes>>

\* The message arrived, all attempts are used, or there is nowhere to work.
Close(k) ==
  /\ Turn(k) /\ ~Closed(k)
  /\ \/ contains_marker(k) /\ Done(k, Record("delivered"))
     \/ /\ ~contains_marker(k) /\ ~Held(k)
        /\ Rec(k).attempts >= MaxHostAttempts /\ Done(k, Record("exhausted"))
     \/ /\ ~contains_marker(k) /\ ~Held(k) /\ Rec(k).attempts < MaxHostAttempts
        /\ ~session[SessionOf(k)].home /\ Done(k, Record("invalid"))
  /\ UNCHANGED <<session, stored, history, crashes>>

\* Ask the model, unless it said yes before.
Evaluate(k) ==
  /\ Turn(k) /\ Ready(k)
  /\ \/ Rec(k).verdict /\ GoOn(k, Rec(k), "recheck", pass.evaluated)
     \/ /\ ~Rec(k).verdict /\ Rec(k).backoff = 0 /\ pass.evaluated < MaxEvaluations
        /\ GoOn(k, Rec(k), "judge", pass.evaluated + 1)
  /\ UNCHANGED <<session, stored, history, crashes>>

\* The model takes its time, and may fail.
Judge(k) ==
  /\ pass.pc = "judge" /\ k \in pass.key
  /\ \/ GoOn(k, [Rec(k) EXCEPT !.verdict = TRUE], "recheck", pass.evaluated)
     \/ Done(k, Record("not_needed"))
  /\ UNCHANGED <<session, stored, history, crashes>>

\* Fault: a phase that no reader knows.
JudgeFails_NewPhase(k) ==
  /\ pass.pc = "judge" /\ k \in pass.key
  /\ Done(k, [Rec(k) EXCEPT !.phase = "unclear", !.backoff = Backoff])
  /\ UNCHANGED <<session, stored, history, crashes>>

JudgeFails(k) ==
  /\ pass.pc = "judge" /\ k \in pass.key
  /\ Done(k, [Rec(k) EXCEPT !.phase = "pending", !.backoff = Backoff])
  /\ UNCHANGED <<session, stored, history, crashes>>

\* _still_current: the transcript is read again after the model's answer.
Recheck(k) ==
  /\ pass.pc = "recheck" /\ k \in pass.key
  /\ \/ Current(k) /\ ~contains_marker(k) /\ GoOn(k, Rec(k), "claim", pass.evaluated)
     \/ contains_marker(k) /\ Done(k, Record("delivered"))
     \/ ~Current(k) /\ ~contains_marker(k) /\ Done(k, Record("superseded"))
  /\ UNCHANGED <<session, stored, history, crashes>>

\* `claude agents --json` lists the session, or fails.
Busy(k) ==
  /\ pass.pc = "claim" /\ k \in pass.key /\ SessionOf(k) \in Claude
  /\ Done(k, [Rec(k) EXCEPT !.phase = "pending"])
  /\ UNCHANGED <<session, stored, history, crashes>>

Claimed(k) ==
  [Rec(k) EXCEPT !.phase = "launching", !.attempts = @ + 1, !.until = Lease]
MayClaim(k) ==
  /\ pass.pc = "claim" /\ k \in pass.key
  /\ SessionOf(k) \in Claude => ~session[SessionOf(k)].open

\* Fault: the claim is not written before the launch.
Claim_InMemory(k) ==
  /\ MayClaim(k)
  /\ GoOn(k, Claimed(k), "launch", pass.evaluated)
  /\ UNCHANGED <<session, stored, history, crashes>>

\* The claim is durable before anything is launched.
Claim(k) ==
  /\ MayClaim(k)
  /\ GoOn(k, Claimed(k), "launch", pass.evaluated)
  /\ Store([pass.recs EXCEPT ![k] = Claimed(k)])
  /\ session' = [s \in Sessions |-> Scanned(s)]
  /\ UNCHANGED <<history, crashes>>

\* The lease and the grace period both run from the start of the pass.  They are
\* over before the message arrives, if the pass was this old at the launch.
LateAt(age) == age + MaxDelay >= Lease \/ age + MaxDelay >= Grace

\* The host is asked to resume the session.  Whatever it answers, the message
\* may be on its way or not: a process that was started may die, and a command
\* that timed out or failed may have been accepted.
Launch(k) ==
  /\ pass.pc = "launch" /\ k \in pass.key
  /\ launches' = [launches EXCEPT ![k] = @ + 1]
  /\ late' = late \cup {j \in pass.key : LateAt(pass.age)}
  /\ \E message \in {{}, {[turn |-> TurnOf(k), attempt |-> Rec(k).attempts,
                           left |-> MaxDelay]}} :
       session' = [session EXCEPT ![SessionOf(k)].sent = @ \cup message]
  /\ \E phase \in {"launched", "pending"} :
       Done(k, [Rec(k) EXCEPT !.phase = phase, !.until = Grace])
  /\ UNCHANGED <<stored, delivered, baseline, old, crashes>>

PassWrite ==
  /\ pass.pc = "loop" /\ pass.todo = {}
  /\ EndPass(pass.recs)
  /\ UNCHANGED <<history, crashes>>

PassCrash ==
  /\ pass.pc # "idle" /\ crashes < MaxCrashes
  /\ crashes' = crashes + 1
  /\ stored' = [stored EXCEPT !.recs = Aged(@, pass.age)]
  /\ session' = [s \in Sessions |-> Calm(s, pass.age)]
  /\ pass' = Idle
  /\ UNCHANGED history

-----------------------------------------------------------------------------
Step(k) == \/ Skip(k) \/ Close(k) \/ Evaluate(k) \/ Judge(k) \/ JudgeFails(k)
           \/ Recheck(k) \/ Busy(k) \/ Claim(k) \/ Launch(k)
Pass == Baseline \/ Scan \/ PassWrite \/ \E k \in Keys : Step(k)
Used(s) == \/ UserTurn(s) \/ TurnEnds(s) \/ Touch(s) \/ OpenOrClose(s) \/ HomeGoes(s)
           \/ \E m \in session[s].sent : Deliver(s, m)

Next == \/ Tick \/ PassStart \/ Pass \/ PassCrash
        \/ \E s \in Sessions : Used(s)

Spec == Init /\ [][Next]_vars

\* launchd starts a pass every minute and it ends; the model answers in the end,
\* and so does the list of active sessions; a message on its way arrives.
Fairness ==
  /\ WF_vars(Tick) /\ WF_vars(PassStart) /\ WF_vars(Pass)
  /\ \A s \in Sessions : WF_vars(\E m \in session[s].sent : Deliver(s, m))
  /\ \A k \in Keys : SF_vars(Judge(k)) /\ SF_vars(Claim(k))
LiveSpec == Spec /\ Fairness

-----------------------------------------------------------------------------
(* Properties.                                                             *)

\* The launch budget of a turn: at most MaxHostAttempts, however many passes die
\* between a launch and the record of its outcome.
LaunchesAreBounded == \A k \in Keys : launches[k] <= MaxHostAttempts

\* A turn is continued at most once, also when the pass that launched it was
\* killed or the host's answer was lost.  The code does not keep this: the lease
\* of a launch late in its pass may be over before the message arrives.
ContinuedOnce == \A k \in Keys : delivered[k] <= 1

\* Nothing else continues a turn twice: as long as every launch of it left its
\* message the time to arrive, no kill, failed launch or retry repeats it.
OnlyLateLaunchesRepeat == \A k \in Keys : delivered[k] > 1 => k \in late

\* What the first pass found is never resumed.
BaselineIsLeftAlone == \A k \in baseline : launches[k] = 0

\* Between passes every ended turn is recorded, or in a transcript that the next
\* scan looks at; the turns that were over before the first pass are excepted.
NoTurnIsMissed ==
  pass.pc = "idle" /\ stored.initialized =>
    \A s \in Sessions : \A k \in Parsed(s) \ old :
      stored.recs[k] # NoRecord \/ session[s].changed

\* A turn that was recorded is decided: continued, found finished, superseded or
\* given up, unless its user has the session open.
TurnIsDecided ==
  \A k \in Keys :
    (stored.recs[k].phase \in {"pending", "launching", "launched"})
    ~> (stored.recs[k].phase \in Terminal
        \/ (SessionOf(k) \in Claude /\ session[SessionOf(k)].open))

=============================================================================
