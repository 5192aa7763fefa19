--------------------------- MODULE StopGate_proofs ---------------------------
(***************************************************************************)
(* Proofs about StopGate, for any beads, verifiers and plans and any       *)
(* number of declarations and faults: its types, and what may end a turn.  *)
(***************************************************************************)
EXTENDS StopGate, TLAPS

-----------------------------------------------------------------------------
(* The inductive invariant: what the hook has learnt by its place, and why *)
(* it still holds although the beads and the files change meanwhile.       *)

\* The contract is there once a contract has been declared, and who is about to write
\* it has a whole one; the first scope stays the one in force.
FilesKnow ==
  /\ declared > 0 => contract.state # "absent"
  /\ declaring # Missing => declaring.state = "whole"
  /\ \A v \in Verifiers : verify[v].pc \in {"loaded", "writing"} =>
       verify[v].contract.state = "whole"
  /\ mode = first

\* The session and the hooks of its claims stand still while the hook runs; a
\* steady bead is active, a live one unfinished.
HookRuns ==
  /\ turn = "stopping" <=> hook.pc # "idle"
  /\ turn = "stopping" => entering = {}
  /\ hook.pc = "idle" => hook.steady = {} /\ hook.live = {}
  /\ hook.steady \subseteq Active /\ hook.live \subseteq Unfinished

ContractKnown ==
  hook.declared > 0 =>
    /\ declared > 0
    /\ hook.reason # "conversational"
    /\ hook.pc = "decide" => hook.contract.state # "absent"

\* No steady bead is older than the watermark; one in progress was listed by the first
\* query, and blocks after the last.
Queues == {"in_progress", "ready", "open"}
Ending == {"git", "pr", "judge"}
QueueKnown ==
  /\ hook.pc \in {"mode", "contract", "decide", "watermark"} => ~hook.mark.known
  /\ hook.pc \in Queues => hook.steady \cap hook.mark.older = {}
  /\ hook.pc \in {"ready", "open"} =>
       \A b \in hook.steady : beads[b] = "in_progress" => b \in hook.seen
  /\ hook.pc \in Ending /\ hook.reason \in {"verification_passed", "wakeup_registered"} =>
       ~hook.mark.known \/ hook.steady = {}

\* In task mode the hook takes another way.  A root that it read as closed is not
\* live, whoever reopens it; and after an answer without ready beads the steady
\* ones are not ready, nor do they wait after one without blocked beads.
Waking == {"wake_root", "wake_blockers"}
Tasking == {"task", "task_ready", "task_root", "task_blocked", "task_drained"}
ScopeKnown ==
  /\ hook.pc \in {"contract", "decide", "watermark"} \cup Queues \cup Ending => mode = None
  /\ hook.pc \in Waking \cup Tasking => mode # None
  /\ hook.pc \in {"wake_blockers", "task_blocked", "task_drained"} => mode \notin hook.live
  /\ hook.pc \in {"task_root", "task_blocked"} =>
       \A b \in hook.steady \cap Below(mode) : beads[b] # "ready"
  /\ hook.pc = "task_drained" =>
       \A b \in hook.steady \cap Below(mode) : beads[b] = "in_progress"

HookKnows == HookRuns /\ ContractKnown /\ QueueKnown /\ ScopeKnown
IInv == TypeOK /\ FilesKnow /\ HookKnows

-----------------------------------------------------------------------------
(* The records.                                                            *)

LEMMA Records ==
  /\ Missing \in Contracts /\ Missing.state = "absent" /\ Missing.older = {} /\ ~Missing.passed
  /\ Torn \in Contracts /\ Torn.state = "torn"
  /\ Unknown \in Marks /\ ~Unknown.known
  /\ NotRunning \in Runs /\ NotRunning.pc = "idle"
  /\ Resting \in Hooks /\ Resting.pc = "idle" /\ Resting.declared = 0
  /\ Resting.steady = {} /\ Resting.live = {}
  /\ Resting.reason = "none" /\ Resting.mark = Unknown
<1>1. Missing \in Contracts /\ Missing.state = "absent" /\ Missing.older = {} /\ ~Missing.passed
  BY DEF Missing, Contracts
<1>2. Torn \in Contracts /\ Torn.state = "torn"
  BY DEF Torn, Missing, Contracts
<1>3. Unknown \in Marks /\ ~Unknown.known
  BY DEF Unknown, Marks
<1>4. NotRunning \in Runs /\ NotRunning.pc = "idle"
  BY <1>1 DEF NotRunning, Runs
<1>5. /\ Resting.pc = "idle" /\ Resting.declared = 0
      /\ Resting.steady = {} /\ Resting.live = {}
      /\ Resting.reason = "none" /\ Resting.mark = Unknown
  BY DEF Resting
<1>6. Resting \in Hooks
  <2>1. 0 \in Numbers /\ "none" \in Reasons
    BY GateAssumption DEF Numbers, Reasons
  <2> QED BY <1>1, <1>3, <2>1 DEF Resting, Hooks
<1> QED BY <1>1, <1>2, <1>3, <1>4, <1>5, <1>6

\* A declared contract is whole, and nothing is listed before it is filed.
LEMMA Declared ==
  LET new == [Missing EXCEPT !.state = "whole", !.older = Filed]
  IN  new \in Contracts /\ new.state = "whole"
BY DEF Missing, Contracts, Filed

-----------------------------------------------------------------------------
(* Where the hook comes to rest, and where nothing it looks at changes.    *)

LEMMA Rests ==
  ASSUME hook' = Resting, turn' # "stopping"
  PROVE  HookKnows'
BY Records DEF HookKnows, HookRuns, ContractKnown, QueueKnown, ScopeKnown, Ending, Queues,
               Waking, Tasking

LEMMA Stands ==
  ASSUME HookKnows, UNCHANGED <<hook, beads, mode, entering>>,
         declared' = declared \/ declared' > 0,
         turn' = "stopping" <=> turn = "stopping"
  PROVE  HookKnows'
BY DEF HookKnows, HookRuns, ContractKnown, QueueKnown, ScopeKnown, Active, Unfinished, Below

LEMMA FilesStand ==
  ASSUME FilesKnow, UNCHANGED <<files, mode, first>>
  PROVE  FilesKnow'
BY DEF FilesKnow, files

-----------------------------------------------------------------------------
(* The beads.                                                              *)

LEMMA BeadMoves ==
  ASSUME IInv, NEW b \in Beads, NEW status \in Statuses, MoveBead(b, status),
         status # "unfiled"
  PROVE  IInv'
<1>1. /\ beads' = [beads EXCEPT ![b] = status]
      /\ hook' = [hook EXCEPT
           !.live = IF status = "closed" THEN @ \ {b} ELSE @,
           !.steady = IF beads[b] = "ready" /\ status = "waiting" THEN @ ELSE @ \ {b}]
      /\ UNCHANGED <<files, scheduled, task, session, plan, faults>>
  BY DEF MoveBead
<1>2. hook \in Hooks /\ hook.steady \in SUBSET Beads /\ hook.live \in SUBSET Beads
  BY DEF IInv, TypeOK, Hooks
<1>3. /\ hook'.live = IF status = "closed" THEN hook.live \ {b} ELSE hook.live
      /\ hook'.steady = IF beads[b] = "ready" /\ status = "waiting" THEN hook.steady
                        ELSE hook.steady \ {b}
      /\ hook'.pc = hook.pc /\ hook'.seen = hook.seen
      /\ hook'.reason = hook.reason /\ hook'.contract = hook.contract
      /\ hook'.mark = hook.mark /\ hook'.declared = hook.declared
  BY <1>1, <1>2 DEF Hooks
<1>4. beads'[b] = status /\ \A c \in Beads : c # b => beads'[c] = beads[c]
  BY <1>1 DEF IInv, TypeOK
<1>5. TypeOK'
  <2>1. hook' \in Hooks
    BY <1>1, <1>2 DEF Hooks
  <2>2. beads' \in [Beads -> Statuses]
    BY <1>1 DEF IInv, TypeOK
  <2> QED BY <1>1, <2>1, <2>2 DEF IInv, TypeOK, files, task, session
<1>6. FilesKnow'
  BY <1>1, FilesStand DEF IInv, task
\* A bead that stays steady is untouched, or was ready and waits now.
<1>7. \A c \in hook'.steady :
        /\ c \in hook.steady
        /\ beads'[c] = beads[c] \/ (c = b /\ beads[c] = "ready" /\ beads'[c] = "waiting")
  BY <1>2, <1>3, <1>4
<1>8. HookRuns'
  <2>1. hook'.steady \subseteq Active'
    BY <1>2, <1>7 DEF IInv, HookKnows, HookRuns, Active
  <2>2. hook'.live \subseteq Unfinished'
    BY <1>2, <1>3, <1>4 DEF IInv, HookKnows, HookRuns, Unfinished
  <2> QED BY <1>1, <1>3, <2>1, <2>2 DEF IInv, HookKnows, HookRuns, session, task
<1>9. ContractKnown'
  BY <1>1, <1>3 DEF IInv, HookKnows, ContractKnown, files
<1>10. QueueKnown'
  BY <1>3, <1>7 DEF IInv, HookKnows, QueueKnown
<1>11. ScopeKnown'
  <2>1. mode' = mode /\ Below(mode)' = Below(mode)
    BY <1>1 DEF task, Below
  <2>2. mode \notin hook.live => mode' \notin hook'.live
    BY <1>3, <2>1
  <2> QED BY <1>3, <1>7, <2>1, <2>2 DEF IInv, HookKnows, ScopeKnown
<1> QED BY <1>5, <1>6, <1>8, <1>9, <1>10, <1>11 DEF IInv, HookKnows

LEMMA BeadSteps ==
  ASSUME IInv, NEW b \in Beads, File(b) \/ Update(b)
  PROVE  IInv'
<1>1. \E status \in Statuses \ {"unfiled"} : MoveBead(b, status)
  BY DEF File, Update, Statuses
<1> QED BY <1>1, BeadMoves

\* A claim is a step of the session: the hook does not run, nor does it while
\* the hook of a claim does.
LEMMA Claims ==
  ASSUME IInv, NEW b \in Beads, Claim(b)
  PROVE  IInv'
<1>1. /\ turn = "working" /\ beads' = [beads EXCEPT ![b] = "in_progress"]
      /\ entering' = entering \cup {b}
      /\ UNCHANGED <<files, scheduled, mode, found, first, incident, session, hook, plan,
                     faults>>
  BY DEF Claim
<1>2. hook.pc = "idle" /\ hook.steady = {} /\ hook.live = {}
  BY <1>1 DEF IInv, HookKnows, HookRuns
<1>3. TypeOK'
  <2>1. beads' \in [Beads -> Statuses] /\ entering' \subseteq Beads
    BY <1>1 DEF IInv, TypeOK, Statuses
  <2> QED BY <1>1, <2>1 DEF IInv, TypeOK, files, session
<1>4. FilesKnow'
  BY <1>1, FilesStand DEF IInv
<1>5. HookKnows'
  BY <1>1, <1>2 DEF IInv, HookKnows, HookRuns, ContractKnown, QueueKnown, ScopeKnown, Ending,
     Queues, Waking, Tasking, files, session
<1> QED BY <1>3, <1>4, <1>5 DEF IInv

LEMMA Entries ==
  ASSUME IInv, NEW b \in Beads, Enter(b) \/ EnterDies(b)
  PROVE  IInv'
<1>1. /\ b \in entering /\ entering' \subseteq entering
      /\ UNCHANGED <<beads, files, scheduled, session, hook, plan>>
  BY DEF Enter, EnterDies
<1>2. hook.pc = "idle" /\ hook.steady = {} /\ hook.live = {} /\ turn # "stopping"
  BY <1>1 DEF IInv, HookKnows, HookRuns
<1> DEFINE Typed == /\ faults \in 0 .. MaxFaults /\ mode = first
                    /\ mode \in Beads \cup {None}
                    /\ found \in BOOLEAN /\ incident \in BOOLEAN
<1>3. Typed
  BY DEF IInv, TypeOK, FilesKnow
<1>4. Typed'
  <2>1. CASE EnterDies(b)
    BY <1>3, <2>1, GateAssumption DEF EnterDies
  <2>2. ASSUME RecordFails, UNCHANGED <<found, first>>
        PROVE  Typed'
    <3>1. faults' \in 0 .. MaxFaults
      BY <1>3, <2>2, GateAssumption DEF RecordFails
    <3> QED BY <1>3, <2>2, <3>1 DEF RecordFails
  <2>3. ASSUME NEW scope \in {Root, b}, Walk(b, scope), FirstClaim(scope),
               first' = (IF first = None THEN scope ELSE first),
               found' \in IF mode = None THEN BOOLEAN ELSE {found}, UNCHANGED incident
        PROVE  Typed'
    <3>1. faults' \in 0 .. MaxFaults
      BY <1>3, <2>3, GateAssumption DEF Walk
    <3>2. mode' = first' /\ mode' \in Beads \cup {None}
      BY <1>3, <2>3, GateAssumption DEF FirstClaim
    <3> QED BY <1>3, <2>3, <3>1, <3>2
  <2> QED BY <2>1, <2>2, <2>3 DEF Enter
<1>5. TypeOK'
  BY <1>1, <1>4 DEF IInv, TypeOK, files, session, FilesKnow
<1>6. FilesKnow'
  BY <1>1, <1>4 DEF IInv, FilesKnow, files
<1>7. HookKnows'
  BY <1>1, <1>2 DEF IInv, HookKnows, HookRuns, ContractKnown, QueueKnown, ScopeKnown, Ending,
     Queues, Waking, Tasking, files, session
<1> QED BY <1>5, <1>6, <1>7 DEF IInv

-----------------------------------------------------------------------------
(* The contract and its verifiers: the hook does not look at them here.    *)

LEMMA Declarations ==
  ASSUME IInv, Declare \/ Declaring \/ Expire
  PROVE  IInv'
<1>1. contract \in Contracts /\ declaring \in Contracts /\ declared \in Nat
  BY DEF IInv, TypeOK, Numbers
<1>2. UNCHANGED <<beads, hook, task, turn, scheduled, active, released, outcome,
                  plan, start, verify>>
  BY DEF Declare, Declaring, DeclareWrites, DeclareDies, Expire, others, base, session
<1>3. CASE Declare
  <2>1. /\ declared' = declared + 1 /\ declared < MaxDeclarations
        /\ declaring' = [Missing EXCEPT !.state = "whole", !.older = Filed]
        /\ contract' = Torn /\ faults' = faults
    BY <1>3 DEF Declare
  <2>2. declaring' \in Contracts /\ declaring'.state = "whole"
    BY <2>1, Declared
  <2>3. TypeOK'
    <3>1. declared' \in Numbers
      BY <1>1, <2>1, GateAssumption DEF Numbers
    <3> QED BY <1>2, <2>1, <2>2, <3>1, Records DEF IInv, TypeOK, task
  <2>4. FilesKnow'
    BY <1>2, <2>1, <2>2, Records DEF IInv, FilesKnow, task
  <2>5. HookKnows'
    BY <1>1, <1>2, <2>1, Stands DEF IInv, task
  <2> QED BY <2>3, <2>4, <2>5 DEF IInv
<1>4. CASE Declaring \/ Expire
  <2>1. declared' = declared /\ faults' \in 0 .. MaxFaults
    BY <1>4, GateAssumption
       DEF Declaring, DeclareWrites, DeclareDies, Expire, base, others, IInv, TypeOK
  <2>2. /\ contract' \in Contracts /\ (contract.state # "absent" => contract'.state # "absent")
        /\ declaring' = Missing \/ declaring' = declaring
    <3>1. CASE DeclareWrites
      <4>1. /\ declaring.state = "whole" /\ declaring' = Missing
            /\ contract' = declaring \/ contract' = Torn
        BY <3>1 DEF DeclareWrites, Overwrite, IInv, FilesKnow
      <4> QED BY <1>1, <4>1, Records
    <3>2. CASE DeclareDies
      BY <1>1, <3>2 DEF DeclareDies
    <3>3. CASE Expire
      BY <1>1, <3>3 DEF Expire, Contracts, base
    <3> QED BY <1>4, <3>1, <3>2, <3>3 DEF Declaring
  <2>3. TypeOK'
    BY <1>1, <1>2, <2>1, <2>2, Records DEF IInv, TypeOK, task
  <2>4. FilesKnow'
    BY <1>2, <2>1, <2>2 DEF IInv, FilesKnow, task
  <2>5. HookKnows'
    BY <1>2, <2>1, Stands DEF IInv, task
  <2> QED BY <2>3, <2>4, <2>5 DEF IInv
<1> QED BY <1>3, <1>4

LEMMA VerifierSteps ==
  ASSUME IInv, NEW v \in Verifiers, Verifying(v)
  PROVE  IInv'
<1> DEFINE Known(r) == r.pc \in {"loaded", "writing"} => r.contract.state = "whole"
<1>1. verify \in [Verifiers -> Runs] /\ contract \in Contracts /\ verify[v] \in Runs
      /\ verify[v].contract \in Contracts /\ Known(verify[v])
  BY DEF IInv, TypeOK, FilesKnow, Runs
<1>2. UNCHANGED <<beads, hook, task, turn, active, released, outcome, plan, start,
                  declaring, declared>>
  BY DEF Verifying, VerifyStarts, VerifyLoads, VerifyTruncates, VerifyWrites, VerifyPrunes,
         VerifyDies, base, session
<1>3. faults' \in 0 .. MaxFaults /\ scheduled' \in BOOLEAN
  <2>1. faults \in 0 .. MaxFaults /\ scheduled \in BOOLEAN
    BY DEF IInv, TypeOK, task
  <2>2. CASE VerifyDies(v)
    BY <2>1, <2>2, GateAssumption DEF VerifyDies
  <2>3. CASE ~VerifyDies(v)
    <3>1. faults' = faults /\ scheduled' \in {FALSE, scheduled}
      BY <2>3 DEF Verifying, VerifyStarts, VerifyLoads, VerifyTruncates, VerifyWrites,
                  VerifyPrunes, base
    <3> QED BY <2>1, <3>1
  <2> QED BY <2>2, <2>3
<1>4. \A ok \in BOOLEAN : Reported(ok) \in Runs /\ Known(Reported(ok))
  BY Records DEF Reported, Runs
<1>5. PICK run \in Runs : verify' = [verify EXCEPT ![v] = run] /\ Known(run)
  <2>1. CASE VerifyStarts(v)
    <3>1. [NotRunning EXCEPT !.pc = "running"] \in Runs
          /\ [NotRunning EXCEPT !.pc = "running"].pc = "running"
      BY Records DEF Runs
    <3> QED BY <2>1, <3>1 DEF VerifyStarts, Goes
  <2>2. CASE VerifyLoads(v)
    <3>1. PICK ok \in BOOLEAN :
            verify' = [verify EXCEPT ![v] =
              IF contract.state = "whole"
                THEN [pc |-> "loaded", contract |-> [contract EXCEPT !.passed = ok]]
                ELSE Reported(ok)]
      BY <2>2 DEF VerifyLoads, Goes
    <3>2. CASE contract.state = "whole"
      <4> DEFINE stamped == [contract EXCEPT !.passed = ok]
                 run == [pc |-> "loaded", contract |-> stamped]
      <4>1. stamped \in Contracts /\ stamped.state = "whole"
        BY <1>1, <3>2 DEF Contracts
      <4>2. run \in Runs /\ run.contract.state = "whole"
        BY <4>1 DEF Runs
      <4> QED BY <3>1, <3>2, <4>2
    <3>3. CASE contract.state # "whole"
      BY <1>4, <3>1, <3>3
    <3> QED BY <3>2, <3>3
  <2>3. CASE VerifyTruncates(v)
    <3> DEFINE run == [verify[v] EXCEPT !.pc = "writing"]
    <3>1. run \in Runs /\ run.contract = verify[v].contract /\ verify[v].pc = "loaded"
      BY <1>1, <2>3 DEF Runs, VerifyTruncates
    <3> QED BY <1>1, <2>3, <3>1 DEF VerifyTruncates, Goes
  <2>4. CASE VerifyWrites(v)
    <3>1. verify[v].contract.passed \in BOOLEAN
      BY <1>1 DEF Runs, Contracts
    <3> QED BY <1>4, <2>4, <3>1 DEF VerifyWrites, Goes
  <2>5. CASE VerifyPrunes(v) \/ VerifyDies(v)
    BY <2>5, Records DEF VerifyPrunes, VerifyDies, Goes
  <2> QED BY <2>1, <2>2, <2>3, <2>4, <2>5 DEF Verifying
<1>6. contract' \in Contracts /\ (contract.state # "absent" => contract'.state # "absent")
  <2>1. CASE VerifyTruncates(v)
    BY <2>1, Records DEF VerifyTruncates
  <2>2. CASE VerifyWrites(v)
    <3>1. verify[v].contract \in Contracts /\ verify[v].contract.state = "whole"
      BY <1>1, <2>2 DEF Runs, VerifyWrites
    <3>2. contract' = verify[v].contract \/ contract' = Torn
      BY <2>2 DEF VerifyWrites, Overwrite
    <3> QED BY <3>1, <3>2, Records
  <2>3. CASE ~VerifyTruncates(v) /\ ~VerifyWrites(v)
    BY <1>1, <2>3 DEF Verifying, VerifyStarts, VerifyLoads, VerifyPrunes, VerifyDies
  <2> QED BY <2>1, <2>2, <2>3
<1> HIDE DEF Known
<1>7. verify' \in [Verifiers -> Runs] /\ verify'[v] = run
      /\ \A u \in Verifiers : u # v => verify'[u] = verify[u]
  BY <1>1, <1>5
<1>8. TypeOK'
  BY <1>2, <1>3, <1>6, <1>7 DEF IInv, TypeOK, task
<1>9. FilesKnow'
  <2>1. \A u \in Verifiers : Known(verify'[u])
    BY <1>5, <1>7 DEF IInv, FilesKnow, Known, task
  <2> QED BY <1>2, <1>6, <2>1 DEF IInv, FilesKnow, Known, task
<1>10. HookKnows'
  BY <1>2, Stands DEF IInv, task
<1> QED BY <1>8, <1>9, <1>10 DEF IInv

\* The wakes, and the next prompt.
LEMMA OtherSteps ==
  ASSUME IInv, RegisterWake \/ WakeComes \/ UserPrompt \/ UNCHANGED vars
  PROVE  IInv'
<1>1. /\ UNCHANGED <<beads, files, task, hook, plan, faults>>
      /\ scheduled' \in BOOLEAN /\ active' \in BOOLEAN /\ released' \in BOOLEAN
      /\ outcome' \in Reasons /\ turn' \in {"working", "stopping", "ended"}
      /\ turn' = "stopping" <=> turn = "stopping"
  <2>1. "none" \in Reasons
    BY DEF Reasons
  <2> QED BY <2>1 DEF RegisterWake, WakeComes, UserPrompt, vars, session, IInv, TypeOK
<1>2. TypeOK'
  BY <1>1 DEF IInv, TypeOK, files, task
<1>3. FilesKnow' /\ HookKnows'
  BY <1>1, FilesStand, Stands DEF IInv, files, task
<1> QED BY <1>2, <1>3 DEF IInv

-----------------------------------------------------------------------------
(* The hook.                                                               *)

\* It allows or denies, and rests.
LEMMA Ended ==
  ASSUME IInv, UNCHANGED still, faults' \in 0 .. MaxFaults,
         (\E reason \in Reasons : Allow(reason)) \/ (\E reason \in Reasons : Deny(reason))
  PROVE  IInv'
<1>1. /\ hook' = Resting /\ turn' \in {"working", "ended"}
      /\ active' \in BOOLEAN /\ outcome' \in Reasons
  BY DEF Allow, Deny, IInv, TypeOK
<1>2. TypeOK'
  BY <1>1, Records DEF IInv, TypeOK, still, files, task
<1>3. FilesKnow' /\ HookKnows'
  BY <1>1, FilesStand, Rests DEF IInv, still, task
<1> QED BY <1>2, <1>3 DEF IInv

\* It goes on: nothing but the hook changes.
LEMMA GoesOn ==
  ASSUME IInv, UNCHANGED <<still, turn, active, outcome>>, faults' \in 0 .. MaxFaults,
         hook.pc # "idle", hook'.pc # "idle", hook' \in Hooks,
         hook'.steady \subseteq hook.steady, hook'.live = hook.live,
         hook'.declared = hook.declared,
         hook'.declared > 0 =>
            /\ hook'.reason # "conversational"
            /\ hook'.pc = "decide" => hook'.contract.state # "absent",
         QueueKnown', ScopeKnown'
  PROVE  IInv'
<1>1. TypeOK'
  BY DEF IInv, TypeOK, still, files, task
<1>2. FilesKnow'
  BY FilesStand DEF IInv, still, task
<1>3. HookRuns' /\ ContractKnown'
  BY DEF IInv, HookKnows, HookRuns, ContractKnown, still, files, task, Active,
     Unfinished
<1> QED BY <1>1, <1>2, <1>3 DEF IInv, HookKnows

LEMMA Stops ==
  ASSUME IInv, Stop
  PROVE  IInv'
<1>1. UNCHANGED still /\ faults' \in 0 .. MaxFaults /\ turn = "working" /\ entering = {}
  BY DEF Stop, IInv, TypeOK
<1>2. CASE Allow("stop_hook_active") \/ Allow("user_released")
  BY <1>1, <1>2, Ended DEF Reasons
<1>3. CASE /\ turn' = "stopping"
           /\ hook' = [Resting EXCEPT !.pc = "mode", !.live = Unfinished \cap {first},
                                      !.steady = Active, !.declared = declared]
           /\ UNCHANGED <<active, outcome>>
  <2>1. /\ hook'.pc = "mode" /\ hook'.live = Unfinished \cap {first} /\ hook'.steady = Active
        /\ hook'.declared = declared
        /\ hook'.reason = "none" /\ hook'.mark = Unknown
    BY <1>3, Records DEF Hooks
  <2>2. hook' \in Hooks
    BY <1>3, Records DEF Hooks, IInv, TypeOK, Active, Unfinished
  <2>3. TypeOK'
    BY <1>1, <1>3, <2>2 DEF IInv, TypeOK, still, files, task
  <2>4. FilesKnow'
    BY <1>1, FilesStand DEF IInv, still, task
  <2>5. Active' = Active /\ Unfinished' = Unfinished /\ UNCHANGED <<declared, entering>>
    BY <1>1 DEF still, files, task, Active, Unfinished
  <2>6. HookKnows'
    BY <1>1, <1>3, <2>1, <2>5, Records
       DEF HookKnows, HookRuns, ContractKnown, QueueKnown, ScopeKnown, Ending, Queues, Waking,
           Tasking
  <2> QED BY <2>3, <2>4, <2>6 DEF IInv
<1> QED BY <1>2, <1>3 DEF Stop

\* The fields that a step to another place leaves alone.
LEMMA Advance ==
  ASSUME NEW h \in Hooks, NEW p, p \in {"contract", "decide", "watermark", "in_progress",
           "ready", "open", "git", "pr", "judge", "task", "wake_root", "wake_blockers",
           "task_ready", "task_root", "task_blocked", "task_drained"}
  PROVE  LET n == [h EXCEPT !.pc = p]
         IN  /\ n \in Hooks /\ n.pc = p
             /\ n.steady = h.steady /\ n.declared = h.declared /\ n.reason = h.reason
             /\ n.contract = h.contract /\ n.mark = h.mark /\ n.seen = h.seen
             /\ n.live = h.live
BY DEF Hooks

LEMMA LoadModeIInv ==
  ASSUME IInv, LoadMode
  PROVE  IInv'
<1>1. UNCHANGED still /\ faults' \in 0 .. MaxFaults /\ hook.pc = "mode" /\ hook \in Hooks
  BY DEF LoadMode, IInv, TypeOK
<1>2. CASE Deny("task_mode_incident_unresolved")
  BY <1>1, <1>2, Ended DEF Reasons
<1>3. CASE /\ hook' = [hook EXCEPT !.pc = IF mode = None THEN "contract" ELSE "task"]
           /\ UNCHANGED <<turn, active, outcome>>
  <2>1. /\ hook' \in Hooks /\ hook'.pc = IF mode = None THEN "contract" ELSE "task"
        /\ hook'.steady = hook.steady /\ hook'.live = hook.live /\ hook'.declared = hook.declared
        /\ hook'.reason = hook.reason /\ hook'.mark = hook.mark
    BY <1>1, <1>3, Advance
  <2>2. QueueKnown'
    BY <1>1, <2>1 DEF IInv, HookKnows, QueueKnown, Queues, Ending
  <2>3. ScopeKnown'
    BY <1>1, <2>1 DEF ScopeKnown, still, task, Queues, Ending, Waking, Tasking
  <2>4. hook'.declared > 0 => hook'.reason # "conversational"
    BY <2>1 DEF IInv, HookKnows, ContractKnown
  <2> QED BY <1>1, <1>3, <2>1, <2>2, <2>3, <2>4, GoesOn
<1> QED BY <1>2, <1>3 DEF LoadMode

LEMMA LoadContractIInv ==
  ASSUME IInv, LoadContract
  PROVE  IInv'
<1>1. /\ hook.pc = "contract" /\ hook \in Hooks /\ contract \in Contracts
      /\ hook' = [hook EXCEPT !.pc = "decide", !.contract = contract]
      /\ UNCHANGED <<still, turn, active, outcome, faults>> /\ faults \in 0 .. MaxFaults
  BY DEF LoadContract, sure, IInv, TypeOK
<1>2. /\ hook' \in Hooks /\ hook'.pc = "decide" /\ hook'.contract = contract
      /\ hook'.steady = hook.steady /\ hook'.live = hook.live /\ hook'.declared = hook.declared
      /\ hook'.reason = hook.reason /\ hook'.mark = hook.mark
  BY <1>1 DEF Hooks
<1>3. hook'.declared > 0 =>
        hook'.reason # "conversational" /\ hook'.contract.state # "absent"
  BY <1>2 DEF IInv, HookKnows, ContractKnown, FilesKnow
<1>4. QueueKnown'
  BY <1>1, <1>2 DEF IInv, HookKnows, QueueKnown, Queues, Ending
<1>5. ScopeKnown'
  BY <1>1, <1>2 DEF IInv, HookKnows, ScopeKnown, still, task, Queues, Ending, Waking, Tasking
<1> QED BY <1>1, <1>2, <1>3, <1>4, <1>5, GoesOn

LEMMA DecideIInv ==
  ASSUME IInv, Decide
  PROVE  IInv'
<1>1. /\ hook.pc = "decide" /\ hook \in Hooks /\ UNCHANGED still
      /\ faults' = faults /\ faults \in 0 .. MaxFaults
  BY DEF Decide, IInv, TypeOK
<1>2. ASSUME NEW reason \in Reasons, NEW place \in {"watermark", "judge"},
             hook' = [hook EXCEPT !.pc = place, !.reason = reason, !.contract = Missing],
             UNCHANGED <<turn, active, outcome>>,
             reason = "conversational" => hook.contract.state = "absent",
             place = "judge" => reason = "conversational"
      PROVE  IInv'
  <2>1. /\ hook' \in Hooks /\ hook'.pc = place /\ hook'.reason = reason
        /\ hook'.steady = hook.steady /\ hook'.live = hook.live /\ hook'.declared = hook.declared
        /\ hook'.mark = hook.mark
    BY <1>1, <1>2, Records DEF Hooks
  <2>2. hook'.declared > 0 => hook'.reason # "conversational"
    BY <1>1, <1>2, <2>1 DEF IInv, HookKnows, ContractKnown
  <2>3. QueueKnown'
    BY <1>1, <1>2, <2>1 DEF IInv, HookKnows, QueueKnown, Queues, Ending
  <2>4. ScopeKnown'
    BY <1>1, <2>1 DEF IInv, HookKnows, ScopeKnown, still, task, Queues, Ending, Waking, Tasking
  <2> QED BY <1>1, <1>2, <2>1, <2>2, <2>3, <2>4, GoesOn
<1>3. /\ {"verification_passed", "wakeup_registered", "conversational",
          "verification_suppressed", "no_completion_or_resumption_proof"} \subseteq Reasons
  BY DEF Reasons
<1> QED BY <1>1, <1>2, <1>3, Ended DEF Decide

-----------------------------------------------------------------------------
(* Outside task mode: the queue, git and the pull request.                 *)

LEMMA Marking == ASSUME TypeOK PROVE Watermark \in Marks
<1>1. contract.older \in SUBSET Beads /\ start \in Marks
  BY DEF TypeOK, Contracts
<1> QED BY <1>1 DEF Watermark, Marks

LEMMA Lists ==
  /\ Listed("in_progress") = {b \in Beads : beads[b] = "in_progress"}
  /\ Listed("ready") = {b \in Beads : beads[b] = "ready"}
  /\ Listed("open") = {b \in Beads : beads[b] \in {"ready", "waiting"}}
  /\ Then("in_progress") = "ready" /\ Then("ready") = "open"
BY DEF Listed, Then

\* The queue shows no work that it should not, or bd cannot say.
LEMMA Drains ==
  ASSUME IInv, UNCHANGED <<still, turn, active, outcome>>, faults' \in 0 .. MaxFaults,
         hook.pc \in {"watermark"} \cup Queues,
         NEW h \in Hooks, hook' = Drained(h), h.steady \subseteq hook.steady,
         h.live = hook.live, h.declared = hook.declared, h.reason = hook.reason,
         ~h.mark.known \/ h.steady = {}
  PROVE  IInv'
<1>1. /\ hook' \in Hooks /\ hook'.pc \in {"git", "judge"}
      /\ hook'.steady = h.steady /\ hook'.live = h.live
      /\ hook'.declared = h.declared /\ hook'.reason = h.reason
      /\ hook'.mark = h.mark
  <2> DEFINE p == IF h.reason = "verification_passed" THEN "git" ELSE "judge"
  <2>1. p \in {"git", "judge"} /\ hook' = [h EXCEPT !.seen = {}, !.pc = p]
    BY DEF Drained
  <2> HIDE DEF p
  <2> QED BY <2>1 DEF Hooks
<1>2. mode = None /\ hook.pc # "idle"
  BY DEF IInv, HookKnows, ScopeKnown, Queues
<1>3. hook'.declared > 0 => hook'.reason # "conversational"
  BY <1>1 DEF IInv, HookKnows, ContractKnown
<1>4. QueueKnown'
  BY <1>1 DEF QueueKnown, Queues
<1>5. ScopeKnown'
  BY <1>1, <1>2 DEF ScopeKnown, still, task, Waking, Tasking
<1> QED BY <1>1, <1>2, <1>3, <1>4, <1>5, GoesOn

LEMMA LoadWatermarkIInv ==
  ASSUME IInv, LoadWatermark
  PROVE  IInv'
<1>1. /\ hook.pc = "watermark" /\ hook \in Hooks /\ faults' \in 0 .. MaxFaults
      /\ UNCHANGED <<still, turn, active, outcome>>
  BY DEF LoadWatermark, sure, IInv, TypeOK
<1>2. ~hook.mark.known /\ mode = None
  BY <1>1 DEF IInv, HookKnows, QueueKnown, ScopeKnown
<1>3. CASE ~Watermark.known
  <2>1. hook' = Drained(hook)
    BY <1>3 DEF LoadWatermark
  <2> QED BY <1>1, <1>2, <2>1, Drains
<1>4. CASE Watermark.known
  <2>1. hook' = [hook EXCEPT !.pc = "in_progress", !.mark = Watermark,
                             !.steady = @ \ Watermark.older]
    BY <1>4 DEF LoadWatermark
  <2>2. Watermark \in Marks
    BY Marking DEF IInv
  <2>3. /\ hook' \in Hooks /\ hook'.pc = "in_progress" /\ hook'.mark = Watermark
        /\ hook'.steady = hook.steady \ Watermark.older
        /\ hook'.live = hook.live /\ hook'.declared = hook.declared /\ hook'.reason = hook.reason
    BY <1>1, <2>1, <2>2 DEF Hooks
  <2>4. hook'.declared > 0 => hook'.reason # "conversational"
    BY <2>3 DEF IInv, HookKnows, ContractKnown
  <2>5. QueueKnown' /\ ScopeKnown'
    BY <1>1, <1>2, <2>3 DEF QueueKnown, ScopeKnown, still, task, Ending, Waking, Tasking
  <2> QED BY <1>1, <2>3, <2>4, <2>5, GoesOn
<1> QED BY <1>3, <1>4

\* The hook goes on to the next query, or all of them were made.
LEMMA QueryEnds ==
  ASSUME IInv, UNCHANGED still, faults' \in 0 .. MaxFaults, hook.pc \in Queues,
         NEW h \in Hooks, AfterQuery(h), h.pc = hook.pc, h.steady \subseteq hook.steady,
         h.live = hook.live, h.declared = hook.declared, h.reason = hook.reason,
         h.mark = hook.mark,
         \A b \in h.steady :
           b \in h.seen \/ (beads[b] # "in_progress" /\ hook.pc # "open")
  PROVE  IInv'
<1>1. CASE Deny("implicit_queue_scoped")
  BY <1>1, Ended DEF Reasons
<1>2. CASE h.pc # "open" /\ hook' = [h EXCEPT !.pc = Then(h.pc)]
           /\ UNCHANGED <<turn, active, outcome>>
  <2>1. Then(h.pc) \in {"ready", "open"} /\ hook.pc # "idle"
    BY <1>2, Lists DEF Queues
  <2>2. /\ hook' \in Hooks /\ hook'.pc = Then(h.pc) /\ hook'.steady = h.steady
        /\ hook'.live = hook.live /\ hook'.declared = hook.declared
        /\ hook'.reason = hook.reason /\ hook'.seen = h.seen
        /\ hook'.mark = hook.mark
    BY <1>2, <2>1, Advance
  <2>3. hook'.declared > 0 => hook'.reason # "conversational"
    BY <2>2 DEF IInv, HookKnows, ContractKnown
  <2>4. QueueKnown'
    BY <2>1, <2>2 DEF IInv, HookKnows, QueueKnown, still, Ending
  <2>5. ScopeKnown'
    BY <2>1, <2>2
       DEF IInv, HookKnows, ScopeKnown, still, task, Queues, Ending, Waking, Tasking
  <2> QED BY <1>2, <2>1, <2>2, <2>3, <2>4, <2>5, GoesOn
<1>3. CASE h.pc = "open" /\ h.seen = {} /\ hook' = Drained(h)
           /\ UNCHANGED <<turn, active, outcome>>
  <2>1. h.steady = {}
    BY <1>3
  <2> QED BY <1>3, <2>1, Drains
<1> QED BY <1>1, <1>2, <1>3 DEF AfterQuery

LEMMA QueryIInv ==
  ASSUME IInv, Query
  PROVE  IInv'
<1> DEFINE h == [hook EXCEPT !.seen = @ \cup (Listed(hook.pc) \ hook.mark.older)]
<1>1. /\ hook.pc \in Queues /\ hook \in Hooks /\ faults' \in 0 .. MaxFaults
      /\ UNCHANGED still /\ AfterQuery(h)
  BY DEF Query, IInv, TypeOK, Queues
<1>2. Listed(hook.pc) \subseteq Beads
  BY <1>1, Lists DEF Queues
<1>3. /\ h \in Hooks /\ h.pc = hook.pc /\ h.steady = hook.steady /\ h.live = hook.live
      /\ h.declared = hook.declared /\ h.reason = hook.reason
      /\ h.seen = hook.seen \cup (Listed(hook.pc) \ hook.mark.older) /\ h.mark = hook.mark
  BY <1>1, <1>2 DEF Hooks
<1> HIDE DEF h
<1>4. \A b \in h.steady : b \in h.seen \/ (beads[b] # "in_progress" /\ hook.pc # "open")
  <2>1. \A b \in hook.steady :
          /\ b \in Beads /\ beads[b] \in {"ready", "waiting", "in_progress"}
          /\ b \notin hook.mark.older
    BY <1>1 DEF IInv, HookKnows, HookRuns, QueueKnown, Active
  <2>2. CASE hook.pc = "in_progress"
    BY <1>3, <2>1, <2>2, Lists
  <2>3. CASE hook.pc = "ready"
    BY <1>3, <2>3 DEF IInv, HookKnows, QueueKnown
  <2>4. CASE hook.pc = "open"
    <3>1. \A b \in hook.steady : beads[b] = "in_progress" => b \in hook.seen
      BY <2>4 DEF IInv, HookKnows, QueueKnown
    <3> QED BY <1>3, <2>1, <2>4, <3>1, Lists
  <2> QED BY <1>1, <2>2, <2>3, <2>4 DEF Queues
<1> QED BY <1>1, <1>3, <1>4, QueryEnds

LEMMA QueryFailsIInv ==
  ASSUME IInv, QueryFails
  PROVE  IInv'
<1> DEFINE h == [hook EXCEPT !.steady = {}]
<1>1. /\ hook.pc \in Queues /\ hook \in Hooks /\ UNCHANGED still
      /\ \/ hook' = Drained(h) /\ UNCHANGED <<turn, active, outcome>>
         \/ AfterQuery(h)
  BY DEF QueryFails, IInv, TypeOK, Queues
<1>2. faults' \in 0 .. MaxFaults
  BY GateAssumption DEF QueryFails, IInv, TypeOK
<1>3. /\ h \in Hooks /\ h.pc = hook.pc /\ h.steady = {}
      /\ h.live = hook.live /\ h.declared = hook.declared /\ h.reason = hook.reason
      /\ h.mark = hook.mark
  BY <1>1 DEF Hooks
<1> HIDE DEF h
<1> QED BY <1>1, <1>2, <1>3, Drains, QueryEnds

LEMMA EndingIInv ==
  ASSUME IInv, Git \/ PullRequest \/ Judge
  PROVE  IInv'
<1>1. /\ hook.pc \in Ending /\ hook \in Hooks /\ hook.reason \in Reasons
      /\ faults' \in 0 .. MaxFaults /\ UNCHANGED still
  BY DEF Git, PullRequest, Judge, IInv, TypeOK, Ending, Hooks
<1>2. {"verification_passed_git_work_remains", "verification_passed_unmerged_automerge_pr",
       "winddown_offer_work_remains"} \subseteq Reasons
  BY DEF Reasons
<1>3. CASE hook' = [hook EXCEPT !.pc = "pr"] /\ UNCHANGED <<turn, active, outcome>>
  <2>1. /\ hook' \in Hooks /\ hook'.pc = "pr" /\ hook'.steady = hook.steady
        /\ hook'.declared = hook.declared /\ hook'.reason = hook.reason
        /\ hook'.mark = hook.mark
    BY <1>1, <1>3, Advance
  <2>2. hook'.declared > 0 => hook'.reason # "conversational"
    BY <2>1 DEF IInv, HookKnows, ContractKnown
  <2>3. QueueKnown'
    BY <1>1, <2>1 DEF IInv, HookKnows, QueueKnown, Queues, Ending
  <2>4. ScopeKnown'
    BY <1>1, <2>1 DEF IInv, HookKnows, ScopeKnown, still, task, Waking, Tasking
  <2> QED BY <1>1, <1>3, <2>1, <2>2, <2>3, <2>4, GoesOn DEF Ending
<1> QED BY <1>1, <1>2, <1>3, Ended DEF Git, PullRequest, Judge

-----------------------------------------------------------------------------
(* In task mode.                                                           *)

\* A step to another place of the way through task mode.
LEMMA TaskGoesOn ==
  ASSUME IInv, UNCHANGED <<still, turn, active, outcome>>, faults' \in 0 .. MaxFaults,
         hook.pc \in Waking \cup Tasking, NEW p \in (Waking \cup Tasking) \ {"task"},
         NEW steady \in SUBSET hook.steady,
         hook' = [hook EXCEPT !.pc = p, !.steady = steady],
         p \in {"wake_blockers", "task_blocked", "task_drained"} => mode \notin hook.live,
         p \in {"task_root", "task_blocked"} =>
           \A b \in steady \cap Below(mode) : beads[b] # "ready",
         p = "task_drained" =>
           \A b \in steady \cap Below(mode) : beads[b] = "in_progress"
  PROVE  IInv'
<1>1. /\ hook \in Hooks /\ hook.pc # "idle" /\ p # "idle"
  BY DEF IInv, TypeOK, Waking, Tasking
<1>2. /\ hook' \in Hooks /\ hook'.pc = p /\ hook'.steady = steady /\ hook'.live = hook.live
      /\ hook'.declared = hook.declared /\ hook'.reason = hook.reason
  BY <1>1 DEF Hooks, Waking, Tasking
<1>3. hook'.declared > 0 => hook'.reason # "conversational"
  BY <1>2 DEF IInv, HookKnows, ContractKnown
<1>4. QueueKnown'
  BY <1>2 DEF QueueKnown, Queues, Ending, Waking, Tasking
<1>5. mode # None
  BY DEF IInv, HookKnows, ScopeKnown
<1>6. Below(mode)' = Below(mode) /\ UNCHANGED <<mode, beads>>
  BY DEF Below, still, task
<1>7. ScopeKnown'
  BY <1>2, <1>5, <1>6 DEF ScopeKnown, Queues, Ending, Waking, Tasking
<1>8. hook'.pc # "decide"
  BY <1>2 DEF Waking, Tasking
<1> QED BY <1>1, <1>2, <1>3, <1>4, <1>7, <1>8, GoesOn

LEMMA TaskMoves ==
  ASSUME IInv, UNCHANGED <<still, faults>>, hook.pc \in Waking \cup Tasking,
         NEW p \in (Waking \cup Tasking) \ {"task"}, At(p),
         p \in {"wake_blockers", "task_blocked", "task_drained"} => mode \notin hook.live,
         p \in {"task_root", "task_blocked"} =>
           \A b \in hook.steady \cap Below(mode) : beads[b] # "ready",
         p = "task_drained" =>
           \A b \in hook.steady \cap Below(mode) : beads[b] = "in_progress"
  PROVE  IInv'
<1>1. /\ hook \in Hooks /\ faults' \in 0 .. MaxFaults
      /\ hook' = [hook EXCEPT !.pc = p] /\ UNCHANGED <<turn, active, outcome>>
  BY DEF At, IInv, TypeOK, Hooks
<1>2. hook' = [hook EXCEPT !.pc = p, !.steady = hook.steady]
  BY <1>1 DEF Hooks
<1> QED BY <1>1, <1>2, TaskGoesOn

\* A closed bead is not live.
LEMMA ClosedIsNotLive ==
  ASSUME IInv, beads[mode] = "closed"
  PROVE  mode \notin hook.live
BY DEF IInv, HookKnows, HookRuns, Unfinished

LEMMA TaskIInv ==
  ASSUME IInv, \/ TaskMode \/ WakeRoot \/ WakeBlockers
               \/ TaskReady \/ TaskRoot \/ TaskBlocked \/ TaskEnds
  PROVE  IInv'
<1>1. /\ hook \in Hooks /\ faults' \in 0 .. MaxFaults /\ UNCHANGED <<still, faults>>
  BY DEF TaskMode, WakeRoot, WakeBlockers, TaskReady, TaskRoot, TaskBlocked, TaskEnds, IInv,
         TypeOK
<1>2. {"parent_outcome_unresolved", "wakeup_registered", "wakeup_blocker_unverified",
       "tasks_remain_in_queue", "queue_drained", "blocked_tasks_no_wakeup"} \subseteq Reasons
  BY DEF Reasons
<1>3. ASSUME (\E reason \in Reasons : Allow(reason)) \/ (\E reason \in Reasons : Deny(reason))
      PROVE  IInv'
  BY <1>1, <1>3, Ended
<1>4. CASE TaskMode
  <2>1. hook.pc = "task" /\ \E p \in {"wake_root", "task_ready"} : At(p)
    BY <1>4 DEF TaskMode
  <2> QED BY <1>1, <2>1, TaskMoves DEF Waking, Tasking
<1>5. CASE WakeRoot
  <2>1. CASE hook.pc = "wake_root" /\ beads[mode] = "closed" /\ At("wake_blockers")
    BY <1>1, <2>1, ClosedIsNotLive, TaskMoves DEF Waking, Tasking
  <2> QED BY <1>2, <1>3, <1>5, <2>1 DEF WakeRoot
<1>6. CASE WakeBlockers
  BY <1>2, <1>3, <1>6 DEF WakeBlockers
<1>7. CASE TaskReady
  <2>1. CASE /\ hook.pc = "task_ready" /\ Below(mode) \cap Listed("ready") = {}
             /\ At("task_root")
    <3>1. Below(mode) \subseteq Beads
      BY DEF Below
    <3>2. \A b \in hook.steady \cap Below(mode) : beads[b] # "ready"
      BY <2>1, <3>1, Lists
    <3> QED BY <1>1, <2>1, <3>2, TaskMoves DEF Waking, Tasking
  <2> QED BY <1>2, <1>3, <1>7, <2>1 DEF TaskReady
<1>8. CASE TaskRoot
  <2>1. CASE hook.pc = "task_root" /\ beads[mode] = "closed" /\ At("task_blocked")
    <3>1. \A b \in hook.steady \cap Below(mode) : beads[b] # "ready"
      BY <2>1 DEF IInv, HookKnows, ScopeKnown
    <3> QED BY <1>1, <2>1, <3>1, ClosedIsNotLive, TaskMoves DEF Waking, Tasking
  <2> QED BY <1>2, <1>3, <1>8, <2>1 DEF TaskRoot
<1>9. CASE TaskBlocked
  <2>1. CASE hook.pc = "task_blocked" /\ Blocked({}) /\ At("task_drained")
    <3>1. mode \notin hook.live
      BY <2>1 DEF IInv, HookKnows, ScopeKnown
    <3>2. \A b \in hook.steady \cap Below(mode) : beads[b] = "in_progress"
      <4>1. \A b \in hook.steady : beads[b] \in {"ready", "waiting", "in_progress"}
        BY DEF IInv, HookKnows, HookRuns, Active
      <4>2. \A b \in Below(mode) : beads[b] # "waiting"
        BY <2>1 DEF Blocked
      <4>3. \A b \in hook.steady \cap Below(mode) : beads[b] # "ready"
        BY <2>1 DEF IInv, HookKnows, ScopeKnown
      <4> QED BY <4>1, <4>2, <4>3
    <3> QED BY <1>1, <2>1, <3>1, <3>2, TaskMoves DEF Waking, Tasking
  <2> QED BY <1>2, <1>3, <1>9, <2>1 DEF TaskBlocked
<1>10. CASE TaskEnds
  BY <1>2, <1>3, <1>10 DEF TaskEnds
<1> QED BY <1>4, <1>5, <1>6, <1>7, <1>8, <1>9, <1>10

LEMMA TaskFailsIInv ==
  ASSUME IInv, TaskFails
  PROVE  IInv'
<1>1. UNCHANGED still /\ faults' \in 0 .. MaxFaults
  BY GateAssumption DEF TaskFails, IInv, TypeOK
<1>2. {"task_mode_bd_ready_failed", "task_mode_bd_unavailable", "parent_outcome_unresolved"}
        \subseteq Reasons
  BY DEF Reasons
<1>3. CASE \/ Deny("parent_outcome_unresolved") \/ Deny("task_mode_bd_ready_failed")
           \/ Allow("task_mode_bd_unavailable")
  BY <1>1, <1>2, <1>3, Ended
<1>4. CASE /\ hook.pc = "task_ready" /\ hook' = [hook EXCEPT !.pc = "task_root", !.steady = {}]
           /\ UNCHANGED <<turn, active, outcome>>
  <2>1. {} \in SUBSET hook.steady /\ "task_root" \in (Waking \cup Tasking) \ {"task"}
    BY DEF Waking, Tasking
  <2> QED BY <1>1, <1>4, <2>1, TaskGoesOn DEF Tasking
<1>5. CASE /\ hook.pc = "task_blocked"
           /\ hook' = [hook EXCEPT !.pc = "task_drained", !.steady = {}]
           /\ UNCHANGED <<turn, active, outcome>>
  <2>1. mode \notin hook.live
    BY <1>5 DEF IInv, HookKnows, ScopeKnown
  <2>2. {} \in SUBSET hook.steady /\ "task_drained" \in (Waking \cup Tasking) \ {"task"}
    BY DEF Waking, Tasking
  <2> QED BY <1>1, <1>5, <2>1, <2>2, TaskGoesOn DEF Tasking
<1> QED BY <1>3, <1>4, <1>5 DEF TaskFails

-----------------------------------------------------------------------------
LEMMA IInvInit == Init => IInv
<1> SUFFICES ASSUME Init PROVE IInv
  OBVIOUS
<1>1. /\ contract = Missing /\ declaring = Missing /\ declared = 0
      /\ verify = [v \in Verifiers |-> NotRunning] /\ hook = Resting /\ mode = None
      /\ first = None /\ turn = "working"
  BY DEF Init
<1>2. TypeOK
  <2>1. beads \in [Beads -> Statuses] /\ plan \in Plans
    BY DEF Init, Statuses
  <2>2. start \in Marks /\ faults \in 0 .. MaxFaults
    <3>1. CASE start = [known |-> TRUE, older |-> Filed] /\ faults = 0
      BY <3>1, GateAssumption DEF Marks, Filed
    <3>2. CASE start = Unknown /\ faults = 1 /\ MaxFaults > 0
      BY <3>2, GateAssumption, Records
    <3> QED BY <3>1, <3>2 DEF Init
  <2>3. 0 \in Numbers /\ "none" \in Reasons
    BY GateAssumption DEF Numbers, Reasons
  <2> QED BY <1>1, <2>1, <2>2, <2>3, Records DEF Init, TypeOK
<1>3. FilesKnow
  BY <1>1, Records DEF FilesKnow
<1>4. HookKnows
  BY <1>1, Records DEF HookKnows, HookRuns, ContractKnown, QueueKnown, ScopeKnown, Ending,
     Queues, Waking, Tasking
<1> QED BY <1>2, <1>3, <1>4 DEF IInv

LEMMA IInvStep == IInv /\ [Next]_vars => IInv'
<1> SUFFICES ASSUME IInv, [Next]_vars PROVE IInv'
  OBVIOUS
<1>1. CASE (\E b \in Beads : File(b) \/ Update(b) \/ Claim(b)) \/ Entering
  BY <1>1, BeadSteps, Claims, Entries DEF Entering
<1>2. CASE Declare \/ Declaring \/ Expire
  BY <1>2, Declarations
<1>3. CASE \E v \in Verifiers : Verifying(v)
  BY <1>3, VerifierSteps
<1>4. CASE RegisterWake \/ WakeComes \/ UserPrompt \/ UNCHANGED vars
  BY <1>4, OtherSteps
<1>5. CASE Stop
  BY <1>5, Stops
<1>6. CASE StopHook
  BY <1>6, LoadModeIInv, LoadContractIInv, DecideIInv, LoadWatermarkIInv, QueryIInv,
     QueryFailsIInv, EndingIInv, TaskIInv, TaskFailsIInv DEF StopHook
<1> QED BY <1>1, <1>2, <1>3, <1>4, <1>5, <1>6 DEF Next

LEMMA Invariant == Spec => []IInv
BY IInvInit, IInvStep, PTL DEF Spec

-----------------------------------------------------------------------------
(* The theorems.                                                           *)

\* The files and the hook keep their shape, whoever wrote over whom and wherever
\* a writer died.
THEOREM TypeCorrect == Spec => []TypeOK
<1>1. IInv => TypeOK
  BY DEF IInv
<1> QED BY <1>1, Invariant, PTL

\* Only these steps end a turn; the others leave it, or send the session back.
LEMMA Endings ==
  ASSUME Next, turn # "ended", turn' = "ended"
  PROVE  \/ Stop /\ outcome' \in {"stop_hook_active", "user_released"}
         \/ /\ hook.pc \in {"pr", "judge"} /\ outcome' = hook.reason
            /\ UNCHANGED still
         \/ /\ hook.pc = "wake_blockers" /\ outcome' = "wakeup_registered"
            /\ UNCHANGED still
         \/ hook.pc = "task_drained" /\ outcome' = "queue_drained" /\ UNCHANGED still
         \/ ~found /\ outcome' = "task_mode_bd_unavailable"
<1>1. ASSUME NEW reason, Deny(reason) PROVE FALSE
  BY <1>1 DEF Deny
<1>2. CASE Stop
  BY <1>2 DEF Stop, Allow
<1>3. CASE PullRequest \/ Judge
  BY <1>1, <1>3 DEF PullRequest, Judge, Allow
<1>4. CASE WakeBlockers
  BY <1>1, <1>4 DEF WakeBlockers, Allow
<1>5. CASE TaskEnds \/ TaskFails
  BY <1>1, <1>5 DEF TaskEnds, TaskFails, Allow
<1>6. CASE LoadMode \/ LoadContract \/ Decide
  BY <1>1, <1>6 DEF LoadMode, LoadContract, Decide, sure
<1>7. CASE LoadWatermark \/ Query \/ QueryFails \/ Git
  BY <1>1, <1>7 DEF LoadWatermark, Query, QueryFails, AfterQuery, Git, sure
<1>8. CASE TaskMode \/ WakeRoot \/ TaskReady \/ TaskRoot \/ TaskBlocked
  BY <1>1, <1>8 DEF TaskMode, WakeRoot, TaskReady, TaskRoot, TaskBlocked, At
<1>9. CASE (\E b \in Beads : File(b) \/ Update(b) \/ Claim(b)) \/ Entering
  BY <1>9 DEF File, Update, Claim, Entering, Enter, EnterDies, MoveBead, session
<1>10. CASE Declare \/ Declaring \/ Expire
  BY <1>10 DEF Declare, Declaring, DeclareWrites, DeclareDies, Expire, others, base, session
<1>11. CASE \E v \in Verifiers : Verifying(v)
  BY <1>11 DEF Verifying, VerifyStarts, VerifyLoads, VerifyTruncates, VerifyWrites,
               VerifyPrunes, VerifyDies, base, session
<1>12. CASE RegisterWake \/ WakeComes \/ UserPrompt
  BY <1>12 DEF RegisterWake, WakeComes, UserPrompt, session
<1> QED BY <1>2, <1>3, <1>4, <1>5, <1>6, <1>7, <1>8, <1>9, <1>10, <1>11, <1>12
        DEF Next, StopHook

\* However init_contract and verify write over each other's contract.json, and
\* wherever they die, a session that declared a contract before its Stop hook
\* started does not pass for a conversation.
THEOREM SessionWithContractIsHeld == Spec => ConversationalIsFree
<1>1. IInv /\ [Next]_vars => [Ends({"conversational"}) => hook.declared = 0]_vars
  <2> SUFFICES ASSUME IInv, Next, Ends({"conversational"}) PROVE hook.declared = 0
    OBVIOUS
  <2>1. turn # "ended" /\ turn' = "ended" /\ outcome' = "conversational"
    BY DEF Ends
  <2>2. hook.reason = "conversational"
    BY <2>1, Endings
  <2>3. hook.declared \in Nat
    BY DEF IInv, TypeOK, Hooks, Numbers
  <2> QED BY <2>2, <2>3 DEF IInv, HookKnows, ContractKnown
<1> QED BY <1>1, Invariant, PTL DEF Spec, ConversationalIsFree

\* Outside task mode, a bead that was active when the hook started, and that nobody
\* changed but to let it wait while the hook asked bd its three questions, was seen
\* by it: a verdict or a wake ends the turn only if the bead is older than the
\* watermark.
THEOREM SteadyWorkIsSeen == Spec => SteadyWorkBlocks
<1>1. IInv /\ [Next]_vars =>
        [Ends({"verification_passed", "wakeup_registered"}) /\ mode = None =>
           ~hook.mark.known \/ hook.steady = {}]_vars
  <2> SUFFICES ASSUME IInv, Next, Ends({"verification_passed", "wakeup_registered"}),
                      mode = None
               PROVE  ~hook.mark.known \/ hook.steady = {}
    OBVIOUS
  <2>1. /\ turn # "ended" /\ turn' = "ended"
        /\ outcome' \in {"verification_passed", "wakeup_registered"}
    BY DEF Ends
  <2>2. hook.pc \notin {"wake_blockers", "task_drained"}
    BY DEF IInv, HookKnows, ScopeKnown, Waking, Tasking
  <2>3. /\ hook.pc \in Ending
        /\ hook.reason \in {"verification_passed", "wakeup_registered"}
    BY <2>1, <2>2, Endings DEF Ending
  <2> QED BY <2>3 DEF IInv, HookKnows, QueueKnown
<1> QED BY <1>1, Invariant, PTL DEF Spec, SteadyWorkBlocks

\* In task mode, where the first claim set the scope, whoever reopens its root: the
\* root was closed at some moment since the hook started when the gate lets the turn
\* end where Beads is found; and of the molecule every bead that nobody changed but
\* to let it wait is in progress, if bd answered that its queue is drained.
THEOREM TaskEndsClosed == Spec => TaskOutcomeIsClosed
<1>1. IInv /\ [Next]_vars =>
        [Ends(Reasons \ {"stop_hook_active", "user_released"}) /\ first # None =>
           /\ \/ first \notin hook.live
              \/ ~found /\ outcome' = "task_mode_bd_unavailable"
           /\ outcome' = "queue_drained" =>
                \A b \in hook.steady \cap Below(first) : beads[b] = "in_progress"]_vars
  <2> SUFFICES ASSUME IInv, Next,
                      Ends(Reasons \ {"stop_hook_active", "user_released"}), first # None
               PROVE  /\ \/ first \notin hook.live
                         \/ ~found /\ outcome' = "task_mode_bd_unavailable"
                      /\ outcome' = "queue_drained" =>
                           \A b \in hook.steady \cap Below(first) : beads[b] = "in_progress"
    OBVIOUS
  <2>1. /\ turn # "ended" /\ turn' = "ended" /\ mode = first
        /\ outcome' \notin {"stop_hook_active", "user_released"}
    BY DEF Ends, IInv, FilesKnow
  <2>2. hook.pc \notin {"pr", "judge"}
    BY <2>1 DEF IInv, HookKnows, ScopeKnown, Ending
  <2>3. \/ hook.pc = "wake_blockers" /\ outcome' = "wakeup_registered"
        \/ hook.pc = "task_drained" /\ outcome' = "queue_drained"
        \/ ~found /\ outcome' = "task_mode_bd_unavailable"
    BY <2>1, <2>2, Endings
  <2>4. hook.pc \in {"wake_blockers", "task_drained"} => first \notin hook.live
    BY <2>1 DEF IInv, HookKnows, ScopeKnown
  <2>5. hook.pc = "task_drained" =>
          \A b \in hook.steady \cap Below(first) : beads[b] = "in_progress"
    BY <2>1 DEF IInv, HookKnows, ScopeKnown
  <2> QED BY <2>3, <2>4, <2>5
<1> QED BY <1>1, Invariant, PTL DEF Spec, TaskOutcomeIsClosed
=============================================================================
