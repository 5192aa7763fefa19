--------------------- MODULE ContinuationWatchdog_proofs ---------------------
(***************************************************************************)
(* What a pass may do to a turn, for any sessions, times, attempts, passes *)
(* and crashes: its launch budget, what the first pass found, which turns  *)
(* are seen, and that a turn is continued once.                            *)
(*                                                                         *)
(* A crash throws the pass's copy of the records away, so the budget has   *)
(* to be kept by the stored one: Covered says that a record which is not   *)
(* terminal counts every launch of its turn, in both copies, and that the  *)
(* claim which is stored before a launch counts that one already.  The     *)
(* other invariants follow the same two copies.                            *)
(***************************************************************************)
EXTENDS ContinuationWatchdog, TLAPS

\* No launch of a turn that may be launched again is uncounted.
Covered(recs) ==
  \A k \in Keys : recs[k].phase \in Terminal \/ launches[k] <= recs[k].attempts

PassIsCovered == pass.pc \notin {"idle", "scan"} => Covered(pass.recs)

\* The turn at hand has attempts left until it is claimed ...
HasAttemptsLeft ==
  pass.pc \in {"judge", "recheck", "claim"} =>
    \A k \in pass.key : /\ Rec(k).phase \notin Terminal
                        /\ Rec(k).attempts < MaxHostAttempts

\* ... and the claim counts the launch to come.
ClaimCounts ==
  pass.pc = "launch" =>
    \A k \in pass.key : /\ launches[k] < pass.recs[k].attempts
                        /\ launches[k] < stored.recs[k].attempts

Budget ==
  /\ LaunchesAreBounded /\ Covered(stored.recs)
  /\ PassIsCovered /\ HasAttemptsLeft /\ ClaimCounts

IInv == TypeOK /\ Budget

-----------------------------------------------------------------------------
(* Types of the operators the actions are built from.                      *)

\* Every constant number of minutes fits the range of the recorded times.
LEMMA MinutesHold ==
  ASSUME WatchdogAssumption
  PROVE  /\ Longest({Quiet + MaxAge, Lease, Grace, Backoff, MaxDelay}) \in Nat
         /\ {0, Lease, Grace, Backoff} \subseteq Minutes
         /\ \A n \in 0 .. MaxAge : Quiet + n \in Minutes
<1> DEFINE S == {Quiet + MaxAge, Lease, Grace, Backoff, MaxDelay}
<1>1. {Quiet, Lease, Grace, Backoff, MaxAge, MaxDelay} \subseteq Nat
  BY DEF WatchdogAssumption
<1>2. Quiet + MaxAge \in Nat  BY <1>1
<1>3. \E m \in S : \A x \in S : x <= m
  <2>1. PICK a \in {Quiet + MaxAge, Lease} : \A x \in {Quiet + MaxAge, Lease} : x <= a
    BY <1>1, <1>2
  <2>2. PICK b \in {a, Grace} : \A x \in {a, Grace} : x <= b  BY <1>1, <1>2, <2>1
  <2>3. PICK c \in {b, Backoff} : \A x \in {b, Backoff} : x <= c  BY <1>1, <1>2, <2>1, <2>2
  <2>4. PICK d \in {c, MaxDelay} : \A x \in {c, MaxDelay} : x <= d
    BY <1>1, <1>2, <2>1, <2>2, <2>3
  <2>5. d \in S  BY <2>1, <2>2, <2>3, <2>4
  <2>6. \A x \in S : x <= d  BY <1>1, <1>2, <2>1, <2>2, <2>3, <2>4
  <2> QED  BY <2>5, <2>6
<1>4. Longest(S) \in S /\ \A x \in S : x <= Longest(S)
  BY <1>3 DEF Longest
<1>5. Longest(S) \in Nat  BY <1>1, <1>2, <1>4
<1>6. \A n \in 0 .. MaxAge : Quiet + n \in 0 .. Longest(S)
  <2> SUFFICES ASSUME NEW n \in 0 .. MaxAge PROVE Quiet + n \in 0 .. Longest(S)  OBVIOUS
  <2>1. Quiet + MaxAge <= Longest(S)  BY <1>4
  <2> QED  BY <1>1, <1>5, <2>1
<1>7. {0, Lease, Grace, Backoff} \subseteq 0 .. Longest(S)
  BY <1>1, <1>4, <1>5
<1> QED  BY <1>5, <1>6, <1>7 DEF Minutes

\* Time that has passed is 0, and never less.
LEMMA LeftHolds ==
  ASSUME WatchdogAssumption, NEW t \in Minutes, NEW n \in Nat
  PROVE  Left(t, n) \in Minutes
BY MinutesHold DEF Left, Minutes

\* A fresh record is well formed.
LEMMA RecordType ==
  ASSUME WatchdogAssumption, NEW phase \in {"none", "pending"} \cup Terminal
  PROVE  Record(phase) \in Records
BY MinutesHold DEF Record, Records, WatchdogAssumption

\* The record the loop works on.
LEMMA RecType ==
  ASSUME WatchdogAssumption, pass \in Passes, NEW k \in Keys
  PROVE  Rec(k) \in Records
BY RecordType DEF Rec, Passes

\* Ageing keeps the records' types, phases and attempts.
LEMMA AgedRecords ==
  ASSUME WatchdogAssumption, NEW recs \in [Keys -> Records], NEW n \in Nat
  PROVE  /\ Aged(recs, n) \in [Keys -> Records]
         /\ \A k \in Keys : /\ Aged(recs, n)[k].phase = recs[k].phase
                            /\ Aged(recs, n)[k].attempts = recs[k].attempts
<1> SUFFICES ASSUME NEW k \in Keys
             PROVE  /\ [recs[k] EXCEPT !.until = Left(@, n), !.backoff = Left(@, n)] \in Records
                    /\ Aged(recs, n)[k].phase = recs[k].phase
                    /\ Aged(recs, n)[k].attempts = recs[k].attempts
  BY DEF Aged
<1>1. recs[k] \in Records  OBVIOUS
<1>2. Left(recs[k].until, n) \in Minutes /\ Left(recs[k].backoff, n) \in Minutes
  BY <1>1, LeftHolds DEF Records
<1> QED  BY <1>1, <1>2 DEF Records, Aged

LEMMA CalmType ==
  ASSUME WatchdogAssumption, session \in [Sessions -> Transcripts],
         NEW s \in Sessions, NEW n \in Nat
  PROVE  Calm(s, n) \in Transcripts
<1>1. session[s] \in Transcripts  OBVIOUS
<1>2. Left(session[s].quiet, n) \in Minutes  BY <1>1, LeftHolds DEF Transcripts
<1> QED  BY <1>1, <1>2 DEF Calm, Transcripts

LEMMA WriteType ==
  ASSUME session \in [Sessions -> Transcripts], NEW s \in Sessions,
         NEW t \in Transcripts, Write(s, t)
  PROVE  session' \in [Sessions -> Transcripts]
BY DEF Write, Transcripts

\* The empty pass.
LEMMA IdleType ==
  ASSUME WatchdogAssumption
  PROVE  Idle \in Passes
BY RecordType DEF Idle, Passes, NoRecord, WatchdogAssumption

LEMMA DoneType ==
  ASSUME pass \in Passes, NEW k \in Keys, NEW r \in Records, Done(k, r)
  PROVE  pass' \in Passes
BY DEF Done, Passes

LEMMA GoOnType ==
  ASSUME pass \in Passes, NEW k \in Keys, NEW r \in Records,
         NEW pc \in {"judge", "recheck", "claim", "launch"},
         NEW n \in 0 .. MaxEvaluations, GoOn(k, r, pc, n)
  PROVE  pass' \in Passes
BY DEF GoOn, Passes

-----------------------------------------------------------------------------
(* The budget, by what a step changes.                                     *)

\* The sessions live their own lives.
LEMMA SessionsOnly ==
  ASSUME Budget, UNCHANGED <<stored, pass, launches>>
  PROVE  Budget'
BY DEF Budget, LaunchesAreBounded, Covered, PassIsCovered, HasAttemptsLeft,
       ClaimCounts, Rec

\* The record the loop works on counts the launches of its turn.
LEMMA RecIsCovered ==
  ASSUME TypeOK, Covered(pass.recs), NEW k \in Keys
  PROVE  Rec(k).phase \in Terminal \/ launches[k] <= Rec(k).attempts
<1>1. CASE pass.recs[k] = NoRecord
  <2>1. pass.recs[k].phase \notin Terminal /\ pass.recs[k].attempts = 0
    BY <1>1 DEF NoRecord, Record, Terminal
  <2>2. launches[k] <= 0  BY <2>1 DEF Covered
  <2>3. Rec(k).attempts = 0  BY <1>1 DEF Rec, Record
  <2> QED  BY <2>2, <2>3
<1>2. CASE pass.recs[k] # NoRecord
  BY <1>2 DEF Rec, Covered
<1> QED  BY <1>1, <1>2

\* The loop goes on with the next turn.
LEMMA DoneBudget ==
  ASSUME IInv, NEW k \in Keys, NEW r \in Records, Done(k, r),
         pass.pc \notin {"idle", "scan"}, UNCHANGED <<stored, launches>>,
         r.phase \in Terminal \/ launches[k] <= r.attempts
  PROVE  Budget'
<1>1. pass \in Passes /\ Covered(pass.recs)
  BY DEF IInv, TypeOK, Budget, PassIsCovered
<1>2. pass'.pc = "loop" /\ pass'.recs = [pass.recs EXCEPT ![k] = r]
  BY <1>1 DEF Done, Passes
<1>3. Covered(pass.recs)'
  BY <1>1, <1>2 DEF Covered, Passes
<1>4. LaunchesAreBounded' /\ Covered(stored.recs)'
  BY DEF IInv, Budget, LaunchesAreBounded, Covered
<1> QED  BY <1>2, <1>3, <1>4 DEF Budget, PassIsCovered, HasAttemptsLeft, ClaimCounts

\* The loop goes on with this turn, which may be launched.
LEMMA GoOnBudget ==
  ASSUME IInv, NEW k \in Keys, NEW r \in Records, NEW n,
         NEW pc \in {"judge", "recheck", "claim"}, GoOn(k, r, pc, n),
         pass.pc \notin {"idle", "scan"}, UNCHANGED <<stored, launches>>,
         r.phase \notin Terminal, r.attempts < MaxHostAttempts,
         launches[k] <= r.attempts
  PROVE  Budget'
<1>1. pass \in Passes /\ Covered(pass.recs)
  BY DEF IInv, TypeOK, Budget, PassIsCovered
<1>2. /\ pass'.pc = pc /\ pass'.key = {k}
      /\ pass'.recs = [pass.recs EXCEPT ![k] = r]
  BY <1>1 DEF GoOn, Passes
<1>3. Covered(pass.recs)'
  BY <1>1, <1>2 DEF Covered, Passes
<1>4. LaunchesAreBounded' /\ Covered(stored.recs)'
  BY DEF IInv, Budget, LaunchesAreBounded, Covered
<1>5. HasAttemptsLeft'
  <2>1. pass'.recs[k] = r  BY <1>1, <1>2 DEF Passes
  <2>2. CASE r = NoRecord
    <3>1. Rec(k)' = Record("pending")  BY <2>1, <2>2 DEF Rec
    <3>2. r.attempts = 0  BY <2>2 DEF NoRecord, Record
    <3> QED  BY <1>2, <3>1, <3>2 DEF HasAttemptsLeft, Record, Terminal
  <2>3. CASE r # NoRecord
    <3>1. Rec(k)' = r  BY <2>1, <2>3 DEF Rec
    <3> QED  BY <1>2, <3>1 DEF HasAttemptsLeft
  <2> QED  BY <2>2, <2>3
<1> QED  BY <1>2, <1>3, <1>4, <1>5 DEF Budget, PassIsCovered, ClaimCounts

\* A pass is over; what is stored counts the launches.
LEMMA OverBudget ==
  ASSUME IInv, UNCHANGED launches, pass' = Idle, Covered(stored'.recs)
  PROVE  Budget'
<1>1. pass'.pc = "idle"  BY DEF Idle
<1>2. LaunchesAreBounded' /\ Covered(stored.recs)'
  BY DEF IInv, Budget, LaunchesAreBounded, Covered
<1> QED  BY <1>1, <1>2 DEF Budget, PassIsCovered, HasAttemptsLeft, ClaimCounts

\* A pass ends and its records are stored.
LEMMA EndPassHolds ==
  ASSUME WatchdogAssumption, IInv, NEW recs \in [Keys -> Records], Covered(recs),
         EndPass(recs), UNCHANGED <<launches, delivered, late, crashes>>,
         baseline' \subseteq Keys, old' \subseteq Keys
  PROVE  IInv'
<1>1. pass \in Passes /\ session \in [Sessions -> Transcripts]
  BY DEF IInv, TypeOK
<1>2. pass.age \in Nat  BY <1>1 DEF WatchdogAssumption, Passes
<1>3. \A s \in Sessions : Calm(s, pass.age) \in Transcripts
  BY <1>1, <1>2, CalmType
<1>4. session' \in [Sessions -> Transcripts]
  <2>1. \A s \in Sessions : session[s].changedNow \in BOOLEAN
    BY <1>1 DEF Transcripts
  <2>2. \A s \in Sessions :
          [Calm(s, pass.age) EXCEPT !.changed = session[s].changedNow] \in Transcripts
    BY <1>3, <2>1 DEF Transcripts
  <2> QED  BY <2>2 DEF EndPass
<1>5. stored' = [initialized |-> TRUE, recs |-> Aged(recs, pass.age)]
  BY DEF EndPass, Store
<1>6. /\ Aged(recs, pass.age) \in [Keys -> Records]
      /\ \A k \in Keys : /\ Aged(recs, pass.age)[k].phase = recs[k].phase
                         /\ Aged(recs, pass.age)[k].attempts = recs[k].attempts
  BY <1>2, AgedRecords
<1>7. pass' = Idle /\ pass' \in Passes  BY IdleType DEF EndPass
<1>8. TypeOK'
  BY <1>4, <1>5, <1>6, <1>7 DEF IInv, TypeOK
<1>9. Covered(stored'.recs)
  BY <1>5, <1>6 DEF Covered
<1> QED  BY <1>7, <1>8, <1>9, OverBudget DEF IInv

-----------------------------------------------------------------------------
(* The steps.                                                              *)

LEMMA InitHolds ==
  ASSUME WatchdogAssumption, Init
  PROVE  IInv
<1>1. session \in [Sessions -> Transcripts]
  <2> DEFINE First ==
        [ turn : {1}, ended : BOOLEAN, quiet : {0}, markers : {{}}, open : {FALSE},
          home : {TRUE}, changed : BOOLEAN, changedNow : {FALSE}, sent : {{}} ]
  <2>1. 0 \in Minutes  BY MinutesHold
  <2>2. 1 \in Turns  BY DEF Turns, WatchdogAssumption
  <2>3. First \subseteq Transcripts  BY <2>1, <2>2 DEF Transcripts
  <2>4. session \in [Sessions -> First]  BY DEF Init
  <2> HIDE DEF First
  <2> QED  BY <2>3, <2>4
<1>2. NoRecord \in Records  BY RecordType DEF NoRecord
<1>3. TypeOK
  BY <1>1, <1>2, IdleType DEF Init, TypeOK, WatchdogAssumption
<1>4. Budget
  <2>1. pass.pc = "idle"  BY DEF Init, Idle
  <2>2. \A k \in Keys : launches[k] = 0 /\ stored.recs[k] = NoRecord
    BY DEF Init
  <2>3. LaunchesAreBounded  BY <2>2 DEF LaunchesAreBounded, WatchdogAssumption
  <2>4. Covered(stored.recs)  BY <2>2 DEF Covered, NoRecord, Record
  <2> QED  BY <2>1, <2>3, <2>4 DEF Budget, PassIsCovered, HasAttemptsLeft, ClaimCounts
<1> QED  BY <1>3, <1>4 DEF IInv

\* What happens to sessions outside the watchdog: what is written is a transcript.
LEMMA UsedWrites ==
  ASSUME WatchdogAssumption, TypeOK, NEW s \in Sessions, Used(s),
         ~OpenOrClose(s), ~HomeGoes(s)
  PROVE  \E t \in Transcripts : Write(s, t)
<1>1. session[s] \in Transcripts /\ pass \in Passes
  BY DEF TypeOK
<1>2. 0 \in Minutes /\ \A n \in 0 .. MaxAge : Quiet + n \in Minutes
  BY MinutesHold
<1>3. CASE UserTurn(s)
  <2>1. [session[s] EXCEPT !.ended = FALSE, !.quiet = 0] \in Transcripts
    BY <1>1, <1>2 DEF Transcripts
  <2> QED  BY <1>3, <2>1 DEF UserTurn
<1>4. CASE TurnEnds(s)
  <2>1. session[s].turn + 1 \in Turns
    BY <1>1, <1>4 DEF TurnEnds, Transcripts, Turns, WatchdogAssumption
  <2>2. Quiet + pass.age \in Minutes  BY <1>1, <1>2 DEF Passes
  <2>3. [session[s] EXCEPT !.ended = TRUE, !.turn = @ + 1,
                           !.quiet = Quiet + pass.age] \in Transcripts
    BY <1>1, <2>1, <2>2 DEF Transcripts
  <2> QED  BY <1>4, <2>3 DEF TurnEnds
<1>5. CASE Touch(s)
  BY <1>1, <1>5 DEF Touch
<1>6. CASE \E m \in session[s].sent : Deliver(s, m)
  <2>1. PICK m \in session[s].sent : Deliver(s, m)  BY <1>6
  <2>2. m.turn \in Turns  BY <1>1 DEF Transcripts, Messages
  <2>3. PICK ended \in {FALSE, session[s].ended} :
          Write(s, [session[s] EXCEPT !.sent = @ \ {m}, !.markers = @ \cup {m.turn},
                                      !.ended = ended,
                                      !.quiet = IF ended THEN @ ELSE 0])
    BY <2>1 DEF Deliver
  <2>4. [session[s] EXCEPT !.sent = @ \ {m}, !.markers = @ \cup {m.turn},
                           !.ended = ended,
                           !.quiet = IF ended THEN @ ELSE 0] \in Transcripts
    BY <1>1, <1>2, <2>2 DEF Transcripts
  <2> QED  BY <2>3, <2>4
<1> QED  BY <1>3, <1>4, <1>5, <1>6 DEF Used

LEMMA UsedHolds ==
  ASSUME WatchdogAssumption, IInv, NEW s \in Sessions, Used(s)
  PROVE  IInv'
<1>1. session \in [Sessions -> Transcripts] /\ session[s] \in Transcripts
  BY DEF IInv, TypeOK
<1>2. UNCHANGED <<stored, pass, launches, late, baseline, old, crashes>>
  BY DEF Used, UserTurn, TurnEnds, Touch, OpenOrClose, HomeGoes, Deliver, history
<1>3. session' \in [Sessions -> Transcripts]
  <2>1. CASE OpenOrClose(s)  BY <1>1, <2>1 DEF OpenOrClose, Transcripts
  <2>2. CASE HomeGoes(s)  BY <1>1, <2>2 DEF HomeGoes, Transcripts
  <2>3. CASE ~OpenOrClose(s) /\ ~HomeGoes(s)
    BY <1>1, <2>3, UsedWrites, WriteType DEF IInv
  <2> QED  BY <2>1, <2>2, <2>3
<1>4. delivered' \in [Keys -> Nat]
  <2>1. CASE \E m \in session[s].sent : Deliver(s, m)
    <3>1. PICK m \in session[s].sent : Deliver(s, m)  BY <2>1
    <3>2. <<s, m.turn>> \in Keys  BY <1>1 DEF Transcripts, Messages, Keys
    <3> QED  BY <3>1, <3>2 DEF Deliver, IInv, TypeOK
  <2>2. CASE ~\E m \in session[s].sent : Deliver(s, m)
    BY <2>2 DEF Used, UserTurn, TurnEnds, Touch, OpenOrClose, HomeGoes, history, IInv, TypeOK
  <2> QED  BY <2>1, <2>2
<1>5. Budget'  BY <1>2, SessionsOnly DEF IInv
<1> QED  BY <1>2, <1>3, <1>4, <1>5 DEF IInv, TypeOK

LEMMA TickHolds ==
  ASSUME WatchdogAssumption, IInv, Tick
  PROVE  IInv'
<1>1. session \in [Sessions -> Transcripts] /\ pass \in Passes
      /\ stored.recs \in [Keys -> Records]
  BY DEF IInv, TypeOK
<1>2. ASSUME NEW s \in Sessions
      PROVE  {[m EXCEPT !.left = @ - 1] : m \in session[s].sent} \subseteq Messages
  <2> SUFFICES ASSUME NEW m \in session[s].sent
               PROVE  [m EXCEPT !.left = @ - 1] \in Messages
    OBVIOUS
  <2>1. m \in Messages /\ m.left > 0  BY <1>1 DEF Tick, Transcripts
  <2>2. m.left - 1 \in 0 .. MaxDelay
    BY <2>1 DEF Messages, WatchdogAssumption
  <2> QED  BY <2>1, <2>2 DEF Messages
<1>3. CASE pass.pc = "idle"
  <2>1. session' = [s \in Sessions |-> Travel(Calm(s, 1))]
        /\ stored' = [stored EXCEPT !.recs = Aged(@, 1)] /\ UNCHANGED pass
    BY <1>3 DEF Tick
  <2>2. ASSUME NEW s \in Sessions PROVE Travel(Calm(s, 1)) \in Transcripts
    <3>1. Calm(s, 1) \in Transcripts  BY <1>1, CalmType
    <3>2. Calm(s, 1).sent = session[s].sent  BY <1>1 DEF Calm, Transcripts
    <3> QED  BY <1>2, <3>1, <3>2 DEF Travel, Transcripts
  <2>3. /\ Aged(stored.recs, 1) \in [Keys -> Records]
        /\ \A k \in Keys : /\ Aged(stored.recs, 1)[k].phase = stored.recs[k].phase
                           /\ Aged(stored.recs, 1)[k].attempts = stored.recs[k].attempts
    BY <1>1, AgedRecords
  <2>4. TypeOK'
    BY <2>1, <2>2, <2>3 DEF IInv, TypeOK, Tick, history
  <2>5. stored'.recs = Aged(stored.recs, 1)  BY <2>1 DEF IInv, TypeOK
  <2>6. Covered(stored.recs)'
    BY <2>3, <2>5 DEF IInv, Budget, Covered, Tick, history
  <2>7. UNCHANGED launches  BY DEF Tick, history
  <2>8. LaunchesAreBounded'  BY <2>7 DEF IInv, Budget, LaunchesAreBounded
  <2> QED
    BY <1>3, <2>1, <2>4, <2>6, <2>8
    DEF IInv, Budget, PassIsCovered, HasAttemptsLeft, ClaimCounts
<1>4. CASE pass.pc # "idle"
  <2>1. /\ session' = [s \in Sessions |-> Travel(session[s])]
        /\ pass.age < MaxAge /\ pass' = [pass EXCEPT !.age = @ + 1]
        /\ UNCHANGED <<stored, launches>>
    BY <1>4 DEF Tick, history
  <2>2. pass' \in Passes
    BY <1>1, <2>1 DEF Passes, WatchdogAssumption
  <2>3. \A s \in Sessions : Travel(session[s]) \in Transcripts
    BY <1>1, <1>2 DEF Travel, Transcripts
  <2>4. TypeOK'  BY <2>1, <2>2, <2>3 DEF IInv, TypeOK, Tick, history
  <2>5. pass'.pc = pass.pc /\ pass'.recs = pass.recs /\ pass'.key = pass.key
    BY <1>1, <2>1 DEF Passes
  <2>6. \A k \in Keys : Rec(k)' = Rec(k)  BY <2>5 DEF Rec
  <2>7. pass.key \subseteq Keys  BY <1>1 DEF Passes
  <2>8. HasAttemptsLeft'
    BY <2>5, <2>6, <2>7 DEF IInv, Budget, HasAttemptsLeft
  <2> QED
    BY <2>1, <2>4, <2>5, <2>8
    DEF IInv, Budget, LaunchesAreBounded, Covered, PassIsCovered, ClaimCounts
<1> QED  BY <1>3, <1>4

\* The start of a pass, its first two steps, its end and its crash.
LEMMA PassStartHolds ==
  ASSUME WatchdogAssumption, IInv, PassStart
  PROVE  IInv'
<1>1. pass' \in Passes /\ pass'.pc = "scan"
  BY IdleType DEF PassStart, Idle, Passes
<1>2. UNCHANGED <<session, stored, history, crashes>>  BY DEF PassStart
<1>3. TypeOK'  BY <1>1, <1>2 DEF IInv, TypeOK, history
<1> QED
  BY <1>1, <1>2, <1>3
  DEF IInv, Budget, LaunchesAreBounded, Covered, PassIsCovered, HasAttemptsLeft,
      ClaimCounts, history

LEMMA DiscoveredKeys ==
  ASSUME TypeOK
  PROVE  discover \subseteq Keys /\ \A s \in Sessions : Parsed(s) \subseteq Keys
<1>1. \A s \in Sessions : session[s].turn \in Turns
  BY DEF TypeOK, Transcripts
<1> QED  BY <1>1 DEF discover, Parsed, Keys

LEMMA BaselineHolds ==
  ASSUME WatchdogAssumption, IInv, Baseline
  PROVE  IInv'
<1> DEFINE recs == [k \in Keys |-> IF k \in discover THEN Record("baseline")
                                                     ELSE stored.recs[k]]
<1>1. Record("baseline") \in Records  BY RecordType DEF Terminal
<1>2. recs \in [Keys -> Records]  BY <1>1 DEF IInv, TypeOK
<1>3. Covered(recs)
  BY DEF IInv, Budget, Covered, Record, Terminal
<1>4. baseline' \subseteq Keys /\ old' \subseteq Keys
  BY DiscoveredKeys DEF Baseline, IInv
<1>5. EndPass(recs) /\ UNCHANGED <<launches, delivered, late, crashes>>
  BY DEF Baseline
<1> HIDE DEF recs
<1> QED  BY <1>2, <1>3, <1>4, <1>5, EndPassHolds

LEMMA PassWriteHolds ==
  ASSUME WatchdogAssumption, IInv, PassWrite
  PROVE  IInv'
<1>1. pass.recs \in [Keys -> Records]  BY DEF IInv, TypeOK, Passes
<1>2. Covered(pass.recs)  BY DEF IInv, Budget, PassIsCovered, PassWrite
<1>3. /\ EndPass(pass.recs) /\ UNCHANGED <<launches, delivered, late, crashes>>
      /\ baseline' = baseline /\ old' = old
  BY DEF PassWrite, history
<1>4. baseline \subseteq Keys /\ old \subseteq Keys  BY DEF IInv, TypeOK
<1> QED  BY <1>1, <1>2, <1>3, <1>4, EndPassHolds

LEMMA PassCrashHolds ==
  ASSUME WatchdogAssumption, IInv, PassCrash
  PROVE  IInv'
<1>1. /\ pass \in Passes /\ session \in [Sessions -> Transcripts]
      /\ stored.recs \in [Keys -> Records]
  BY DEF IInv, TypeOK
<1>2. pass.age \in Nat  BY <1>1 DEF WatchdogAssumption, Passes
<1>3. \A s \in Sessions : Calm(s, pass.age) \in Transcripts
  BY <1>1, <1>2, CalmType
<1>4. /\ Aged(stored.recs, pass.age) \in [Keys -> Records]
      /\ \A k \in Keys :
           /\ Aged(stored.recs, pass.age)[k].phase = stored.recs[k].phase
           /\ Aged(stored.recs, pass.age)[k].attempts = stored.recs[k].attempts
  BY <1>1, <1>2, AgedRecords
<1>5. stored' = [stored EXCEPT !.recs = Aged(stored.recs, pass.age)]
      /\ stored'.recs = Aged(stored.recs, pass.age)
  BY DEF PassCrash, IInv, TypeOK
<1>6. pass' = Idle /\ pass' \in Passes  BY IdleType DEF PassCrash
<1>7. session' \in [Sessions -> Transcripts]  BY <1>3 DEF PassCrash
<1>8. crashes' \in 0 .. MaxCrashes
  BY DEF PassCrash, IInv, TypeOK, WatchdogAssumption
<1>9. TypeOK'
  BY <1>4, <1>5, <1>6, <1>7, <1>8 DEF IInv, TypeOK, PassCrash, history
<1>10. Covered(stored'.recs)
  BY <1>4, <1>5 DEF IInv, Budget, Covered
<1>11. UNCHANGED launches  BY DEF PassCrash, history
<1> QED  BY <1>6, <1>9, <1>10, <1>11, OverBudget DEF IInv

LEMMA ScanHolds ==
  ASSUME WatchdogAssumption, IInv, Scan
  PROVE  IInv'
<1> DEFINE gone == {k \in Waiting \ discover : ~Current(k)}
           candidates == discover \cup (Waiting \ gone)
           recs == [k \in Keys |-> IF k \in gone THEN Record("superseded")
                                                 ELSE stored.recs[k]]
<1>1. pass \in Passes /\ stored.recs \in [Keys -> Records]  BY DEF IInv, TypeOK
<1>2. Record("superseded") \in Records  BY RecordType DEF Terminal
<1>3. recs \in [Keys -> Records]  BY <1>1, <1>2
<1>4. candidates \subseteq Keys  BY DiscoveredKeys DEF IInv, Waiting
<1>5. {k \in candidates : session[SessionOf(k)].quiet > 0} \subseteq Keys  BY <1>4
<1>6. Covered(recs)
  BY DEF IInv, Budget, Covered, Record, Terminal
<1>7. pass' = [pass EXCEPT !.pc = "loop", !.recs = recs, !.todo = candidates,
                 !.early = {k \in candidates : session[SessionOf(k)].quiet > 0}]
  BY DEF Scan
<1>8. UNCHANGED <<session, stored, history, crashes>>  BY DEF Scan
<1> HIDE DEF recs, candidates
<1>9. pass' \in Passes /\ pass'.pc = "loop" /\ pass'.recs = recs
  BY <1>1, <1>3, <1>4, <1>5, <1>7 DEF Passes
<1>10. TypeOK'  BY <1>8, <1>9 DEF IInv, TypeOK, history
<1>11. Covered(pass.recs)'  BY <1>6, <1>8, <1>9 DEF Covered, history
<1> QED
  BY <1>8, <1>9, <1>10, <1>11
  DEF IInv, Budget, LaunchesAreBounded, Covered, PassIsCovered, HasAttemptsLeft,
      ClaimCounts, history

\* A step of the loop that closes, skips or puts off a turn.
LEMMA DoneHolds ==
  ASSUME WatchdogAssumption, IInv, NEW k \in Keys, NEW r \in Records, Done(k, r),
         pass.pc \notin {"idle", "scan"},
         UNCHANGED <<session, stored, history, crashes>>,
         r.phase \in Terminal \/ launches[k] <= r.attempts
  PROVE  IInv'
<1>1. Budget'  BY DoneBudget DEF history
<1>2. pass' \in Passes  BY DoneType DEF IInv, TypeOK
<1> QED  BY <1>1, <1>2 DEF IInv, TypeOK, history

\* A step of the loop that goes on with a turn.
LEMMA GoOnHolds ==
  ASSUME WatchdogAssumption, IInv, NEW k \in Keys, NEW r \in Records,
         NEW n \in 0 .. MaxEvaluations, NEW pc \in {"judge", "recheck", "claim"},
         GoOn(k, r, pc, n), pass.pc \notin {"idle", "scan"},
         UNCHANGED <<session, stored, history, crashes>>,
         r.phase \notin Terminal, r.attempts < MaxHostAttempts,
         launches[k] <= r.attempts
  PROVE  IInv'
<1>1. Budget'  BY GoOnBudget DEF history
<1>2. pass' \in Passes  BY GoOnType DEF IInv, TypeOK
<1> QED  BY <1>1, <1>2 DEF IInv, TypeOK, history

\* What is known of a turn when the loop works on it.
LEMMA AtWork ==
  ASSUME WatchdogAssumption, IInv, NEW k \in Keys, pass.pc \notin {"idle", "scan"}
  PROVE  /\ Rec(k) \in Records
         /\ Rec(k).phase \in Terminal \/ launches[k] <= Rec(k).attempts
         /\ pass.evaluated \in 0 .. MaxEvaluations
         /\ pass.pc \in {"judge", "recheck", "claim"} /\ k \in pass.key =>
              Rec(k).phase \notin Terminal /\ Rec(k).attempts < MaxHostAttempts
<1>1. pass \in Passes /\ Covered(pass.recs)
  BY DEF IInv, TypeOK, Budget, PassIsCovered
<1>2. Rec(k) \in Records  BY <1>1, RecType
<1>3. Rec(k).phase \in Terminal \/ launches[k] <= Rec(k).attempts
  BY <1>1, RecIsCovered DEF IInv
<1> QED  BY <1>1, <1>2, <1>3 DEF Passes, IInv, Budget, HasAttemptsLeft

\* Terminal records are of the right type and launch nothing more.
LEMMA TerminalRecord ==
  ASSUME WatchdogAssumption, NEW phase \in Terminal
  PROVE  Record(phase) \in Records /\ Record(phase).phase \in Terminal
BY RecordType DEF Record

LEMMA SkipHolds ==
  ASSUME WatchdogAssumption, IInv, NEW k \in Keys, Skip(k)
  PROVE  IInv'
<1>1. pass.pc \notin {"idle", "scan"}  BY DEF Skip, Turn
<1>2. Done(k, Rec(k)) /\ UNCHANGED <<session, stored, history, crashes>>
  BY DEF Skip
<1> QED  BY <1>1, <1>2, AtWork, DoneHolds

LEMMA CloseHolds ==
  ASSUME WatchdogAssumption, IInv, NEW k \in Keys, Close(k)
  PROVE  IInv'
<1>1. pass.pc \notin {"idle", "scan"}  BY DEF Close, Turn
<1>2. PICK phase \in {"delivered", "exhausted", "invalid"} : Done(k, Record(phase))
  BY DEF Close
<1>3. phase \in Terminal  BY DEF Terminal
<1>4. UNCHANGED <<session, stored, history, crashes>>  BY DEF Close
<1> QED  BY <1>1, <1>2, <1>3, <1>4, TerminalRecord, DoneHolds

LEMMA EvaluateHolds ==
  ASSUME WatchdogAssumption, IInv, NEW k \in Keys, Evaluate(k)
  PROVE  IInv'
<1>1. pass.pc \notin {"idle", "scan"}  BY DEF Evaluate, Turn
<1>2. Rec(k).phase \notin Terminal /\ Rec(k).attempts < MaxHostAttempts
  BY DEF Evaluate, Ready, Closed
<1>3. /\ Rec(k) \in Records /\ launches[k] <= Rec(k).attempts
      /\ pass.evaluated \in 0 .. MaxEvaluations
  BY <1>1, <1>2, AtWork
<1>4. UNCHANGED <<session, stored, history, crashes>>  BY DEF Evaluate
<1>5. CASE GoOn(k, Rec(k), "recheck", pass.evaluated)
  BY <1>1, <1>2, <1>3, <1>4, <1>5, GoOnHolds
<1>6. CASE pass.evaluated < MaxEvaluations
           /\ GoOn(k, Rec(k), "judge", pass.evaluated + 1)
  <2>1. pass.evaluated + 1 \in 0 .. MaxEvaluations
    BY <1>3, <1>6 DEF WatchdogAssumption
  <2> QED  BY <1>1, <1>2, <1>3, <1>4, <1>6, <2>1, GoOnHolds
<1> QED  BY <1>5, <1>6 DEF Evaluate

LEMMA JudgeHolds ==
  ASSUME WatchdogAssumption, IInv, NEW k \in Keys, Judge(k)
  PROVE  IInv'
<1>1. pass.pc \notin {"idle", "scan"} /\ pass.pc \in {"judge", "recheck", "claim"}
      /\ k \in pass.key
  BY DEF Judge
<1>2. /\ Rec(k) \in Records /\ launches[k] <= Rec(k).attempts
      /\ pass.evaluated \in 0 .. MaxEvaluations
      /\ Rec(k).phase \notin Terminal /\ Rec(k).attempts < MaxHostAttempts
  BY <1>1, AtWork
<1>3. UNCHANGED <<session, stored, history, crashes>>  BY DEF Judge
<1>4. CASE GoOn(k, [Rec(k) EXCEPT !.verdict = TRUE], "recheck", pass.evaluated)
  <2> DEFINE r == [Rec(k) EXCEPT !.verdict = TRUE]
  <2>1. r \in Records /\ r.phase = Rec(k).phase /\ r.attempts = Rec(k).attempts
    BY <1>2 DEF Records
  <2>2. GoOn(k, r, "recheck", pass.evaluated)  BY <1>4
  <2> HIDE DEF r
  <2> QED  BY <1>1, <1>2, <1>3, <2>1, <2>2, GoOnHolds
<1>5. CASE Done(k, Record("not_needed"))
  BY <1>1, <1>3, <1>5, TerminalRecord, DoneHolds DEF Terminal
<1> QED  BY <1>4, <1>5 DEF Judge

LEMMA JudgeFailsHolds ==
  ASSUME WatchdogAssumption, IInv, NEW k \in Keys, JudgeFails(k)
  PROVE  IInv'
<1> DEFINE r == [Rec(k) EXCEPT !.phase = "pending", !.backoff = Backoff]
<1>1. pass.pc \notin {"idle", "scan"} /\ pass.pc \in {"judge", "recheck", "claim"}
      /\ k \in pass.key
  BY DEF JudgeFails
<1>2. Rec(k) \in Records /\ launches[k] <= Rec(k).attempts
  BY <1>1, AtWork
<1>3. r \in Records /\ r.attempts = Rec(k).attempts
  BY <1>2, MinutesHold DEF Records
<1>4. Done(k, r) /\ UNCHANGED <<session, stored, history, crashes>>
  BY DEF JudgeFails
<1> HIDE DEF r
<1> QED  BY <1>1, <1>2, <1>3, <1>4, DoneHolds

LEMMA RecheckHolds ==
  ASSUME WatchdogAssumption, IInv, NEW k \in Keys, Recheck(k)
  PROVE  IInv'
<1>1. pass.pc \notin {"idle", "scan"} /\ pass.pc \in {"judge", "recheck", "claim"}
      /\ k \in pass.key
  BY DEF Recheck
<1>2. /\ Rec(k) \in Records /\ launches[k] <= Rec(k).attempts
      /\ pass.evaluated \in 0 .. MaxEvaluations
      /\ Rec(k).phase \notin Terminal /\ Rec(k).attempts < MaxHostAttempts
  BY <1>1, AtWork
<1>3. UNCHANGED <<session, stored, history, crashes>>  BY DEF Recheck
<1>4. CASE GoOn(k, Rec(k), "claim", pass.evaluated)
  BY <1>1, <1>2, <1>3, <1>4, GoOnHolds
<1>5. CASE \E phase \in {"delivered", "superseded"} : Done(k, Record(phase))
  BY <1>1, <1>3, <1>5, TerminalRecord, DoneHolds DEF Terminal
<1> QED  BY <1>4, <1>5 DEF Recheck

LEMMA BusyHolds ==
  ASSUME WatchdogAssumption, IInv, NEW k \in Keys, Busy(k)
  PROVE  IInv'
<1> DEFINE r == [Rec(k) EXCEPT !.phase = "pending"]
<1>1. pass.pc \notin {"idle", "scan"} /\ pass.pc \in {"judge", "recheck", "claim"}
      /\ k \in pass.key
  BY DEF Busy
<1>2. Rec(k) \in Records /\ launches[k] <= Rec(k).attempts
  BY <1>1, AtWork
<1>3. r \in Records /\ r.attempts = Rec(k).attempts
  BY <1>2 DEF Records
<1>4. Done(k, r) /\ UNCHANGED <<session, stored, history, crashes>>
  BY DEF Busy
<1> HIDE DEF r
<1> QED  BY <1>1, <1>2, <1>3, <1>4, DoneHolds

\* The claim counts its launch in both copies of the record.
LEMMA ClaimHolds ==
  ASSUME WatchdogAssumption, IInv, NEW k \in Keys, Claim(k)
  PROVE  IInv'
<1> DEFINE r == Claimed(k)
           recs == [pass.recs EXCEPT ![k] = r]
<1>1. pass.pc \notin {"idle", "scan"} /\ pass.pc \in {"judge", "recheck", "claim"}
      /\ k \in pass.key
  BY DEF Claim, MayClaim
<1>2. /\ Rec(k) \in Records /\ launches[k] <= Rec(k).attempts
      /\ pass.evaluated \in 0 .. MaxEvaluations
      /\ Rec(k).phase \notin Terminal /\ Rec(k).attempts < MaxHostAttempts
  BY <1>1, AtWork
<1>3. pass \in Passes /\ Covered(pass.recs) /\ launches \in [Keys -> Nat]
      /\ session \in [Sessions -> Transcripts]
  BY <1>1 DEF IInv, TypeOK, Budget, PassIsCovered
<1>4. r \in Records /\ r.attempts = Rec(k).attempts + 1
  <2>1. Rec(k).attempts + 1 \in 0 .. MaxHostAttempts
    BY <1>2 DEF Records, WatchdogAssumption
  <2> QED  BY <1>2, <2>1, MinutesHold DEF Claimed, Records
<1>5. launches[k] < r.attempts
  <2>1. Rec(k).attempts \in Nat  BY <1>2 DEF Records, WatchdogAssumption
  <2> QED  BY <1>2, <1>3, <1>4, <2>1
<1>6. /\ GoOn(k, r, "launch", pass.evaluated) /\ Store(recs)
      /\ session' = [s \in Sessions |-> Scanned(s)]
      /\ UNCHANGED <<history, crashes>>
  BY DEF Claim
<1> HIDE DEF r
<1>7. recs \in [Keys -> Records] /\ recs[k] = r  BY <1>3, <1>4 DEF Passes
<1>8. pass'.pc = "launch" /\ pass'.key = {k} /\ pass'.recs = recs
  BY <1>3, <1>6 DEF GoOn, Passes
<1>9. stored' = [initialized |-> TRUE, recs |-> recs]  BY <1>6 DEF Store
<1>10. Covered(recs)
  <2>1. launches[k] <= r.attempts
    <3>1. r.attempts \in Nat  BY <1>4 DEF Records, WatchdogAssumption
    <3> QED  BY <1>3, <1>5, <3>1
  <2> QED  BY <1>3, <2>1 DEF Covered, Passes
<1>11. TypeOK'
  <2>1. pass' \in Passes  BY <1>2, <1>3, <1>4, <1>6, GoOnType
  <2>2. session' \in [Sessions -> Transcripts]
    <3>1. \A s \in Sessions : Scanned(s) \in Transcripts
      BY <1>3 DEF Scanned, Transcripts
    <3> QED  BY <1>6, <3>1
  <2> HIDE DEF recs
  <2> QED  BY <1>6, <1>7, <1>9, <2>1, <2>2 DEF IInv, TypeOK, history
<1> HIDE DEF recs
<1>12. UNCHANGED launches /\ stored'.recs = recs  BY <1>6, <1>9 DEF history
<1>13. Covered(pass.recs)' /\ Covered(stored.recs)'
  BY <1>8, <1>10, <1>12 DEF Covered
<1>14. ClaimCounts'  BY <1>5, <1>7, <1>8, <1>12 DEF ClaimCounts
<1>15. LaunchesAreBounded'  BY <1>12 DEF IInv, Budget, LaunchesAreBounded
<1> QED
  BY <1>8, <1>11, <1>13, <1>14, <1>15
  DEF IInv, Budget, PassIsCovered, HasAttemptsLeft

LEMMA LaunchHolds ==
  ASSUME WatchdogAssumption, IInv, NEW k \in Keys, Launch(k)
  PROVE  IInv'
<1>1. pass.pc = "launch" /\ k \in pass.key  BY DEF Launch
<1>2. /\ pass \in Passes /\ Covered(pass.recs) /\ launches \in [Keys -> Nat]
      /\ session \in [Sessions -> Transcripts] /\ Covered(stored.recs)
      /\ stored.recs \in [Keys -> Records] /\ pass.recs \in [Keys -> Records]
  BY <1>1 DEF IInv, TypeOK, Budget, PassIsCovered, Passes
<1>3. launches[k] < pass.recs[k].attempts /\ launches[k] < stored.recs[k].attempts
  BY <1>1 DEF IInv, Budget, ClaimCounts
<1>4. /\ pass.recs[k].attempts \in 1 .. MaxHostAttempts
      /\ stored.recs[k].attempts \in 1 .. MaxHostAttempts
  BY <1>2, <1>3 DEF Records, WatchdogAssumption
<1>5. Rec(k) = pass.recs[k]
  <2>1. pass.recs[k] # NoRecord  BY <1>4 DEF NoRecord, Record
  <2> QED  BY <2>1 DEF Rec
<1>6. PICK phase \in {"launched", "pending"} :
        Done(k, [Rec(k) EXCEPT !.phase = phase, !.until = Grace])
  BY DEF Launch
<1> DEFINE r == [Rec(k) EXCEPT !.phase = phase, !.until = Grace]
<1>7. r \in Records /\ r.attempts = pass.recs[k].attempts
  BY <1>2, <1>5, MinutesHold DEF Records
<1>8. Done(k, r)  BY <1>6
<1> HIDE DEF r
<1>9. pass' \in Passes  BY <1>2, <1>7, <1>8, DoneType
<1>10. /\ launches' = [launches EXCEPT ![k] = @ + 1]
       /\ UNCHANGED <<stored, delivered, baseline, old, crashes>>
  BY DEF Launch
<1>11. session' \in [Sessions -> Transcripts]
  <2>1. SessionOf(k) \in Sessions /\ TurnOf(k) \in Turns
    BY DEF Keys, SessionOf, TurnOf
  <2>2. PICK message \in {{}, {[turn |-> TurnOf(k), attempt |-> Rec(k).attempts,
                                left |-> MaxDelay]}} :
          session' = [session EXCEPT ![SessionOf(k)].sent = @ \cup message]
    BY DEF Launch
  <2>3. [turn |-> TurnOf(k), attempt |-> Rec(k).attempts, left |-> MaxDelay] \in Messages
    BY <1>4, <1>5, <2>1 DEF Messages, WatchdogAssumption
  <2>4. message \subseteq Messages  BY <2>2, <2>3
  <2> QED  BY <1>2, <2>1, <2>2, <2>4 DEF Transcripts
<1>12. TypeOK'
  <2>1. launches' \in [Keys -> Nat] /\ late' \subseteq Keys
    BY <1>2, <1>10 DEF Launch, IInv, TypeOK, Passes
  <2> QED  BY <1>9, <1>10, <1>11, <2>1 DEF IInv, TypeOK
<1>13. launches'[k] = launches[k] + 1 /\ \A j \in Keys \ {k} : launches'[j] = launches[j]
  BY <1>2, <1>10
<1>14. launches'[k] <= pass.recs[k].attempts /\ launches'[k] <= stored.recs[k].attempts
       /\ launches'[k] <= MaxHostAttempts
  BY <1>2, <1>3, <1>4, <1>13 DEF WatchdogAssumption
<1>15. LaunchesAreBounded'
  BY <1>13, <1>14 DEF IInv, Budget, LaunchesAreBounded
<1>16. Covered(stored.recs)'
  BY <1>2, <1>10, <1>13, <1>14 DEF Covered
<1>17. pass'.pc = "loop" /\ pass'.recs = [pass.recs EXCEPT ![k] = r]
  BY <1>2, <1>8 DEF Done, Passes
<1>18. Covered(pass.recs)'
  BY <1>2, <1>7, <1>13, <1>14, <1>17 DEF Covered
<1> QED
  BY <1>12, <1>15, <1>16, <1>17, <1>18
  DEF IInv, Budget, PassIsCovered, HasAttemptsLeft, ClaimCounts

-----------------------------------------------------------------------------
(* The theorems about the budget.                                          *)

LEMMA NextHolds ==
  ASSUME WatchdogAssumption, IInv, [Next]_vars
  PROVE  IInv'
<1>1. CASE Tick  BY <1>1, TickHolds
<1>2. CASE PassStart  BY <1>2, PassStartHolds
<1>3. CASE Baseline  BY <1>3, BaselineHolds
<1>4. CASE Scan  BY <1>4, ScanHolds
<1>5. CASE PassWrite  BY <1>5, PassWriteHolds
<1>6. ASSUME NEW k \in Keys, Step(k) PROVE IInv'
  BY <1>6, SkipHolds, CloseHolds, EvaluateHolds, JudgeHolds, JudgeFailsHolds,
     RecheckHolds, BusyHolds, ClaimHolds, LaunchHolds DEF Step
<1>7. CASE PassCrash  BY <1>7, PassCrashHolds
<1>8. ASSUME NEW s \in Sessions, Used(s) PROVE IInv'  BY <1>8, UsedHolds
<1>9. CASE UNCHANGED vars
  <2>1. UNCHANGED <<session, stored, pass, launches, delivered, late, baseline, old, crashes>>
    BY <1>9 DEF vars, history
  <2>2. Budget'  BY <2>1, SessionsOnly DEF IInv
  <2> QED  BY <2>1, <2>2 DEF IInv, TypeOK
<1> QED  BY <1>1, <1>2, <1>3, <1>4, <1>5, <1>6, <1>7, <1>8, <1>9 DEF Next, Pass

\* The claims that are stored count every launch, in every reachable state.
THEOREM ClaimsCountLaunches == Spec => []IInv
<1>1. Init => IInv  BY WatchdogAssumption, InitHolds
<1>2. IInv /\ [Next]_vars => IInv'  BY WatchdogAssumption, NextHolds
<1> QED  BY <1>1, <1>2, PTL DEF Spec

\* state.json, the pass's copy of it, the sessions and the messages keep their
\* types as time passes and passes die.
THEOREM WatchdogTypeCorrect == Spec => []TypeOK
<1>1. IInv => TypeOK  BY DEF IInv
<1> QED  BY <1>1, ClaimsCountLaunches, PTL

\* No turn is launched more often than MAX_HOST_ATTEMPTS, wherever and however
\* often passes are killed.
THEOREM LaunchBudget == Spec => []LaunchesAreBounded
<1>1. IInv => LaunchesAreBounded  BY DEF IInv, Budget
<1> QED  BY <1>1, ClaimsCountLaunches, PTL


-----------------------------------------------------------------------------
(* What the first pass found, which turns are seen, and what is on its     *)
(* way to a session.                                                       *)

\* The pass has read the records.
Running == pass.pc \notin {"idle", "scan"}

\* Nothing is launched before the first pass, and the turns that it found stay
\* closed in both copies.
BaselineKept ==
  /\ ~stored.initialized =>
       baseline = {} /\ ~Running /\ \A k \in Keys : launches[k] = 0
  /\ \A k \in baseline : launches[k] = 0 /\ stored.recs[k].phase = "baseline"
  /\ Running => \A k \in baseline : pass.recs[k].phase = "baseline" /\ k \notin pass.key
  /\ ~Running => pass.key = {}

\* A record that was made has a phase.
Made(recs) == \A k \in Keys : recs[k].phase = "none" => recs[k] = NoRecord

\* Until a pass is killed: a turn that ended is recorded, is going to be by this
\* pass, or is in a transcript that the next scan looks at.
TurnsKept ==
  /\ Made(stored.recs) /\ (Running => Made(pass.recs))
  /\ stored.initialized /\ crashes = 0 => \A s \in Sessions : \A k \in Parsed(s) \ old :
       IF Running THEN pass.recs[k] # NoRecord \/ k \in pass.todo \/ session[s].changedNow
                  ELSE stored.recs[k] # NoRecord \/ session[s].changed

\* A record keeps its turn closed until a message has arrived, unless a launch of
\* the turn came late.
Covers(r, m) == r.phase \in Terminal \/ r.until > pass.age + m.left
Flying(k) == {m \in session[SessionOf(k)].sent : m.turn = TurnOf(k)}
Untouched(k) == Flying(k) = {} /\ ~contains_marker(k)

MessagesKept ==
  /\ pass.pc = "idle" => pass.age = 0
  /\ \A k \in Keys \ late : \A m \in Flying(k) :
       /\ ~contains_marker(k) /\ Flying(k) = {m}
       /\ Covers(stored.recs[k], m) /\ (Running => Covers(pass.recs[k], m))
  /\ \A k \in Keys \ late : delivered[k] = 0 \/ (delivered[k] = 1 /\ contains_marker(k))
  /\ pass.pc \in {"judge", "recheck", "claim", "launch"} => \A k \in pass.key \ late : Untouched(k)
  /\ pass.pc = "launch" => \A k \in pass.key : stored.recs[k].until = Lease


-----------------------------------------------------------------------------
(* What the steps of the loop have in common.                              *)

LEMMA DoneFields ==
  ASSUME pass \in Passes, NEW k \in Keys, NEW r, Done(k, r)
  PROVE  /\ pass'.pc = "loop" /\ pass'.key = {} /\ pass'.age = pass.age
         /\ pass'.todo = pass.todo \ {k} /\ pass'.recs = [pass.recs EXCEPT ![k] = r]
BY DEF Done, Passes

LEMMA GoOnFields ==
  ASSUME pass \in Passes, NEW k \in Keys, NEW r, NEW pc, NEW n, GoOn(k, r, pc, n)
  PROVE  /\ pass'.pc = pc /\ pass'.key = {k} /\ pass'.age = pass.age
         /\ pass'.todo = pass.todo \ {k} /\ pass'.recs = [pass.recs EXCEPT ![k] = r]
BY DEF GoOn, Passes

\* The record at hand is the one of the pass unless it has none yet.
LEMMA RecIs ==
  ASSUME NEW k \in Keys
  PROVE  /\ pass.recs[k] = NoRecord => Rec(k).phase = "pending" /\ pass.recs[k].phase = "none"
                                       /\ pass.recs[k].until = 0
         /\ pass.recs[k] # NoRecord => Rec(k) = pass.recs[k]
BY DEF Rec, Record, NoRecord

AtHand(k) == pass.pc \in {"judge", "recheck", "claim", "launch"} /\ k \in pass.key

\* The steps that launch nothing: the record of the turn at hand changes in the
\* pass's copy only, and only an open one.
LoopStep(k, r) ==
  /\ r.phase \in Terminal \cup {"pending"} \/ r.phase = Rec(k).phase
  /\ AtHand(k) \/ r = Rec(k) \/ (r.phase \in Terminal /\ ~Closed(k))
  /\ pass'.recs = [pass.recs EXCEPT ![k] = r]
  /\ \/ pass'.pc = "loop" /\ pass'.key = {}
     \/ /\ pass'.pc \in {"judge", "recheck", "claim"} /\ pass'.key = {k}
        /\ AtHand(k) \/ Ready(k)

LEMMA LoopSteps ==
  ASSUME IInv, NEW k \in Keys, Step(k), ~Claim(k), ~Launch(k)
  PROVE  /\ Running /\ UNCHANGED <<session, stored, history, crashes>>
         /\ pass'.age = pass.age /\ pass'.todo = pass.todo \ {k}
         /\ \E r \in Records : LoopStep(k, r)
<1>1. pass \in Passes /\ WatchdogAssumption /\ Rec(k) \in Records
  BY WatchdogAssumption, RecType DEF IInv, TypeOK
<1>2. \A phase \in Terminal : Record(phase) \in Records /\ Record(phase).phase = phase
  BY <1>1, TerminalRecord DEF Record
<1>3. CASE Skip(k)
  <2>1. /\ Done(k, Rec(k)) /\ pass.pc = "loop" /\ UNCHANGED <<session, stored, history, crashes>>
    BY <1>3 DEF Skip, Turn
  <2> QED BY <1>1, <2>1, DoneFields DEF Running, LoopStep
<1>4. CASE Close(k)
  <2>1. PICK phase \in {"delivered", "exhausted", "invalid"} : Done(k, Record(phase))
    BY <1>4 DEF Close
  <2>2. /\ pass.pc = "loop" /\ UNCHANGED <<session, stored, history, crashes>> /\ ~Closed(k)
        /\ phase \in Terminal
    BY <1>4 DEF Close, Turn, Terminal
  <2>3. Record(phase) \in Records /\ Record(phase).phase \in Terminal
    BY <1>2, <2>2
  <2>4. LoopStep(k, Record(phase)) /\ pass'.age = pass.age /\ pass'.todo = pass.todo \ {k}
    BY <1>1, <2>1, <2>2, <2>3, DoneFields DEF LoopStep
  <2> QED BY <2>2, <2>3, <2>4 DEF Running
<1>5. CASE Evaluate(k)
  <2>1. /\ pass.pc = "loop" /\ UNCHANGED <<session, stored, history, crashes>> /\ Ready(k)
    BY <1>5 DEF Evaluate, Turn
  <2>2. PICK pc \in {"judge", "recheck"}, n \in Int : GoOn(k, Rec(k), pc, n)
    BY <1>1, <1>5 DEF Evaluate, Passes
  <2> QED BY <1>1, <2>1, <2>2, GoOnFields DEF Running, LoopStep
<1>6. CASE Judge(k)
  <2>1. /\ AtHand(k) /\ Running /\ UNCHANGED <<session, stored, history, crashes>>
    BY <1>6 DEF Judge, AtHand, Running
  <2>2. CASE GoOn(k, [Rec(k) EXCEPT !.verdict = TRUE], "recheck", pass.evaluated)
    <3> DEFINE r == [Rec(k) EXCEPT !.verdict = TRUE]
    <3>1. r \in Records /\ r.phase = Rec(k).phase
      BY <1>1 DEF Records
    <3> HIDE DEF r
    <3>2. LoopStep(k, r) /\ pass'.age = pass.age /\ pass'.todo = pass.todo \ {k}
      BY <1>1, <2>1, <2>2, <3>1, GoOnFields DEF LoopStep, r
    <3> QED BY <2>1, <3>1, <3>2
  <2>3. CASE Done(k, Record("not_needed"))
    BY <1>1, <1>2, <2>1, <2>3, DoneFields, ZenonT(60) DEF LoopStep, Terminal
  <2> QED BY <1>6, <2>2, <2>3 DEF Judge
<1>7. CASE JudgeFails(k)
  <2> DEFINE r == [Rec(k) EXCEPT !.phase = "pending", !.backoff = Backoff]
  <2>1. /\ AtHand(k) /\ Running /\ UNCHANGED <<session, stored, history, crashes>> /\ Done(k, r)
    BY <1>7 DEF JudgeFails, AtHand, Running
  <2>2. r \in Records /\ r.phase = "pending"
    BY <1>1, MinutesHold DEF Records
  <2> HIDE DEF r
  <2> QED BY <1>1, <2>1, <2>2, DoneFields DEF LoopStep
<1>8. CASE Recheck(k)
  <2>1. /\ AtHand(k) /\ Running /\ UNCHANGED <<session, stored, history, crashes>>
    BY <1>8 DEF Recheck, AtHand, Running
  <2>2. CASE GoOn(k, Rec(k), "claim", pass.evaluated)
    BY <1>1, <2>1, <2>2, GoOnFields DEF LoopStep
  <2>3. CASE \E phase \in {"delivered", "superseded"} : Done(k, Record(phase))
    BY <1>1, <1>2, <2>1, <2>3, DoneFields, ZenonT(60) DEF LoopStep, Terminal
  <2> QED BY <1>8, <2>2, <2>3 DEF Recheck
<1>9. CASE Busy(k)
  <2> DEFINE r == [Rec(k) EXCEPT !.phase = "pending"]
  <2>1. /\ AtHand(k) /\ Running /\ UNCHANGED <<session, stored, history, crashes>> /\ Done(k, r)
    BY <1>9 DEF Busy, AtHand, Running
  <2>2. r \in Records /\ r.phase = "pending"
    BY <1>1 DEF Records
  <2> HIDE DEF r
  <2> QED BY <1>1, <2>1, <2>2, DoneFields DEF LoopStep
<1> QED BY <1>3, <1>4, <1>5, <1>6, <1>7, <1>8, <1>9 DEF Step

\* The step that claims, and the one that launches.
LEMMA ClaimStep ==
  ASSUME IInv, NEW k \in Keys, Claim(k)
  PROVE  /\ AtHand(k) /\ Running /\ UNCHANGED <<history, crashes>>
         /\ pass'.pc = "launch" /\ pass'.key = {k} /\ pass'.age = pass.age
         /\ pass'.todo = pass.todo \ {k}
         /\ pass'.recs = [pass.recs EXCEPT ![k] = Claimed(k)]
         /\ Claimed(k).phase = "launching" /\ Claimed(k).until = Lease
         /\ stored'.initialized /\ stored'.recs = [pass.recs EXCEPT ![k] = Claimed(k)]
         /\ session' = [s \in Sessions |-> Scanned(s)]
<1>1. pass \in Passes /\ Rec(k) \in Records
  BY WatchdogAssumption, RecType DEF IInv, TypeOK
<1>2. /\ AtHand(k) /\ Running /\ UNCHANGED <<history, crashes>>
      /\ session' = [s \in Sessions |-> Scanned(s)]
      /\ GoOn(k, Claimed(k), "launch", pass.evaluated)
      /\ Store([pass.recs EXCEPT ![k] = Claimed(k)])
  BY DEF Claim, MayClaim, AtHand, Running
<1>3. Claimed(k).phase = "launching" /\ Claimed(k).until = Lease
  BY <1>1 DEF Claimed, Records
<1>4. stored'.initialized /\ stored'.recs = [pass.recs EXCEPT ![k] = Claimed(k)]
  BY <1>2 DEF Store
<1> QED BY <1>1, <1>2, <1>3, <1>4, GoOnFields

LEMMA LaunchStep ==
  ASSUME IInv, NEW k \in Keys, Launch(k)
  PROVE  /\ AtHand(k) /\ Running /\ UNCHANGED <<stored, delivered, baseline, old, crashes>>
         /\ launches' = [launches EXCEPT ![k] = @ + 1]
         /\ pass'.pc = "loop" /\ pass'.key = {} /\ pass'.age = pass.age
         /\ pass'.todo = pass.todo \ {k}
         /\ \E r \in Records : /\ pass'.recs = [pass.recs EXCEPT ![k] = r]
                               /\ r.phase \in {"launched", "pending"} /\ r.until = Grace
         /\ \E message \in {{}, {[turn |-> TurnOf(k), attempt |-> Rec(k).attempts,
                                  left |-> MaxDelay]}} :
              session' = [session EXCEPT ![SessionOf(k)].sent = @ \cup message]
<1>1. pass \in Passes /\ Rec(k) \in Records
  BY WatchdogAssumption, RecType DEF IInv, TypeOK
<1>2. PICK phase \in {"launched", "pending"} :
        Done(k, [Rec(k) EXCEPT !.phase = phase, !.until = Grace])
  BY DEF Launch
<1> DEFINE r == [Rec(k) EXCEPT !.phase = phase, !.until = Grace]
<1>3. r \in Records /\ r.phase = phase /\ r.until = Grace
  BY <1>1, WatchdogAssumption, MinutesHold DEF Records
<1>4. Done(k, r)
  BY <1>2
<1> HIDE DEF r
<1>5. /\ pass'.pc = "loop" /\ pass'.key = {} /\ pass'.age = pass.age
      /\ pass'.todo = pass.todo \ {k} /\ pass'.recs = [pass.recs EXCEPT ![k] = r]
  BY <1>1, <1>4, DoneFields
<1>6. AtHand(k) /\ Running
  BY DEF Launch, AtHand, Running
<1> QED BY <1>3, <1>5, <1>6 DEF Launch

\* A pass that ends and one that is killed age what is stored.
LEMMA Ending ==
  ASSUME IInv, NEW recs \in [Keys -> Records], EndPass(recs)
  PROVE  /\ pass'.pc = "idle" /\ pass'.age = 0 /\ pass'.key = {} /\ ~Running'
         /\ stored'.initialized /\ stored'.recs = Aged(recs, pass.age)
         /\ pass.age \in Nat
         /\ session' = [s \in Sessions |->
              [Calm(s, pass.age) EXCEPT !.changed = session[s].changedNow]]
<1>1. pass.age \in Nat
  BY WatchdogAssumption DEF IInv, TypeOK, Passes, WatchdogAssumption
<1> QED BY <1>1 DEF EndPass, Store, Idle, Running

LEMMA Crashing ==
  ASSUME IInv, PassCrash
  PROVE  /\ pass'.pc = "idle" /\ pass'.age = 0 /\ pass'.key = {} /\ ~Running'
         /\ UNCHANGED history
         /\ stored'.initialized = stored.initialized /\ stored'.recs = Aged(stored.recs, pass.age)
         /\ pass.age \in Nat /\ crashes' # 0
         /\ session' = [s \in Sessions |-> Calm(s, pass.age)]
<1>1. pass.age \in Nat /\ crashes \in Nat
  BY WatchdogAssumption DEF IInv, TypeOK, Passes, WatchdogAssumption
<1>2. stored'.initialized = stored.initialized /\ stored'.recs = Aged(stored.recs, pass.age)
  BY DEF PassCrash, IInv, TypeOK
<1> QED BY <1>1, <1>2 DEF PassCrash, Idle, Running

LEMMA Ticking ==
  ASSUME IInv, Tick
  PROVE  /\ \A s \in Sessions : \A m \in session[s].sent : m.left > 0
         /\ UNCHANGED <<history, crashes>> /\ stored'.initialized = stored.initialized
         /\ pass'.pc = pass.pc /\ pass'.key = pass.key /\ pass'.recs = pass.recs
         /\ pass'.todo = pass.todo
         /\ \/ /\ pass.pc = "idle" /\ pass' = pass /\ stored'.recs = Aged(stored.recs, 1)
               /\ session' = [s \in Sessions |-> Travel(Calm(s, 1))]
            \/ /\ pass.pc # "idle" /\ pass'.age = pass.age + 1 /\ stored' = stored
               /\ session' = [s \in Sessions |-> Travel(session[s])]
<1>1. pass \in Passes /\ stored \in [initialized : BOOLEAN, recs : [Keys -> Records]]
  BY DEF IInv, TypeOK
<1> QED BY <1>1 DEF Tick, Passes

-----------------------------------------------------------------------------
(* What the first pass found.                                              *)

\* It is not worked on.
LEMMA BaselineRests ==
  ASSUME IInv, BaselineKept, Running, NEW k \in baseline
  PROVE  /\ k \in Keys /\ Rec(k) = pass.recs[k] /\ Closed(k) /\ ~Ready(k) /\ ~AtHand(k)
<1>1. k \in Keys /\ pass.recs[k].phase = "baseline" /\ k \notin pass.key
  BY DEF IInv, TypeOK, BaselineKept
<1>2. Rec(k) = pass.recs[k]
  BY <1>1, RecIs
<1> QED BY <1>1, <1>2 DEF Closed, Ready, AtHand, Terminal

LEMMA BaselineStep ==
  ASSUME IInv, BaselineKept, [Next]_vars
  PROVE  BaselineKept'
<1>1. /\ pass \in Passes /\ stored.recs \in [Keys -> Records] /\ baseline \subseteq Keys
      /\ launches \in [Keys -> Nat] /\ WatchdogAssumption
  BY WatchdogAssumption DEF IInv, TypeOK
<1>2. CASE (\E s \in Sessions : Used(s)) \/ UNCHANGED vars
  <2>1. UNCHANGED <<stored, pass, launches, baseline>>
    BY <1>2 DEF Used, UserTurn, TurnEnds, Touch, OpenOrClose, HomeGoes, Deliver, vars, history
  <2> QED BY <2>1 DEF BaselineKept, Running
<1>3. CASE Tick
  <2>1. \A k \in Keys : stored'.recs[k].phase = stored.recs[k].phase
    <3>1. \A k \in Keys : Aged(stored.recs, 1)[k].phase = stored.recs[k].phase
      <4>1. WatchdogAssumption /\ stored.recs \in [Keys -> Records] /\ 1 \in Nat
        BY <1>1
      <4> QED BY ONLY <4>1, AgedRecords
    <3> QED BY <1>3, <3>1, Ticking
  <2> QED BY <1>1, <1>3, <2>1, Ticking DEF BaselineKept, Running, history
<1>4. CASE PassStart
  <2>1. /\ ~Running' /\ UNCHANGED <<stored, launches, baseline>> /\ ~Running /\ pass'.key = {}
    BY <1>4 DEF PassStart, Running, Idle, history
  <2> QED BY <2>1 DEF BaselineKept
<1>5. CASE Baseline
  <2> DEFINE recs == [k \in Keys |-> IF k \in discover THEN Record("baseline")
                                                       ELSE stored.recs[k]]
  <2>1. recs \in [Keys -> Records] /\ \A k \in discover : k \in Keys /\ recs[k].phase = "baseline"
    BY <1>1, TerminalRecord, DiscoveredKeys DEF IInv, Record, Terminal
  <2>2. /\ EndPass(recs) /\ baseline' = discover /\ launches' = launches
        /\ ~stored.initialized
    BY <1>5 DEF Baseline
  <2> HIDE DEF recs
  <2>3. \A k \in discover : stored'.recs[k].phase = "baseline"
    BY <1>1, <2>1, <2>2, Ending, AgedRecords
  <2> QED BY <2>1, <2>2, <2>3, Ending DEF BaselineKept
<1>6. CASE PassWrite
  <2>1. EndPass(pass.recs) /\ UNCHANGED history /\ Running /\ pass.recs \in [Keys -> Records]
    BY <1>1, <1>6 DEF PassWrite, Running, Passes
  <2>2. \A k \in Keys : stored'.recs[k].phase = pass.recs[k].phase
    <3>1. stored'.recs = Aged(pass.recs, pass.age) /\ pass.age \in Nat
      BY <2>1, Ending
    <3>2. WatchdogAssumption /\ pass.recs \in [Keys -> Records]
      BY <1>1, <2>1
    <3> QED BY ONLY <3>1, <3>2, AgedRecords
  <2> QED BY <1>1, <2>1, <2>2, Ending DEF BaselineKept, history
<1>7. CASE PassCrash
  <2>1. \A k \in Keys : stored'.recs[k].phase = stored.recs[k].phase
    BY <1>1, <1>7, Crashing, AgedRecords
  <2> QED BY <1>1, <1>7, <2>1, Crashing DEF BaselineKept, history
<1>8. CASE Scan
  <2>1. stored.initialized /\ UNCHANGED <<stored, launches, baseline>> /\ ~Running
    BY <1>8 DEF Scan, history, Running
  <2>2. \A k \in baseline : pass'.recs[k] = stored.recs[k] /\ k \notin pass'.key
    <3>1. \A k \in baseline : k \notin Waiting
      BY DEF BaselineKept, Waiting, Terminal
    <3>2. pass.key = {}
      BY <2>1 DEF BaselineKept
    <3> QED BY <1>1, <1>8, <3>1, <3>2 DEF Scan, Passes
  <2>3. Running'
    BY <1>1, <1>8 DEF Scan, Running, Passes
  <2> QED BY <2>1, <2>2, <2>3 DEF BaselineKept
<1>9. ASSUME NEW k \in Keys, Step(k), ~Claim(k), ~Launch(k)
      PROVE  BaselineKept'
  <2>1. PICK r \in Records : LoopStep(k, r)
    BY <1>9, LoopSteps
  <2>2. Running /\ UNCHANGED <<stored, launches, baseline>>
    BY <1>9, LoopSteps DEF history
  <2>3. ASSUME NEW j \in baseline PROVE pass'.recs[j].phase = "baseline" /\ j \notin pass'.key
    <3>1. pass.recs[j].phase = "baseline" /\ j \in Keys /\ pass.recs \in [Keys -> Records]
      BY <1>1, <2>2 DEF BaselineKept, Passes
    <3>2. j = k => r = pass.recs[j] /\ pass'.key = {}
      BY <2>1, <2>2, BaselineRests DEF LoopStep
    <3> QED BY <2>1, <3>1, <3>2 DEF LoopStep
  <2>4. Running'
    BY <2>1 DEF LoopStep, Running
  <2> QED BY <2>2, <2>3, <2>4 DEF BaselineKept
<1>10. ASSUME NEW k \in Keys, Claim(k) PROVE BaselineKept'
  <2>1. Running /\ AtHand(k)
    BY <1>10, ClaimStep
  <2>2. k \notin baseline
    BY <2>1, BaselineRests
  <2>3. \A j \in baseline : pass'.recs[j] = pass.recs[j] /\ stored'.recs[j] = pass.recs[j]
    <3>1. pass.recs \in [Keys -> Records] /\ \A j \in baseline : j \in Keys /\ j # k
      BY <1>1, <2>2 DEF Passes
    <3> QED BY <1>10, <3>1, ClaimStep, ZenonT(60)
  <2>4. baseline' = baseline /\ launches' = launches /\ stored'.initialized /\ pass'.key = {k}
        /\ Running'
    BY <1>10, ClaimStep DEF history, Running
  <2> QED BY <2>1, <2>2, <2>3, <2>4 DEF BaselineKept
<1>11. ASSUME NEW k \in Keys, Launch(k) PROVE BaselineKept'
  <2>1. Running /\ AtHand(k)
    BY <1>11, LaunchStep
  <2>2. k \notin baseline
    BY <2>1, BaselineRests
  <2>3. \A j \in baseline : pass'.recs[j] = pass.recs[j] /\ launches'[j] = launches[j]
    <3>1. pass.recs \in [Keys -> Records] /\ \A j \in baseline : j \in Keys /\ j # k
      BY <1>1, <2>2 DEF Passes
    <3>2. launches' = [launches EXCEPT ![k] = @ + 1]
      BY <1>11, LaunchStep
    <3>3. \E r \in Records : pass'.recs = [pass.recs EXCEPT ![k] = r]
      BY <1>11, LaunchStep
    <3> QED BY <1>1, <3>1, <3>2, <3>3
  <2>4. baseline' = baseline /\ stored' = stored /\ pass'.key = {} /\ Running'
    BY <1>11, LaunchStep DEF Running
  <2> QED BY <2>1, <2>2, <2>3, <2>4 DEF BaselineKept
<1> QED BY <1>2, <1>3, <1>4, <1>5, <1>6, <1>7, <1>8, <1>9, <1>10, <1>11 DEF Next, Pass

-----------------------------------------------------------------------------
(* Which turns are seen.                                                   *)

\* Ageing makes no record and drops none.
LEMMA AgedMade ==
  ASSUME WatchdogAssumption, NEW recs \in [Keys -> Records], NEW n \in Nat, Made(recs)
  PROVE  /\ Made(Aged(recs, n))
         /\ \A k \in Keys : Aged(recs, n)[k] = NoRecord <=> recs[k] = NoRecord
<1>1. NoRecord.phase = "none" /\ NoRecord.until = 0 /\ NoRecord.backoff = 0
  BY DEF NoRecord, Record
<1>2. Left(0, n) = 0
  BY DEF Left
<1>3. ASSUME NEW k \in Keys
      PROVE  /\ recs[k] = NoRecord => Aged(recs, n)[k] = NoRecord
             /\ Aged(recs, n)[k].phase = recs[k].phase
  <2>1. Aged(recs, n)[k] = [recs[k] EXCEPT !.until = Left(@, n), !.backoff = Left(@, n)]
    BY DEF Aged
  <2>2. recs[k] = NoRecord => Aged(recs, n)[k] = NoRecord
    <3> SUFFICES ASSUME recs[k] = NoRecord PROVE Aged(recs, n)[k] = NoRecord
      OBVIOUS
    <3>1. NoRecord \in Records /\ Aged(recs, n)[k] \in Records
      BY RecordType, AgedRecords DEF NoRecord
    <3>2. /\ Aged(recs, n)[k].until = NoRecord.until
          /\ Aged(recs, n)[k].backoff = NoRecord.backoff
          /\ Aged(recs, n)[k].phase = NoRecord.phase
          /\ Aged(recs, n)[k].attempts = NoRecord.attempts
          /\ Aged(recs, n)[k].verdict = NoRecord.verdict
      BY <1>1, <1>2, <2>1, <3>1 DEF Records
    <3> QED BY <3>1, <3>2 DEF Records
  <2> QED BY <2>2, AgedRecords
<1> QED BY <1>1, <1>3 DEF Made

\* The parts of a transcript by which its turn is seen.
Seen(t, u) == /\ u.turn = t.turn /\ u.ended = t.ended
              /\ u.changed = t.changed /\ u.changedNow = t.changedNow

LEMMA SeenAgain ==
  ASSUME NEW s \in Sessions, session'[s].turn = session[s].turn,
         session'[s].ended = session[s].ended
  PROVE  Parsed(s)' = Parsed(s)
BY DEF Parsed

\* Whatever happens to a session marks its transcript as modified.
LEMMA UsedMarks ==
  ASSUME IInv, NEW s \in Sessions, Used(s)
  PROVE  /\ UNCHANGED <<stored, pass, launches, late, baseline, old, crashes>>
         /\ \A x \in Sessions :
              \/ session'[x].changed /\ session'[x].changedNow = (pass.pc # "idle")
              \/ Seen(session[x], session'[x])
<1>1. session \in [Sessions -> Transcripts]
  BY DEF IInv, TypeOK
<1>2. UNCHANGED <<stored, pass, launches, late, baseline, old, crashes>>
  BY DEF Used, UserTurn, TurnEnds, Touch, OpenOrClose, HomeGoes, Deliver, history
<1>4. CASE OpenOrClose(s) \/ HomeGoes(s)
  BY <1>1, <1>2, <1>4 DEF OpenOrClose, HomeGoes, Transcripts, Seen
<1>5. CASE ~OpenOrClose(s) /\ ~HomeGoes(s)
  <2>1. PICK t \in Transcripts : Write(s, t)
    BY <1>5, UsedWrites, WatchdogAssumption DEF IInv
  <2>2. \A x \in Sessions :
          \/ session'[x].changed /\ session'[x].changedNow = (pass.pc # "idle")
          \/ Seen(session[x], session'[x])
    BY <1>1, <2>1 DEF Write, Transcripts, Seen
  <2> QED BY <1>2, <2>2
<1> QED BY <1>2, <1>4, <1>5

LEMMA TurnsStep ==
  ASSUME IInv, BaselineKept, TurnsKept, [Next]_vars
  PROVE  TurnsKept'
<1>1. /\ pass \in Passes /\ stored.recs \in [Keys -> Records] /\ WatchdogAssumption
      /\ session \in [Sessions -> Transcripts] /\ pass.recs \in [Keys -> Records]
  BY WatchdogAssumption DEF IInv, TypeOK, Passes
<1>2. \A s \in Sessions : Parsed(s) \subseteq Keys
  BY DiscoveredKeys DEF IInv
<1>3. CASE (\E s \in Sessions : Used(s)) \/ UNCHANGED vars
  <2>1. /\ UNCHANGED <<stored, pass, old, crashes>>
        /\ \A x \in Sessions :
              \/ session'[x].changed /\ session'[x].changedNow = (pass.pc # "idle")
              \/ Seen(session[x], session'[x])
    BY <1>3, UsedMarks DEF vars, history, Seen
  <2>2. \A x \in Sessions : Seen(session[x], session'[x]) => Parsed(x)' = Parsed(x)
    BY SeenAgain DEF Seen
  <2> QED BY <2>1, <2>2 DEF TurnsKept, Made, Running, Seen
<1>4. CASE Tick
  <2>1. /\ UNCHANGED <<old, crashes>> /\ stored'.initialized = stored.initialized
        /\ pass'.recs = pass.recs /\ pass'.todo = pass.todo /\ pass'.pc = pass.pc
    BY <1>4, Ticking DEF history
  <2>2. \A x \in Sessions : Seen(session[x], Travel(session[x]))
    BY <1>1 DEF Travel, Transcripts, Seen
  <2>3. CASE pass.pc = "idle"
    <3>1. stored'.recs = Aged(stored.recs, 1) /\ session' = [s \in Sessions |-> Travel(Calm(s, 1))]
      BY <1>4, <2>3, Ticking
    <3>2. \A x \in Sessions : session'[x].changed = session[x].changed /\ Parsed(x)' = Parsed(x)
      <4>1. \A x \in Sessions : /\ Travel(Calm(x, 1)).turn = session[x].turn
                                /\ Travel(Calm(x, 1)).ended = session[x].ended
                                /\ Travel(Calm(x, 1)).changed = session[x].changed
        BY <1>1 DEF Travel, Calm, Transcripts
      <4> QED BY <3>1, <4>1, SeenAgain
    <3>3. /\ Made(stored.recs)'
          /\ \A k \in Keys : stored'.recs[k] = NoRecord <=> stored.recs[k] = NoRecord
      BY <1>1, <3>1, AgedMade DEF TurnsKept
    <3> QED BY <1>2, <2>1, <2>3, <3>2, <3>3 DEF TurnsKept, Made, Running
  <2>4. CASE pass.pc # "idle"
    <3>1. stored' = stored /\ session' = [s \in Sessions |-> Travel(session[s])]
      BY <1>4, <2>4, Ticking
    <3>2. \A x \in Sessions : Seen(session[x], session'[x]) /\ Parsed(x)' = Parsed(x)
      BY <2>2, <3>1, SeenAgain DEF Seen
    <3> QED BY <2>1, <3>1, <3>2 DEF TurnsKept, Made, Running, Seen
  <2> QED BY <2>3, <2>4
<1>5. CASE PassStart
  <2>1. ~Running' /\ ~Running /\ UNCHANGED <<stored, session, old, crashes>>
    BY <1>5 DEF PassStart, Running, Idle, history
  <2>2. \A x \in Sessions : Parsed(x)' = Parsed(x)
    BY <2>1 DEF Parsed
  <2> QED BY <2>1, <2>2 DEF TurnsKept, Made
<1>6. CASE Baseline
  <2> DEFINE recs == [k \in Keys |-> IF k \in discover THEN Record("baseline")
                                                       ELSE stored.recs[k]]
  <2>1. recs \in [Keys -> Records] /\ Made(recs)
    <3>1. Record("baseline") \in Records /\ Record("baseline").phase # "none"
      BY TerminalRecord, WatchdogAssumption DEF Terminal, Record
    <3> QED BY <1>1, <3>1 DEF Made, TurnsKept
  <2>2. EndPass(recs) /\ old' = UNION {Parsed(s) : s \in Sessions}
    BY <1>6 DEF Baseline
  <2> HIDE DEF recs
  <2>3. Made(stored.recs)' /\ ~Running'
    <3>1. stored'.recs = Aged(recs, pass.age) /\ pass.age \in Nat /\ ~Running'
      BY <2>1, <2>2, Ending
    <3> QED BY <1>1, <2>1, <3>1, AgedMade DEF Made
  <2>4. \A x \in Sessions : Parsed(x)' = Parsed(x)
    <3>1. session' = [s \in Sessions |->
              [Calm(s, pass.age) EXCEPT !.changed = session[s].changedNow]]
      BY <2>2 DEF EndPass
    <3>2. \A x \in Sessions : /\ session'[x].turn = session[x].turn
                              /\ session'[x].ended = session[x].ended
      BY <1>1, <3>1 DEF Calm, Transcripts
    <3> QED BY <3>2, SeenAgain
  <2> QED BY <2>2, <2>3, <2>4 DEF TurnsKept
<1>7. CASE PassWrite
  <2>1. EndPass(pass.recs) /\ UNCHANGED <<old, crashes>> /\ Running /\ pass.todo = {}
    BY <1>7 DEF PassWrite, Running, history
  <2>2. stored.initialized
    BY <2>1 DEF BaselineKept
  <2>3. /\ stored'.recs = Aged(pass.recs, pass.age) /\ pass.age \in Nat /\ ~Running'
        /\ session' = [s \in Sessions |->
              [Calm(s, pass.age) EXCEPT !.changed = session[s].changedNow]]
    BY <1>1, <2>1, Ending
  <2>4. /\ Made(stored.recs)'
        /\ \A k \in Keys : stored'.recs[k] = NoRecord <=> pass.recs[k] = NoRecord
    <3>1. Made(pass.recs)
      BY <2>1 DEF TurnsKept
    <3> QED BY <1>1, <2>3, <3>1, AgedMade DEF Made
  <2>5. \A x \in Sessions : Parsed(x)' = Parsed(x) /\ session'[x].changed = session[x].changedNow
    <3>1. \A x \in Sessions : /\ session'[x].turn = session[x].turn
                              /\ session'[x].ended = session[x].ended
                              /\ session'[x].changed = session[x].changedNow
      BY <1>1, <2>3 DEF Calm, Transcripts
    <3> QED BY <3>1, SeenAgain
  <2> QED BY <1>2, <2>1, <2>2, <2>3, <2>4, <2>5 DEF TurnsKept
<1>8. CASE PassCrash
  <2>1. /\ ~Running' /\ crashes' # 0 /\ stored'.recs = Aged(stored.recs, pass.age)
        /\ pass.age \in Nat
    BY <1>8, Crashing
  <2>2. Made(stored.recs)'
    BY <1>1, <2>1, AgedMade DEF TurnsKept, Made
  <2> QED BY <2>1, <2>2 DEF TurnsKept
<1>9. CASE Scan
  <2> DEFINE gone == {k \in Waiting \ discover : ~Current(k)}
             recs == [k \in Keys |-> IF k \in gone THEN Record("superseded")
                                                   ELSE stored.recs[k]]
  <2>1. /\ Running' /\ ~Running /\ UNCHANGED <<stored, session, old, crashes>>
        /\ pass'.recs = recs /\ discover \subseteq pass'.todo
    BY <1>1, <1>9 DEF Scan, Running, Passes, history
  <2>2. Made(recs) /\ \A k \in Keys : recs[k] = NoRecord => stored.recs[k] = NoRecord
    <3>1. Record("superseded").phase # "none" /\ NoRecord.phase = "none"
      BY DEF Record, NoRecord
    <3> QED BY <3>1 DEF TurnsKept, Made
  <2> HIDE DEF recs
  <2>3. \A x \in Sessions : /\ Parsed(x)' = Parsed(x)
                            /\ session[x].changed => Parsed(x) \subseteq discover
    BY <2>1 DEF Parsed, discover
  <2> QED BY <1>2, <2>1, <2>2, <2>3 DEF TurnsKept, Made
<1>10. ASSUME NEW k \in Keys, Step(k)
       PROVE  /\ Made(pass.recs)' /\ Running' /\ Running
              /\ \A j \in Keys : pass'.recs[j] = NoRecord /\ j \notin pass'.todo =>
                                   pass.recs[j] = NoRecord /\ j \notin pass.todo
  <2>1. /\ Running /\ Running' /\ pass'.todo = pass.todo \ {k}
        /\ \E r : r.phase # "none" /\ pass'.recs = [pass.recs EXCEPT ![k] = r]
    <3>1. CASE Claim(k)
      BY <3>1, ClaimStep DEF Running
    <3>2. CASE Launch(k)
      <4>1. /\ Running /\ Running' /\ pass'.todo = pass.todo \ {k}
        BY <3>2, LaunchStep DEF Running
      <4>2. PICK r \in Records : /\ pass'.recs = [pass.recs EXCEPT ![k] = r]
                                 /\ r.phase \in {"launched", "pending"}
        BY <3>2, LaunchStep
      <4> QED BY <4>1, <4>2
    <3>3. CASE ~Claim(k) /\ ~Launch(k)
      <4>1. PICK r \in Records : LoopStep(k, r)
        BY <1>10, <3>3, LoopSteps
      <4>2. Running /\ pass'.todo = pass.todo \ {k}
        BY <1>10, <3>3, LoopSteps
      <4>3. Rec(k).phase # "none"
        BY <4>2, RecIs DEF TurnsKept, Made
      <4> QED BY <4>1, <4>2, <4>3 DEF LoopStep, Running, Terminal
    <3> QED BY <3>1, <3>2, <3>3
  <2>2. PICK r : r.phase # "none" /\ pass'.recs = [pass.recs EXCEPT ![k] = r]
    BY <2>1
  <2>3. r # NoRecord
    BY <2>2 DEF NoRecord, Record
  <2>4. Made(pass.recs)'
    BY <1>1, <2>1, <2>2 DEF TurnsKept, Made
  <2> QED BY <1>1, <2>1, <2>2, <2>3, <2>4
<1>11. ASSUME NEW k \in Keys, Step(k)
       PROVE  TurnsKept'
  <2>1. UNCHANGED <<old, crashes>>
    BY <1>11, LoopSteps, ClaimStep, LaunchStep DEF history
  <2>2. stored.initialized
    BY <1>10, <1>11 DEF BaselineKept
  <2>3. \A x \in Sessions :
          Parsed(x)' = Parsed(x) /\ session'[x].changedNow = session[x].changedNow
    <3>1. CASE Claim(k)
      <4>1. session' = [s \in Sessions |-> Scanned(s)]
        BY <3>1, ClaimStep
      <4>2. \A x \in Sessions : /\ Scanned(x).turn = session[x].turn
                                /\ Scanned(x).ended = session[x].ended
                                /\ Scanned(x).changedNow = session[x].changedNow
        BY <1>1 DEF Scanned, Transcripts
      <4> QED BY <4>1, <4>2, SeenAgain
    <3>2. CASE Launch(k)
      <4>1. PICK message : session' = [session EXCEPT ![SessionOf(k)].sent = @ \cup message]
        BY <3>2, LaunchStep
      <4>2. \A x \in Sessions : /\ session'[x].turn = session[x].turn
                                /\ session'[x].ended = session[x].ended
                                /\ session'[x].changedNow = session[x].changedNow
        BY <1>1, <4>1 DEF Transcripts
      <4> QED BY <4>2, SeenAgain
    <3>3. CASE ~Claim(k) /\ ~Launch(k)
      <4>1. session' = session
        BY <1>11, <3>3, LoopSteps
      <4> QED BY <4>1 DEF Parsed
    <3> QED BY <3>1, <3>2, <3>3
  <2>4. Made(stored.recs)'
    <3>1. CASE Claim(k)
      <4>1. stored'.recs = pass'.recs
        BY <3>1, ClaimStep
      <4> QED BY <1>10, <1>11, <4>1 DEF Made
    <3>2. CASE ~Claim(k)
      <4>1. stored' = stored
        BY <1>11, <3>2, LoopSteps, LaunchStep
      <4> QED BY <4>1 DEF TurnsKept, Made
    <3> QED BY <3>1, <3>2
  <2> QED BY <1>2, <1>10, <1>11, <2>1, <2>2, <2>3, <2>4 DEF TurnsKept
<1> QED BY <1>3, <1>4, <1>5, <1>6, <1>7, <1>8, <1>9, <1>11 DEF Next, Pass

-----------------------------------------------------------------------------
(* What is on its way.                                                     *)

LEMMA KeyParts ==
  /\ \A k \in Keys : SessionOf(k) \in Sessions /\ TurnOf(k) \in Turns
  /\ \A k, j \in Keys : SessionOf(k) = SessionOf(j) /\ TurnOf(k) = TurnOf(j) => k = j
  /\ \A s \in Sessions : \A n \in Turns :
       <<s, n>> \in Keys /\ SessionOf(<<s, n>>) = s /\ TurnOf(<<s, n>>) = n
BY DEF Keys, SessionOf, TurnOf

\* The numbers.
LEMMA Numbers ==
  ASSUME TypeOK
  PROVE  /\ pass.age \in Nat /\ pass.age <= MaxAge
         /\ {MaxAge, MaxDelay, Lease, Grace} \subseteq Nat
         /\ \A k \in Keys : /\ stored.recs[k] \in Records /\ stored.recs[k].until \in Nat
                            /\ pass.recs[k] \in Records /\ pass.recs[k].until \in Nat
         /\ \A k \in Keys : \A m \in Flying(k) :
              m \in Messages /\ m \in session[SessionOf(k)].sent /\ m.turn = TurnOf(k)
              /\ m.left \in Nat
<1>1. Minutes \subseteq Nat
  BY MinutesHold, WatchdogAssumption DEF Minutes
<1>2. \A r \in Records : r.until \in Nat
  BY <1>1 DEF Records
<1>3. \A k \in Keys : session[SessionOf(k)].sent \subseteq Messages
  BY KeyParts DEF TypeOK, Transcripts
<1>4. \A m \in Messages : m.left \in Nat
  BY WatchdogAssumption DEF Messages, WatchdogAssumption
<1>5. pass.age \in Nat /\ pass.age <= MaxAge /\ {MaxAge, MaxDelay, Lease, Grace} \subseteq Nat
  BY WatchdogAssumption DEF TypeOK, Passes, WatchdogAssumption
<1>6. \A k \in Keys : stored.recs[k] \in Records /\ pass.recs[k] \in Records
  BY DEF TypeOK, Passes
<1> QED BY <1>2, <1>3, <1>4, <1>5, <1>6 DEF Flying

\* Neither the messages nor the marks of them change.
Silent ==
  \A s \in Sessions : session'[s].sent = session[s].sent /\ session'[s].markers = session[s].markers

LEMMA SilentKeys ==
  ASSUME Silent
  PROVE  \A k \in Keys : Flying(k)' = Flying(k) /\ contains_marker(k)' = contains_marker(k)
BY KeyParts DEF Silent, Flying, contains_marker

LEMMA UsedSends ==
  ASSUME TypeOK, NEW s \in Sessions, Used(s), ~\E m \in session[s].sent : Deliver(s, m)
  PROVE  Silent /\ UNCHANGED <<stored, pass, delivered, late>>
<1>1. session \in [Sessions -> Transcripts] /\ session[s] \in Transcripts
  BY DEF TypeOK
<1>2. CASE UserTurn(s)
  BY <1>1, <1>2 DEF UserTurn, Write, Transcripts, Silent, history
<1>3. CASE TurnEnds(s)
  BY <1>1, <1>3 DEF TurnEnds, Write, Transcripts, Silent, history
<1>4. CASE Touch(s)
  BY <1>1, <1>4 DEF Touch, Write, Transcripts, Silent, history
<1>5. CASE OpenOrClose(s) \/ HomeGoes(s)
  BY <1>1, <1>5 DEF OpenOrClose, HomeGoes, Transcripts, Silent, history
<1> QED BY <1>2, <1>3, <1>4, <1>5 DEF Used

\* A record that is aged still covers what has less time left.
LEMMA AgedCovers ==
  ASSUME NEW recs \in [Keys -> Records], NEW n \in Nat, NEW left \in Nat, NEW k \in Keys,
         recs[k].phase \in Terminal \/ recs[k].until > n + left
  PROVE  Aged(recs, n)[k].phase \in Terminal \/ Aged(recs, n)[k].until > left
<1>1. recs[k] \in Records /\ recs[k].until \in Nat
  <2>1. Minutes \subseteq Nat
    BY MinutesHold, WatchdogAssumption DEF Minutes
  <2> QED BY <2>1 DEF Records
<1>2. /\ Aged(recs, n)[k].phase = recs[k].phase
      /\ Aged(recs, n)[k].until = Left(recs[k].until, n)
  BY <1>1 DEF Aged, Records
<1>3. recs[k].until > n + left => Left(recs[k].until, n) > left
  BY <1>1 DEF Left
<1> QED BY <1>2, <1>3

\* While a message is on its way its turn is not taken up.
LEMMA FlyingIsHeld ==
  ASSUME TypeOK, MessagesKept, Running, NEW k \in Keys \ late, NEW m \in Flying(k)
  PROVE  Rec(k) = pass.recs[k] /\ ~Ready(k) /\ ~AtHand(k)
<1>1. Covers(pass.recs[k], m) /\ ~AtHand(k)
  BY DEF MessagesKept, AtHand, Untouched
<1>2. Rec(k) = pass.recs[k]
  <2>1. pass.recs[k] # NoRecord
    BY <1>1, Numbers DEF Covers, NoRecord, Record, Terminal
  <2> QED BY <2>1, RecIs
<1> QED BY <1>1, <1>2, Numbers DEF Covers, Ready, Closed, Held

\* A session lives its own life, and no message arrives.
LEMMA MessagesStand ==
  ASSUME TypeOK, MessagesKept, Silent, UNCHANGED <<pass, delivered, late>>,
         stored'.recs = stored.recs
  PROVE  MessagesKept'
<1>1. \A k \in Keys : Flying(k)' = Flying(k) /\ contains_marker(k)' = contains_marker(k)
  BY SilentKeys
<1>2. \A k \in Keys : Untouched(k)' = Untouched(k)
  BY <1>1 DEF Untouched
<1>3. pass.key \subseteq Keys
  BY DEF TypeOK, Passes
<1> QED BY <1>1, <1>2, <1>3 DEF MessagesKept, Covers, Running

LEMMA MessagesDelivered ==
  ASSUME TypeOK, MessagesKept, NEW s \in Sessions, NEW m \in session[s].sent, Deliver(s, m)
  PROVE  MessagesKept'
<1> DEFINE k == <<s, m.turn>>
<1>1. k \in Keys /\ SessionOf(k) = s /\ TurnOf(k) = m.turn
  BY KeyParts DEF TypeOK, Transcripts, Messages
<1> HIDE DEF k
<1>2. m \in Flying(k) /\ (k \notin late => Flying(k) = {m} /\ ~contains_marker(k))
  BY <1>1 DEF Flying, MessagesKept
<1>3. /\ session'[s].sent = session[s].sent \ {m}
      /\ session'[s].markers = session[s].markers \cup {m.turn}
      /\ \A x \in Sessions : x # s => session'[x] = session[x]
  BY DEF Deliver, Write, TypeOK, Transcripts
<1>4. delivered' = [delivered EXCEPT ![k] = @ + 1] /\ UNCHANGED <<stored, pass, late>>
  BY DEF Deliver, k
<1>5. k \notin late => Flying(k)' = {} /\ contains_marker(k)'
  BY <1>1, <1>2, <1>3 DEF Flying, contains_marker
<1>6. ASSUME NEW j \in Keys, j # k
      PROVE  /\ Flying(j)' = Flying(j) /\ contains_marker(j)' = contains_marker(j)
             /\ delivered'[j] = delivered[j]
  <2>1. SessionOf(j) = s => TurnOf(j) # m.turn
    BY <1>1, <1>6, KeyParts
  <2>2. Flying(j)' = Flying(j) /\ contains_marker(j)' = contains_marker(j)
    BY <1>3, <2>1, KeyParts DEF Flying, contains_marker
  <2> QED BY <1>4, <1>6, <2>2 DEF TypeOK
<1>7. k \notin late => delivered'[k] = 1
  BY <1>1, <1>2, <1>4 DEF MessagesKept, TypeOK
<1>8. pass.pc \in {"judge", "recheck", "claim", "launch"} => k \notin pass.key \ late
  BY <1>2 DEF MessagesKept, Untouched
<1>9. pass.key \subseteq Keys
  BY DEF TypeOK, Passes
<1> QED BY <1>1, <1>4, <1>5, <1>6, <1>7, <1>8, <1>9
        DEF MessagesKept, Covers, Untouched, Running

LEMMA MessagesTick ==
  ASSUME IInv, MessagesKept, Tick
  PROVE  MessagesKept'
<1>1. TypeOK /\ session \in [Sessions -> Transcripts]
  BY DEF IInv, TypeOK
<1>2. /\ pass'.pc = pass.pc /\ pass'.key = pass.key /\ pass'.recs = pass.recs
      /\ delivered' = delivered /\ late' = late /\ pass.key \subseteq Keys
  BY <1>1, Ticking DEF history, TypeOK, Passes
<1>3. \A s \in Sessions :
        /\ session'[s].markers = session[s].markers
        /\ session'[s].sent = {[m EXCEPT !.left = @ - 1] : m \in session[s].sent}
  <2>1. \A s \in Sessions : \A t \in Transcripts :
          /\ Travel(t).markers = t.markers
          /\ Travel(t).sent = {[m EXCEPT !.left = @ - 1] : m \in t.sent}
    BY DEF Travel, Transcripts
  <2>2. \A s \in Sessions : /\ Calm(s, 1) \in Transcripts
                            /\ Calm(s, 1).markers = session[s].markers
                            /\ Calm(s, 1).sent = session[s].sent
    BY <1>1, CalmType, WatchdogAssumption DEF Calm, Transcripts
  <2> QED BY <1>1, <2>1, <2>2, Ticking
<1>4. ASSUME NEW k \in Keys
      PROVE  /\ contains_marker(k)' = contains_marker(k)
             /\ Flying(k)' = {[m EXCEPT !.left = @ - 1] : m \in Flying(k)}
  <2>1. \A m \in session[SessionOf(k)].sent : [m EXCEPT !.left = @ - 1].turn = m.turn
    BY <1>1, KeyParts DEF Transcripts, Messages
  <2>2. session'[SessionOf(k)].sent = {[m EXCEPT !.left = @ - 1] : m \in session[SessionOf(k)].sent}
    BY <1>3, KeyParts
  <2>3. \A n \in Flying(k)' : \E m \in Flying(k) : n = [m EXCEPT !.left = @ - 1]
    BY <2>1, <2>2 DEF Flying
  <2>4. \A m \in Flying(k) : [m EXCEPT !.left = @ - 1] \in Flying(k)'
    BY <2>1, <2>2 DEF Flying
  <2>5. contains_marker(k)' = contains_marker(k)
    BY <1>3, KeyParts DEF contains_marker
  <2> QED BY <2>3, <2>4, <2>5
<1>5. ASSUME NEW k \in Keys \ late, NEW n \in Flying(k)'
      PROVE  /\ ~contains_marker(k)' /\ Flying(k)' = {n}
             /\ Covers(stored.recs[k], n)' /\ (Running' => Covers(pass.recs[k], n)')
  <2>1. PICK m \in Flying(k) : n = [m EXCEPT !.left = @ - 1]
    BY <1>4, <1>5
  <2>2. ~contains_marker(k) /\ Flying(k) = {m} /\ Covers(stored.recs[k], m)
        /\ (Running => Covers(pass.recs[k], m))
    BY DEF MessagesKept
  <2>3. Flying(k)' = {n}
    BY <1>4, <2>1, <2>2
  <2>4. /\ m \in Messages /\ m.left \in Nat /\ m.left > 0 /\ n.left = m.left - 1
        /\ stored.recs[k].until \in Nat /\ pass.recs[k].until \in Nat /\ pass.age \in Nat
    BY <1>1, <2>1, Numbers, Ticking, KeyParts DEF Messages
  <2>5. CASE pass.pc = "idle"
    <3>1. stored'.recs = Aged(stored.recs, 1) /\ pass'.age = 0 /\ ~Running'
      BY <2>5, Ticking DEF MessagesKept, Running
    <3>2. stored.recs[k].phase \in Terminal \/ stored.recs[k].until > 1 + n.left
      BY <2>2, <2>4, <2>5 DEF Covers, MessagesKept
    <3>3. stored'.recs[k].phase \in Terminal \/ stored'.recs[k].until > n.left
      BY <1>1, <2>4, <3>1, <3>2, AgedCovers DEF TypeOK
    <3> QED BY <1>4, <2>2, <2>3, <2>4, <3>1, <3>3 DEF Covers
  <2>6. CASE pass.pc # "idle"
    <3>1. stored' = stored /\ pass'.age = pass.age + 1 /\ Running' = Running
      BY <1>2, <2>6, Ticking DEF Running
    <3> QED BY <1>2, <1>4, <2>2, <2>3, <2>4, <3>1 DEF Covers
  <2> QED BY <2>5, <2>6
<1>6. pass'.pc = "idle" => pass'.age = 0
  BY <1>2, Ticking DEF MessagesKept
<1>7. \A k \in Keys \ late : delivered'[k] = 0 \/ (delivered'[k] = 1 /\ contains_marker(k)')
  BY <1>2, <1>4 DEF MessagesKept
<1>8. pass'.pc \in {"judge", "recheck", "claim", "launch"} => \A k \in pass'.key \ late : Untouched(k)'
  BY <1>2, <1>4 DEF MessagesKept, Untouched
<1>9. pass'.pc = "launch" => \A k \in pass'.key : stored'.recs[k].until = Lease
  BY <1>2, Ticking DEF MessagesKept
<1> QED BY <1>2, <1>5, <1>6, <1>7, <1>8, <1>9 DEF MessagesKept

\* A pass is over, and the records it leaves cover what is on its way.
LEMMA MessagesOver ==
  ASSUME TypeOK, MessagesKept, NEW recs \in [Keys -> Records],
         stored'.recs = Aged(recs, pass.age), Silent, UNCHANGED <<delivered, late>>,
         pass'.pc = "idle", pass'.age = 0,
         \A k \in Keys \ late : \A m \in Flying(k) : Covers(recs[k], m)
  PROVE  MessagesKept'
<1>1. ASSUME NEW k \in Keys \ late, NEW m \in Flying(k)
      PROVE  Covers(stored.recs[k], m)'
  <2>1. pass.age \in Nat /\ m.left \in Nat
    BY Numbers
  <2>2. recs[k].phase \in Terminal \/ recs[k].until > pass.age + m.left
    BY DEF Covers
  <2>3. stored'.recs[k].phase \in Terminal \/ stored'.recs[k].until > m.left
    BY <2>1, <2>2, AgedCovers
  <2> QED BY <2>1, <2>3 DEF Covers
<1> QED BY <1>1, SilentKeys DEF MessagesKept, Running

LEMMA MessagesStep ==
  ASSUME IInv, MessagesKept, [Next]_vars
  PROVE  MessagesKept'
<1>1. /\ TypeOK /\ pass \in Passes /\ session \in [Sessions -> Transcripts]
      /\ stored.recs \in [Keys -> Records] /\ pass.recs \in [Keys -> Records]
      /\ pass.key \subseteq Keys
  BY DEF IInv, TypeOK, Passes
<1>2. CASE (\E s \in Sessions : Used(s)) \/ UNCHANGED vars
  <2>1. CASE \E s \in Sessions : \E m \in session[s].sent : Deliver(s, m)
    BY <1>1, <2>1, MessagesDelivered
  <2>2. CASE ~\E s \in Sessions : \E m \in session[s].sent : Deliver(s, m)
    <3>1. Silent /\ UNCHANGED <<stored, pass, delivered, late>>
      BY <1>1, <1>2, <2>2, UsedSends DEF vars, history, Silent
    <3> QED BY <1>1, <3>1, MessagesStand
  <2> QED BY <2>1, <2>2
<1>3. CASE Tick
  BY <1>3, MessagesTick
<1>4. CASE PassStart
  <2>1. /\ UNCHANGED <<session, stored, delivered, late>> /\ pass.age = 0 /\ pass'.age = 0
        /\ pass'.pc = "scan" /\ ~Running'
    BY <1>4 DEF PassStart, Idle, history, MessagesKept, Running
  <2>2. Silent
    BY <2>1 DEF Silent
  <2> QED BY <2>1, <2>2, SilentKeys DEF MessagesKept, Covers
<1>5. CASE Baseline
  <2> DEFINE recs == [k \in Keys |-> IF k \in discover THEN Record("baseline")
                                                       ELSE stored.recs[k]]
  <2>1. EndPass(recs) /\ UNCHANGED <<delivered, late>>
    BY <1>5 DEF Baseline
  <2>2. /\ recs \in [Keys -> Records]
        /\ \A k \in Keys : recs[k] = stored.recs[k] \/ recs[k].phase \in Terminal
    <3>1. Record("baseline") \in Records /\ Record("baseline").phase \in Terminal
      BY TerminalRecord, WatchdogAssumption DEF Terminal, Record
    <3> QED BY <1>1, <3>1
  <2> HIDE DEF recs
  <2>3. /\ pass'.pc = "idle" /\ pass'.age = 0 /\ stored'.recs = Aged(recs, pass.age) /\ Silent
    <3>1. session' = [s \in Sessions |->
              [Calm(s, pass.age) EXCEPT !.changed = session[s].changedNow]]
      BY <2>1 DEF EndPass
    <3>2. Silent
      BY <1>1, <3>1 DEF Calm, Transcripts, Silent
    <3> QED BY <2>1, <2>2, <3>2, Ending
  <2>4. \A k \in Keys \ late : \A m \in Flying(k) : Covers(recs[k], m)
    BY <2>2 DEF MessagesKept, Covers
  <2> QED BY <1>1, <2>1, <2>2, <2>3, <2>4, MessagesOver
<1>6. CASE PassWrite
  <2>1. EndPass(pass.recs) /\ UNCHANGED <<delivered, late>> /\ Running
    BY <1>6 DEF PassWrite, history, Running
  <2>2. /\ pass'.pc = "idle" /\ pass'.age = 0 /\ stored'.recs = Aged(pass.recs, pass.age) /\ Silent
    <3>1. session' = [s \in Sessions |->
              [Calm(s, pass.age) EXCEPT !.changed = session[s].changedNow]]
      BY <2>1 DEF EndPass
    <3>2. Silent
      BY <1>1, <3>1 DEF Calm, Transcripts, Silent
    <3> QED BY <1>1, <2>1, <3>2, Ending
  <2>3. \A k \in Keys \ late : \A m \in Flying(k) : Covers(pass.recs[k], m)
    BY <2>1 DEF MessagesKept
  <2> QED BY <1>1, <2>1, <2>2, <2>3, MessagesOver
<1>7. CASE PassCrash
  <2>1. /\ pass'.pc = "idle" /\ pass'.age = 0 /\ UNCHANGED <<delivered, late>>
        /\ stored'.recs = Aged(stored.recs, pass.age)
        /\ session' = [s \in Sessions |-> Calm(s, pass.age)]
    BY <1>7, Crashing DEF history
  <2>2. Silent
    BY <1>1, <2>1 DEF Calm, Transcripts, Silent
  <2>3. \A k \in Keys \ late : \A m \in Flying(k) : Covers(stored.recs[k], m)
    BY DEF MessagesKept
  <2> QED BY <1>1, <2>1, <2>2, <2>3, MessagesOver
<1>8. CASE Scan
  <2>1. /\ UNCHANGED <<session, stored, delivered, late>> /\ pass'.age = pass.age /\ pass'.pc = "loop"
        /\ \A k \in Keys : pass'.recs[k] = stored.recs[k] \/ pass'.recs[k].phase \in Terminal
    BY <1>1, <1>8 DEF Scan, history, Passes, Record, Terminal
  <2>2. Silent
    BY <2>1 DEF Silent
  <2> QED BY <2>1, <2>2, SilentKeys DEF MessagesKept, Covers
<1>9. ASSUME NEW k \in Keys, Step(k), ~Claim(k), ~Launch(k)
      PROVE  MessagesKept'
  <2>1. /\ Running /\ UNCHANGED <<session, stored, delivered, late>> /\ pass'.age = pass.age
    BY <1>9, LoopSteps DEF history
  <2>2. PICK r \in Records : LoopStep(k, r)
    BY <1>9, LoopSteps
  <2>3. /\ pass'.pc # "idle" /\ pass'.pc # "launch" /\ pass'.recs = [pass.recs EXCEPT ![k] = r]
    BY <2>2 DEF LoopStep
  <2>4. k \notin late => \A m \in Flying(k) : Covers(r, m)
    <3> SUFFICES ASSUME k \notin late, NEW m \in Flying(k) PROVE Covers(r, m)
      OBVIOUS
    <3>1. ~AtHand(k) /\ Rec(k) = pass.recs[k] /\ Covers(pass.recs[k], m)
      BY <1>1, <2>1, FlyingIsHeld DEF MessagesKept
    <3> QED BY <2>2, <3>1 DEF LoopStep, Covers
  <2>5. \A j \in Keys \ late : \A m \in Flying(j) : Covers(pass'.recs[j], m)
    BY <1>1, <2>1, <2>3, <2>4 DEF MessagesKept
  <2>6. pass'.pc \in {"judge", "recheck", "claim"} => pass'.key = {k} /\ (k \in late \/ Untouched(k))
    <3>1. ASSUME Ready(k) PROVE k \in late \/ Untouched(k)
      BY <1>1, <2>1, <3>1, FlyingIsHeld DEF Ready, Untouched
    <3>2. ASSUME AtHand(k) PROVE k \in late \/ Untouched(k)
      BY <3>2 DEF AtHand, MessagesKept
    <3> QED BY <2>2, <3>1, <3>2 DEF LoopStep
  <2>7. Silent
    BY <2>1 DEF Silent
  <2> QED BY <2>1, <2>3, <2>5, <2>6, <2>7, SilentKeys DEF MessagesKept, Covers, Untouched
<1>10. ASSUME NEW k \in Keys, Claim(k)
       PROVE  MessagesKept'
  <2>1. /\ AtHand(k) /\ Running /\ UNCHANGED <<delivered, late>>
        /\ pass'.pc = "launch" /\ pass'.key = {k} /\ pass'.age = pass.age
        /\ pass'.recs = [pass.recs EXCEPT ![k] = Claimed(k)]
        /\ stored'.recs = [pass.recs EXCEPT ![k] = Claimed(k)]
        /\ Claimed(k).until = Lease /\ session' = [s \in Sessions |-> Scanned(s)]
    BY <1>10, ClaimStep DEF history
  <2>2. Silent
    BY <1>1, <2>1 DEF Silent, Scanned, Transcripts
  <2>3. k \in late \/ Untouched(k)
    BY <2>1 DEF AtHand, MessagesKept
  <2>4. \A j \in Keys \ late : \A m \in Flying(j) :
          pass'.recs[j] = pass.recs[j] /\ stored'.recs[j] = pass.recs[j]
    BY <1>1, <2>1, <2>3 DEF Untouched
  <2>5. stored'.recs[k].until = Lease
    BY <1>1, <2>1
  <2> QED BY <2>1, <2>2, <2>3, <2>4, <2>5, SilentKeys DEF MessagesKept, Covers, Untouched
<1>11. ASSUME NEW k \in Keys, Launch(k)
       PROVE  MessagesKept'
  <2>1. /\ AtHand(k) /\ Running /\ UNCHANGED <<stored, delivered>>
        /\ pass'.pc = "loop" /\ pass'.age = pass.age /\ pass.pc = "launch" /\ k \in pass.key
        /\ late \subseteq late' /\ (k \notin late' => k \notin late /\ ~LateAt(pass.age))
    BY <1>11, LaunchStep DEF Launch
  <2>2. PICK r \in Records : pass'.recs = [pass.recs EXCEPT ![k] = r] /\ r.until = Grace
    BY <1>11, LaunchStep
  <2> DEFINE new == [turn |-> TurnOf(k), attempt |-> Rec(k).attempts, left |-> MaxDelay]
  <2>3. PICK message \in {{}, {new}} :
          session' = [session EXCEPT ![SessionOf(k)].sent = @ \cup message]
    BY <1>11, LaunchStep
  <2>4. new.turn = TurnOf(k) /\ new.left = MaxDelay
    OBVIOUS
  <2> HIDE DEF new
  <2>5. (k \notin late => Untouched(k)) /\ stored.recs[k].until = Lease
    BY <2>1 DEF MessagesKept
  <2>6. \A s \in Sessions :
          /\ session'[s].markers = session[s].markers
          /\ session'[s].sent = IF s = SessionOf(k) THEN session[s].sent \cup message
                                                    ELSE session[s].sent
    BY <1>1, <2>3 DEF Transcripts
  <2>7. \A j \in Keys : contains_marker(j)' = contains_marker(j)
    BY <2>6, KeyParts DEF contains_marker
  <2>8. k \notin late => Flying(k)' = message
    BY <2>3, <2>4, <2>5, <2>6, KeyParts DEF Flying, Untouched
  <2>9. \A j \in Keys : j # k => Flying(j)' = Flying(j) /\ pass'.recs[j] = pass.recs[j]
    <3>1. \A j \in Keys : j # k => Flying(j)' = Flying(j)
      BY <2>3, <2>4, <2>6, KeyParts DEF Flying
    <3> QED BY <1>1, <2>2, <3>1
  <2>10. k \notin late' =>
           \A m \in Flying(k)' : /\ Flying(k)' = {m} /\ ~contains_marker(k)'
                                 /\ Covers(stored.recs[k], m)' /\ Covers(pass.recs[k], m)'
    <3> SUFFICES ASSUME k \notin late'
                 PROVE  \A m \in Flying(k)' :
                          /\ Flying(k)' = {m} /\ ~contains_marker(k)'
                          /\ Covers(stored.recs[k], m)' /\ Covers(pass.recs[k], m)'
      OBVIOUS
    <3>1. \A m \in Flying(k)' : m = new /\ Flying(k)' = {m} /\ ~contains_marker(k)'
      BY <2>1, <2>3, <2>5, <2>7, <2>8 DEF Untouched
    <3>2. pass'.recs[k].until = Grace /\ stored'.recs[k].until = Lease
      BY <1>1, <2>1, <2>2, <2>5
    <3>3. pass.age + MaxDelay < Lease /\ pass.age + MaxDelay < Grace
      BY <1>1, <2>1, Numbers DEF LateAt
    <3>4. Lease > pass'.age + new.left /\ Grace > pass'.age + new.left
      BY <1>1, <2>1, <2>4, <3>3, Numbers
    <3> QED BY <3>1, <3>2, <3>4 DEF Covers
  <2> QED BY <2>1, <2>7, <2>9, <2>10 DEF MessagesKept, Covers
<1> QED BY <1>2, <1>3, <1>4, <1>5, <1>6, <1>7, <1>8, <1>9, <1>10, <1>11 DEF Next, Pass

-----------------------------------------------------------------------------
(* The theorems about these.                                               *)

LEMMA KeptInit == Init => BaselineKept /\ TurnsKept /\ MessagesKept
<1> SUFFICES ASSUME Init PROVE BaselineKept /\ TurnsKept /\ MessagesKept
  OBVIOUS
<1>1. /\ pass.pc = "idle" /\ pass.age = 0 /\ pass.key = {}
      /\ stored.initialized = FALSE /\ \A k \in Keys : stored.recs[k] = NoRecord
      /\ baseline = {} /\ \A k \in Keys : launches[k] = 0 /\ delivered[k] = 0
  BY DEF Init, Idle
<1>2. \A s \in Sessions : session[s].sent = {}
  BY DEF Init
<1>3. \A k \in Keys : Flying(k) = {}
  BY <1>2, KeyParts DEF Flying
<1> QED BY <1>1, <1>3 DEF BaselineKept, TurnsKept, Made, MessagesKept, Running

LEMMA TurnsInvariant == Spec => [](IInv /\ BaselineKept /\ TurnsKept)
<1>1. Init => IInv /\ BaselineKept /\ TurnsKept
  BY KeptInit, InitHolds, WatchdogAssumption
<1>2. IInv /\ BaselineKept /\ TurnsKept /\ [Next]_vars => (IInv /\ BaselineKept /\ TurnsKept)'
  BY NextHolds, BaselineStep, TurnsStep, WatchdogAssumption
<1> QED BY <1>1, <1>2, PTL DEF Spec

LEMMA MessagesInvariant == Spec => [](IInv /\ MessagesKept)
<1>1. Init => IInv /\ MessagesKept
  BY KeptInit, InitHolds, WatchdogAssumption
<1>2. IInv /\ MessagesKept /\ [Next]_vars => (IInv /\ MessagesKept)'
  BY NextHolds, MessagesStep, WatchdogAssumption
<1> QED BY <1>1, <1>2, PTL DEF Spec

\* What the first pass found is never resumed, wherever passes die afterwards.
THEOREM BaselineIsClosed == Spec => []BaselineIsLeftAlone
<1>1. IInv /\ BaselineKept /\ TurnsKept => BaselineIsLeftAlone
  BY DEF BaselineKept, BaselineIsLeftAlone
<1> QED BY <1>1, TurnsInvariant, PTL

\* As long as no pass was killed, every turn that ended is recorded between passes
\* or in a transcript that the next scan looks at, for any number of sessions that
\* write while the scan, the model and the host take their time.
THEOREM TurnsAreSeen == Spec => [](crashes = 0 => NoTurnIsMissed)
<1>1. IInv /\ BaselineKept /\ TurnsKept => (crashes = 0 => NoTurnIsMissed)
  BY DEF TurnsKept, NoTurnIsMissed, Running
<1> QED BY <1>1, TurnsInvariant, PTL

\* A turn is continued twice only if one of its launches came so late in its pass
\* that the lease or the grace period could end before the message arrived: for
\* every length of these, wherever passes die and whatever the host answers.
THEOREM RepeatsAreLate == Spec => []OnlyLateLaunchesRepeat
<1>1. IInv /\ MessagesKept => OnlyLateLaunchesRepeat
  BY DEF MessagesKept, OnlyLateLaunchesRepeat
<1> QED BY <1>1, MessagesInvariant, PTL
=============================================================================
