------------------------- MODULE WakeSchedule_proofs -------------------------
(***************************************************************************)
(* Theorems about WakeSchedule, for any sets of wakes, prompts and hooks   *)
(* and for all bounds.  The argument: whoever is about to write the        *)
(* schedule holds its lock, so what it is about to write was built from    *)
(* the schedule it replaces; and no two wakes share an id, so that what a  *)
(* pass has launched is not in what it writes.                             *)
(***************************************************************************)
EXTENDS WakeSchedule, TLAPS

Polling == waker.pc \in {"plan", "launch"}
Planned == {s.entry : s \in waker.spawns}

\* Nobody writes the schedule without its lock.
WritersHoldTheLock ==
  /\ \A b \in Bridges : bridge[b].pc = "write" => lock = b
  /\ Polling => lock = Waker

\* Only registered wakes are scheduled, about to be scheduled, or cancelled.
OnlyRegistered ==
  /\ IdsOf(schedule) \subseteq used /\ cancelled \subseteq used
  /\ \A b \in Bridges : IdsOf(bridge[b].updated) \subseteq used

\* A pass in progress has no wake that is not in the schedule, and a process
\* that is not in one has none at all.
PassHasScheduled ==
  /\ IdsOf(waker.todo) \subseteq IdsOf(schedule)
  /\ IdsOf(waker.kept) \subseteq IdsOf(schedule)
  /\ IdsOf(Planned) \subseteq IdsOf(schedule)
  /\ ~Polling => waker.todo = {} /\ waker.kept = {} /\ waker.spawns = {}

\* No cancelled wake is in the schedule or about to be written to it.
NotRestored ==
  /\ cancelled \cap IdsOf(schedule) = {}
  /\ \A b \in Bridges :
       bridge[b].pc = "write" => cancelled \cap IdsOf(bridge[b].updated) = {}

Control == WritersHoldTheLock /\ OnlyRegistered /\ PassHasScheduled /\ NotRestored
IInv == TypeOK /\ Control

-----------------------------------------------------------------------------
(* The operators.                                                          *)

\* The ids of a schedule grow with it, and adding an entry adds its id.
LEMMA IdsMonotone == ASSUME NEW S, NEW T, S \subseteq T
                     PROVE  IdsOf(S) \subseteq IdsOf(T)
  BY DEF IdsOf
LEMMA IdsUnion == ASSUME NEW S, NEW T
                  PROVE  IdsOf(S \cup T) = IdsOf(S) \cup IdsOf(T)
  BY DEF IdsOf
LEMMA IdsSingle == ASSUME NEW e PROVE IdsOf({e}) = {e.id}
  BY DEF IdsOf
LEMMA IdsEmpty == IdsOf({}) = {}
  BY DEF IdsOf

\* The passage of time keeps an entry an entry, and its id.
LEMMA ShiftTyped ==
  ASSUME NEW e \in Entries
  PROVE  Shift(e) \in Entries /\ Shift(e).id = e.id
<1>1. \A t \in Times : Earlier(t) \in Times
  BY ScheduleAssumption DEF Earlier, Times, Never
<1>2. \A t \in Times \cup {Never} : Earlier(t) \in Times \cup {Never}
  BY <1>1 DEF Earlier
<1>3. e.wake_at \in Times /\ e.deadline \in Times \cup {Never}
  BY DEF Entries
<1> QED BY <1>1, <1>2, <1>3 DEF Shift, Entries

LEMMA ShiftAllTyped ==
  ASSUME NEW S \in SUBSET Entries
  PROVE  ShiftAll(S) \in SUBSET Entries /\ IdsOf(ShiftAll(S)) = IdsOf(S)
<1>1. ShiftAll(S) \in SUBSET Entries
  BY ShiftTyped DEF ShiftAll
<1>2. IdsOf(ShiftAll(S)) = {Shift(e).id : e \in S}
  BY DEF IdsOf, ShiftAll
<1> QED BY <1>1, <1>2, ShiftTyped DEF IdsOf

\* A re-armed poll is an entry with the same id.
LEMMA RearmedTyped ==
  ASSUME TypeOK, NEW e \in Entries
  PROVE  Rearmed(e) \in Entries /\ Rearmed(e).id = e.id
<1>1. waker.age \in 0 .. MaxAge
  BY DEF TypeOK, Wakers
<1>2. (IF 1 - waker.age < -MaxAge THEN -MaxAge ELSE 1 - waker.age) \in Times
  BY <1>1, ScheduleAssumption DEF Times
<1> QED BY <1>2 DEF Rearmed, Entries

\* A registration keeps part of the schedule and adds its own entry; a prune
\* keeps part of it.
LEMMA MergeIds ==
  ASSUME NEW S, NEW e
  PROVE  IdsOf(merge_entries(S, e)) \subseteq IdsOf(S) \cup {e.id}
<1>1. merge_entries(S, e) \subseteq S \cup {e}
  BY DEF merge_entries
<1>2. IdsOf(merge_entries(S, e)) \subseteq IdsOf(S \cup {e})
  BY <1>1, IdsMonotone
<1>3. IdsOf(S \cup {e}) = IdsOf(S) \cup IdsOf({e})
  BY IdsUnion
<1> QED BY <1>2, <1>3, IdsSingle
LEMMA WithoutIds == ASSUME NEW S PROVE IdsOf(without_own(S)) \subseteq IdsOf(S)
  BY DEF without_own, IdsOf

\* Every time a poll or a wake may be registered with is a time.
LEMMA TimesTyped == 1 .. MaxWait \subseteq Times
  BY ScheduleAssumption DEF Times
-----------------------------------------------------------------------------
(* Init and the passage of time.                                           *)

LEMMA InitIInv == Init => IInv
<1> SUFFICES ASSUME Init PROVE IInv
  OBVIOUS
<1>1. Idle \in Wakers /\ Idle.todo = {} /\ Idle.kept = {} /\ Idle.spawns = {}
  BY ScheduleAssumption DEF Idle, Wakers
<1>2. TypeOK
  <2>1. crashes \in 0 .. MaxCrashes /\ launched \in [Ids -> Nat]
    BY ScheduleAssumption DEF Init
  <2>2. bridge \in [Bridges -> [pc : {"idle", "write"}, updated : SUBSET Entries,
                               prune : BOOLEAN]]
    BY DEF Init, Away
  <2> QED BY <1>1, <2>1, <2>2 DEF Init, TypeOK
<1>3. Planned = {} /\ ~Polling
  BY <1>1 DEF Init, Planned, Polling, Idle
<1>4. \A b \in Bridges : bridge[b].pc # "write" /\ bridge[b].updated = {}
  BY DEF Init, Away
<1>5. Control
  BY <1>1, <1>3, <1>4, IdsEmpty
     DEF Init, Control, WritersHoldTheLock, OnlyRegistered, PassHasScheduled,
         NotRestored
<1> QED BY <1>2, <1>5 DEF IInv

LEMMA TickIInv == ASSUME IInv, Tick PROVE IInv'
<1>1. /\ schedule \in SUBSET Entries /\ waker \in Wakers
      /\ \A b \in Bridges : bridge[b].updated \in SUBSET Entries
  BY DEF IInv, TypeOK
<1>2. /\ waker.seen \in SUBSET Entries /\ waker.todo \in SUBSET Entries
      /\ waker.kept \in SUBSET Entries /\ waker.spawns \in SUBSET Spawns
  BY <1>1 DEF Wakers
<1>3. \A s \in waker.spawns :
        /\ [s EXCEPT !.entry = Shift(@)] \in Spawns
        /\ [s EXCEPT !.entry = Shift(@)].entry = Shift(s.entry)
  BY <1>2, ShiftTyped DEF Spawns
<1>4. waker' \in Wakers
  <2>1. (IF waker.pc = "idle" THEN 0 ELSE waker.age + 1) \in 0 .. MaxAge
    BY <1>1, ScheduleAssumption DEF Tick, Wakers
  <2>2. {[s EXCEPT !.entry = Shift(@)] : s \in waker.spawns} \in SUBSET Spawns
    BY <1>3
  <2>3. /\ ShiftAll(waker.seen) \in SUBSET Entries
        /\ ShiftAll(waker.todo) \in SUBSET Entries
        /\ ShiftAll(waker.kept) \in SUBSET Entries
    BY <1>2, ShiftAllTyped
  <2> QED BY <1>1, <2>1, <2>2, <2>3 DEF Tick, Wakers
<1>5. bridge' \in [Bridges -> [pc : {"idle", "write"}, updated : SUBSET Entries,
                               prune : BOOLEAN]]
  BY <1>1, ShiftAllTyped DEF Tick, IInv, TypeOK
<1>6. TypeOK'
  BY <1>1, <1>4, <1>5, ShiftAllTyped DEF Tick, history, IInv, TypeOK
<1>7. /\ IdsOf(schedule') = IdsOf(schedule)
      /\ \A b \in Bridges : /\ bridge'[b].pc = bridge[b].pc
                            /\ IdsOf(bridge'[b].updated) = IdsOf(bridge[b].updated)
  BY <1>1, ShiftAllTyped DEF Tick, IInv, TypeOK
<1>8. /\ waker'.pc = waker.pc /\ waker'.todo = ShiftAll(waker.todo)
      /\ waker'.kept = ShiftAll(waker.kept)
      /\ waker'.spawns = {[s EXCEPT !.entry = Shift(@)] : s \in waker.spawns}
  BY <1>1 DEF Tick, Wakers
<1>9. Planned' = ShiftAll(Planned) /\ Planned \in SUBSET Entries
  <2>1. Planned' = {Shift(s.entry) : s \in waker.spawns}
    <3> DEFINE later(s) == [s EXCEPT !.entry = Shift(@)]
    <3>1. Planned' = {t.entry : t \in {later(s) : s \in waker.spawns}}
      BY <1>8 DEF Planned
    <3>2. \A s \in waker.spawns : later(s).entry = Shift(s.entry)
      BY <1>3
    <3> HIDE DEF later
    <3>3. {t.entry : t \in {later(s) : s \in waker.spawns}}
            = {later(s).entry : s \in waker.spawns}
      OBVIOUS
    <3> QED BY <3>1, <3>2, <3>3
  <2>2. \A s \in waker.spawns : s.entry \in Entries
    BY <1>2 DEF Spawns
  <2>3. {Shift(s.entry) : s \in waker.spawns}
          = {Shift(e) : e \in {s.entry : s \in waker.spawns}}
    OBVIOUS
  <2> QED BY <2>1, <2>2, <2>3 DEF Planned, ShiftAll
<1>10. ~Polling => waker'.todo = {} /\ waker'.kept = {} /\ waker'.spawns = {}
  BY <1>8 DEF IInv, Control, PassHasScheduled, ShiftAll
<1>11. PassHasScheduled'
  BY <1>2, <1>7, <1>8, <1>9, <1>10, ShiftAllTyped
     DEF IInv, Control, PassHasScheduled, Polling
<1> QED BY <1>6, <1>7, <1>8, <1>11
        DEF Tick, history, IInv, Control, WritersHoldTheLock, OnlyRegistered,
            NotRestored, Polling

-----------------------------------------------------------------------------
(* The hooks.                                                              *)

\* A hook that takes the lock loads nothing that is cancelled.
LEMMA RegisterIInv ==
  ASSUME IInv, NEW b \in Bridges, NEW i \in Ids, NEW prompt \in Prompts,
         NEW delay \in 1 .. MaxWait, Register(b, i, prompt, delay)
  PROVE  IInv'
<1> DEFINE new == [id |-> i, kind |-> "resume", created_by |-> "ScheduleWakeup",
                   prompt |-> prompt, wake_at |-> delay, deadline |-> Never]
<1> DEFINE updated == merge_entries(schedule, new)
<1>1. new \in Entries
  BY TimesTyped DEF Entries
<1>2. updated \in SUBSET Entries
  BY <1>1 DEF merge_entries, IInv, TypeOK
<1>3. IdsOf(updated) \subseteq IdsOf(schedule) \cup {i}
  BY MergeIds
<1>4. /\ i \notin used /\ used' = used \cup {i} /\ bridge[b].pc = "idle"
      /\ lock = NoOne /\ lock' = b
      /\ bridge' = [bridge EXCEPT ![b] =
           [pc |-> "write", updated |-> updated, prune |-> FALSE]]
      /\ UNCHANGED <<schedule, present, actor, context, waker, launched, cancelled, crashes>>
  BY DEF Register, WriteEntries
<1> HIDE DEF updated
<1>5. TypeOK'
  BY <1>2, <1>4 DEF IInv, TypeOK
<1>6. ~Polling /\ \A c \in Bridges : bridge[c].pc # "write"
  BY <1>4, ScheduleAssumption DEF IInv, Control, WritersHoldTheLock
<1>7. WritersHoldTheLock'
  BY <1>4, <1>6 DEF IInv, TypeOK, WritersHoldTheLock, Polling
<1>8. OnlyRegistered'
  BY <1>3, <1>4 DEF IInv, TypeOK, Control, OnlyRegistered
<1>9. PassHasScheduled'
  BY <1>4 DEF IInv, Control, PassHasScheduled, Polling, Planned
<1>10. NotRestored'
  BY <1>3, <1>4, <1>6 DEF IInv, TypeOK, Control, OnlyRegistered, NotRestored
<1> QED BY <1>5, <1>7, <1>8, <1>9, <1>10 DEF IInv, Control

LEMMA VerifyPassedIInv ==
  ASSUME IInv, NEW b \in Bridges, VerifyPassed(b) PROVE IInv'
<1> DEFINE updated == without_own(schedule)
<1>1. updated \in SUBSET Entries /\ IdsOf(updated) \subseteq IdsOf(schedule)
  BY WithoutIds DEF without_own, IInv, TypeOK
<1>2. /\ bridge[b].pc = "idle" /\ lock = NoOne /\ lock' = b
      /\ bridge' = [bridge EXCEPT ![b] =
           [pc |-> "write", updated |-> updated, prune |-> TRUE]]
      /\ UNCHANGED <<schedule, present, actor, context, waker, used, launched,
                     cancelled, crashes>>
  BY DEF VerifyPassed, WriteEntries
<1> HIDE DEF updated
<1>3. TypeOK'
  BY <1>1, <1>2 DEF IInv, TypeOK
<1>4. ~Polling /\ \A c \in Bridges : bridge[c].pc # "write"
  BY <1>2, ScheduleAssumption DEF IInv, Control, WritersHoldTheLock
<1>5. WritersHoldTheLock'
  BY <1>2, <1>4 DEF IInv, TypeOK, WritersHoldTheLock, Polling
<1>6. OnlyRegistered'
  BY <1>1, <1>2 DEF IInv, TypeOK, Control, OnlyRegistered
<1>7. PassHasScheduled'
  BY <1>2 DEF IInv, Control, PassHasScheduled, Polling, Planned
<1>8. NotRestored'
  BY <1>1, <1>2, <1>4 DEF IInv, TypeOK, Control, NotRestored
<1> QED BY <1>3, <1>5, <1>6, <1>7, <1>8 DEF IInv, Control

\* Only the holder of the lock replaces the schedule, and what it cancels is not
\* in what it writes.
LEMMA BridgeWriteIInv ==
  ASSUME IInv, NEW b \in Bridges, BridgeWrite(b) PROVE IInv'
<1> DEFINE r == bridge[b]
<1>1. /\ r.pc = "write" /\ lock = b /\ r.updated \in SUBSET Entries
      /\ IdsOf(r.updated) \subseteq used /\ cancelled \cap IdsOf(r.updated) = {}
  BY DEF BridgeWrite, IInv, TypeOK, Control, WritersHoldTheLock, OnlyRegistered,
         NotRestored
<1>2. ~Polling /\ \A c \in Bridges : bridge[c].pc = "write" => c = b
  BY <1>1, ScheduleAssumption DEF IInv, Control, WritersHoldTheLock
<1>3. /\ schedule' = r.updated /\ present' = TRUE /\ lock' = NoOne
      /\ bridge' = [bridge EXCEPT ![b] = Away]
      /\ UNCHANGED <<actor, context, waker, used, launched, crashes>>
  BY <1>1 DEF BridgeWrite
<1>4. /\ cancelled' \subseteq cancelled \cup (IdsOf(schedule) \ IdsOf(r.updated))
      /\ IdsOf(schedule) \subseteq used /\ cancelled \subseteq used
  BY DEF BridgeWrite, IInv, Control, OnlyRegistered
<1>5. Away.pc = "idle" /\ Away.updated = {} /\ Away.prune \in BOOLEAN
      /\ Away \in [pc : {"idle", "write"}, updated : SUBSET Entries, prune : BOOLEAN]
  BY DEF Away
<1> HIDE DEF r
<1>6. TypeOK'
  BY <1>1, <1>3, <1>4, <1>5 DEF IInv, TypeOK
<1>7. \A c \in Bridges : bridge'[c].pc # "write"
  BY <1>2, <1>3, <1>5 DEF IInv, TypeOK
<1>8. WritersHoldTheLock' /\ PassHasScheduled'
  <2>1. Planned = {}
    BY <1>2 DEF IInv, Control, PassHasScheduled, Planned
  <2> QED BY <1>2, <1>3, <1>7, <2>1, IdsEmpty
          DEF IInv, Control, WritersHoldTheLock, PassHasScheduled, Polling, Planned
<1>9. OnlyRegistered'
  BY <1>1, <1>3, <1>4, <1>5, IdsEmpty DEF IInv, TypeOK, Control, OnlyRegistered
<1>10. NotRestored'
  BY <1>1, <1>3, <1>4, <1>7 DEF NotRestored
<1> QED BY <1>6, <1>8, <1>9, <1>10 DEF IInv, Control

LEMMA BridgeCrashIInv ==
  ASSUME IInv, NEW b \in Bridges, BridgeCrash(b) PROVE IInv'
<1>1. /\ bridge[b].pc = "write" /\ lock = b /\ lock' = NoOne
      /\ bridge' = [bridge EXCEPT ![b] = Away]
      /\ crashes' \in 0 .. MaxCrashes
      /\ UNCHANGED <<schedule, present, actor, context, waker, used, launched,
                     cancelled>>
  BY ScheduleAssumption
     DEF BridgeCrash, history, IInv, TypeOK, Control, WritersHoldTheLock
<1>2. Away.pc = "idle" /\ Away.updated = {}
      /\ Away \in [pc : {"idle", "write"}, updated : SUBSET Entries, prune : BOOLEAN]
  BY DEF Away
<1>3. ~Polling /\ \A c \in Bridges : bridge[c].pc = "write" => c = b
  BY <1>1, ScheduleAssumption DEF IInv, Control, WritersHoldTheLock
<1>4. TypeOK'
  BY <1>1, <1>2 DEF IInv, TypeOK
<1>5. \A c \in Bridges : bridge'[c].pc # "write"
  BY <1>1, <1>2, <1>3 DEF IInv, TypeOK
<1>6. OnlyRegistered'
  BY <1>1, <1>2, IdsEmpty DEF IInv, TypeOK, Control, OnlyRegistered
<1> QED BY <1>1, <1>3, <1>4, <1>5, <1>6
        DEF IInv, Control, WritersHoldTheLock, PassHasScheduled, NotRestored,
            Polling, Planned

LEMMA RegisterCheckIInv ==
  ASSUME IInv, NEW i \in Ids, NEW prompt \in Prompts, NEW delay \in 1 .. MaxWait,
         NEW deadline \in 1 .. MaxWait \cup {Never},
         RegisterCheck(i, prompt, delay, deadline)
  PROVE  IInv'
<1> DEFINE new == [id |-> i, kind |-> "check", created_by |-> "other",
                   prompt |-> prompt, wake_at |-> delay, deadline |-> deadline]
<1>1. new \in Entries /\ IdsOf({new}) = {i}
  BY TimesTyped, IdsSingle DEF Entries
<1>2. /\ i \notin used /\ lock = NoOne /\ used' = used \cup {i}
      /\ schedule' = schedule \cup {new} /\ present' = TRUE
      /\ UNCHANGED <<lock, actor, context, waker, bridge, launched, cancelled, crashes>>
  BY DEF RegisterCheck
<1> HIDE DEF new
<1>3. IdsOf(schedule') = IdsOf(schedule) \cup {i}
  BY <1>1, <1>2, IdsUnion
<1>4. TypeOK'
  BY <1>1, <1>2 DEF IInv, TypeOK
<1>5. WritersHoldTheLock' /\ OnlyRegistered'
  BY <1>2, <1>3
     DEF IInv, Control, WritersHoldTheLock, OnlyRegistered, Polling
<1>6. PassHasScheduled' /\ NotRestored'
  BY <1>2, <1>3
     DEF IInv, Control, OnlyRegistered, PassHasScheduled, NotRestored, Polling, Planned
<1> QED BY <1>4, <1>5, <1>6 DEF IInv, Control

-----------------------------------------------------------------------------
(* The waker.                                                              *)

\* What a step of a pass may touch, besides its own memory.
Apart == UNCHANGED <<schedule, present, actor, bridge, used, cancelled>>
OthersTyped ==
  /\ context \in BOOLEAN /\ launched \in [Ids -> Nat] /\ crashes \in 0 .. MaxCrashes

\* A pass goes on under its lock; it is enough to look at its own memory.
LEMMA PassGoesOn ==
  ASSUME IInv, Apart, lock' = lock, OthersTyped', waker' \in Wakers,
         Polling' => Polling, PassHasScheduled'
  PROVE  IInv'
<1>1. TypeOK'
  BY DEF Apart, OthersTyped, IInv, TypeOK
<1>2. WritersHoldTheLock'
  BY DEF Apart, IInv, Control, WritersHoldTheLock
<1>3. OnlyRegistered' /\ NotRestored'
  BY DEF Apart, IInv, Control, OnlyRegistered, NotRestored
<1> QED BY <1>1, <1>2, <1>3 DEF IInv, Control

LEMMA IdleTyped ==
  /\ Idle \in Wakers /\ [Idle EXCEPT !.pc = "start"] \in Wakers
  /\ Idle.pc = "idle" /\ Idle.todo = {} /\ Idle.kept = {} /\ Idle.spawns = {}
  /\ [Idle EXCEPT !.pc = "start"].pc = "start"
  /\ [Idle EXCEPT !.pc = "start"].todo = {}
  /\ [Idle EXCEPT !.pc = "start"].kept = {}
  /\ [Idle EXCEPT !.pc = "start"].spawns = {}
<1>1. Idle \in Wakers
  BY ScheduleAssumption DEF Idle, Wakers
<1>2. Idle.pc = "idle" /\ Idle.todo = {} /\ Idle.kept = {} /\ Idle.spawns = {}
  BY DEF Idle
<1> QED BY <1>1, <1>2 DEF Wakers

\* A pass that has loaded nothing satisfies what is asked of its memory.
LEMMA EmptyPass ==
  ASSUME waker' \in Wakers, waker'.pc \in {"idle", "start"},
         waker'.todo = {}, waker'.kept = {}, waker'.spawns = {}
  PROVE  PassHasScheduled' /\ ~Polling'
<1>1. Planned' = {}
  BY DEF Planned
<1> QED BY <1>1, IdsEmpty DEF PassHasScheduled, Polling

LEMMA PassStartIInv == ASSUME IInv, PassStart \/ PassSkip PROVE IInv'
<1>1. /\ Apart /\ lock' = lock
      /\ UNCHANGED <<context, launched, crashes>>
  BY DEF PassStart, PassSkip, Apart, history
<1>2. waker' = Idle \/ waker' = [Idle EXCEPT !.pc = "start"]
  BY DEF PassStart, PassSkip
<1>3. OthersTyped'
  BY <1>1 DEF OthersTyped, IInv, TypeOK
<1>4. waker' \in Wakers /\ PassHasScheduled' /\ ~Polling'
  BY <1>2, IdleTyped, EmptyPass
<1> QED BY <1>1, <1>3, <1>4, PassGoesOn

LEMMA ContextIInv == ASSUME IInv, ContextChanges PROVE IInv'
<1>1. Apart /\ lock' = lock /\ waker' = waker /\ OthersTyped'
  BY DEF ContextChanges, Apart, OthersTyped, history, IInv, TypeOK
<1>2. (Polling' => Polling) /\ PassHasScheduled'
  BY <1>1 DEF Apart, IInv, Control, PassHasScheduled, Polling, Planned
<1>3. waker' \in Wakers
  BY <1>1 DEF IInv, TypeOK
<1> QED BY <1>1, <1>2, <1>3, PassGoesOn

\* The pass takes the lock before it loads the schedule.
LEMMA PassLockIInv == ASSUME IInv, PassLock PROVE IInv'
<1> DEFINE due == {e \in schedule : e.wake_at <= -waker.age}
<1>1. /\ waker.pc = "start" /\ lock = NoOne /\ lock' = Waker
      /\ waker' = [waker EXCEPT !.pc = "plan", !.seen = schedule, !.todo = due,
                                !.kept = schedule \ due, !.bound = context]
      /\ Apart /\ UNCHANGED <<context, launched, crashes>>
  BY DEF PassLock, Apart, history
<1>2. waker \in Wakers /\ schedule \in SUBSET Entries /\ due \subseteq schedule
      /\ context \in BOOLEAN
  BY DEF IInv, TypeOK
<1> HIDE DEF due
<1>3. waker' \in Wakers /\ waker'.pc = "plan" /\ waker'.todo = due
      /\ waker'.kept = schedule \ due /\ waker'.spawns = waker.spawns
  BY <1>1, <1>2 DEF Wakers
<1>4. ~Polling /\ waker.spawns = {}
  BY <1>1 DEF Polling, IInv, Control, PassHasScheduled
<1>5. Planned' = {}
  BY <1>3, <1>4 DEF Planned
<1>6. TypeOK'
  BY <1>1, <1>3 DEF Apart, IInv, TypeOK
<1>7. WritersHoldTheLock'
  <2>1. \A b \in Bridges : bridge[b].pc # "write"
    BY <1>1, ScheduleAssumption DEF IInv, Control, WritersHoldTheLock
  <2> QED BY <1>1, <2>1 DEF Apart, WritersHoldTheLock
<1>8. PassHasScheduled'
  <2>1. IdsOf(due) \subseteq IdsOf(schedule)
        /\ IdsOf(schedule \ due) \subseteq IdsOf(schedule)
    BY <1>2, IdsMonotone
  <2> QED BY <1>1, <1>3, <1>5, <2>1, IdsEmpty DEF Apart, PassHasScheduled, Polling
<1>9. OnlyRegistered' /\ NotRestored'
  BY <1>1 DEF Apart, IInv, Control, OnlyRegistered, NotRestored
<1> QED BY <1>6, <1>7, <1>8, <1>9 DEF IInv, Control

\* Planning moves one due wake to the launches or to what is kept.
LEMMA PlanIInv == ASSUME IInv, Plan PROVE IInv'
<1>1. PICK e \in waker.todo : PlanResume(e) \/ PlanCheck(e)
  BY DEF Plan
<1>2. /\ waker \in Wakers /\ waker.todo \in SUBSET Entries
      /\ waker.kept \in SUBSET Entries /\ waker.spawns \in SUBSET Spawns
      /\ e \in Entries /\ waker.writable \in BOOLEAN /\ waker.bound \in BOOLEAN
  BY DEF IInv, TypeOK, Wakers
<1>3. e.id \in IdsOf(schedule)
  BY DEF IInv, Control, PassHasScheduled, IdsOf
<1>4. Apart /\ lock' = lock /\ OthersTyped' /\ waker.pc = "plan"
  BY DEF Plan, Apart, OthersTyped, IInv, TypeOK
<1>5. ASSUME NEW s \in Spawns, s.entry = e, PlanSpawn(s) PROVE IInv'
  <2> DEFINE spawns == IF \A x \in waker.spawns : key(x) # key(s)
                          THEN waker.spawns \cup {s} ELSE waker.spawns
  <2>1. waker' = [waker EXCEPT !.todo = waker.todo \ {e}, !.spawns = spawns]
    BY <1>5 DEF PlanSpawn
  <2>2. spawns \in SUBSET Spawns /\ spawns \subseteq waker.spawns \cup {s}
    BY <1>2
  <2> HIDE DEF spawns
  <2>3. /\ waker' \in Wakers /\ waker'.pc = waker.pc
        /\ waker'.todo = waker.todo \ {e} /\ waker'.kept = waker.kept
        /\ waker'.spawns = spawns
    BY <1>2, <2>1, <2>2 DEF Wakers
  <2>4. Planned' \subseteq Planned \cup {e}
    BY <1>5, <2>2, <2>3 DEF Planned
  <2>5. IdsOf(Planned') \subseteq IdsOf(Planned) \cup {e.id}
    BY <2>4 DEF IdsOf
  <2>6. IdsOf(waker'.todo) \subseteq IdsOf(waker.todo)
    BY <2>3, IdsMonotone
  <2>7. PassHasScheduled' /\ (Polling' => Polling)
    BY <1>3, <1>4, <2>3, <2>5, <2>6
       DEF Apart, IInv, Control, PassHasScheduled, Polling
  <2> QED BY <1>4, <2>3, <2>7, PassGoesOn
<1>6. ASSUME NEW w \in BOOLEAN,
             waker' = [waker EXCEPT !.todo = waker.todo \ {e},
                         !.kept = waker.kept \cup {Rearmed(e)}, !.writable = w]
      PROVE  IInv'
  <2>1. Rearmed(e) \in Entries /\ Rearmed(e).id = e.id
    BY <1>2, RearmedTyped DEF IInv
  <2>2. /\ waker' \in Wakers /\ waker'.pc = waker.pc
        /\ waker'.todo = waker.todo \ {e}
        /\ waker'.kept = waker.kept \cup {Rearmed(e)}
        /\ waker'.spawns = waker.spawns
    BY <1>2, <1>6, <2>1 DEF Wakers
  <2>3. IdsOf(waker'.kept) \subseteq IdsOf(waker.kept) \cup {e.id}
    BY <2>1, <2>2 DEF IdsOf
  <2>4. IdsOf(waker'.todo) \subseteq IdsOf(waker.todo)
    BY <2>2, IdsMonotone
  <2>5. Planned' = Planned
    BY <2>2 DEF Planned
  <2>6. PassHasScheduled' /\ (Polling' => Polling)
    BY <1>3, <1>4, <2>2, <2>3, <2>4, <2>5
       DEF Apart, IInv, Control, PassHasScheduled, Polling
  <2> QED BY <1>4, <2>2, <2>6, PassGoesOn
<1>7. \A t \in {"resume", "handoff"}, late \in BOOLEAN :
        /\ [type |-> t, late |-> late, entry |-> e] \in Spawns
        /\ [type |-> t, late |-> late, entry |-> e].entry = e
  BY <1>2 DEF Spawns
<1>8. CASE PlanResume(e)
  BY <1>5, <1>7, <1>8 DEF PlanResume
<1>9. CASE PlanCheck(e)
  <2> DEFINE w == waker.writable /\ ~(actor /\ ~waker.bound)
  <2>1. w \in BOOLEAN
    OBVIOUS
  <2>2. \/ PlanSpawn([type |-> "handoff", late |-> FALSE, entry |-> e])
        \/ PlanSpawn([type |-> "handoff", late |-> TRUE, entry |-> e])
        \/ waker' = [waker EXCEPT !.todo = waker.todo \ {e},
                       !.kept = waker.kept \cup {Rearmed(e)}, !.writable = w]
    BY <1>9 DEF PlanCheck
  <2> QED BY <1>5, <1>6, <1>7, <2>1, <2>2
<1> QED BY <1>1, <1>8, <1>9

LEMMA PlanDoneIInv == ASSUME IInv, PlanDone PROVE IInv'
<1> DEFINE spawns == IF waker.bound THEN waker.spawns ELSE {}
           w == waker.writable /\ (waker.bound \/ waker.spawns = {})
<1>1. /\ waker.pc = "plan" /\ Apart /\ lock' = lock
      /\ UNCHANGED <<context, launched, crashes>>
      /\ waker' = [waker EXCEPT !.pc = "launch", !.spawns = spawns, !.writable = w]
  BY DEF PlanDone, Apart, history
<1>2. waker \in Wakers /\ spawns \subseteq waker.spawns /\ w \in BOOLEAN
  BY DEF IInv, TypeOK
<1> HIDE DEF spawns, w
<1>3. /\ waker' \in Wakers /\ waker'.pc = "launch" /\ waker'.spawns = spawns
      /\ waker'.todo = waker.todo /\ waker'.kept = waker.kept
  BY <1>1, <1>2 DEF Wakers
<1>4. OthersTyped'
  BY <1>1 DEF OthersTyped, IInv, TypeOK
<1>5. IdsOf(Planned') \subseteq IdsOf(Planned)
  BY <1>2, <1>3 DEF Planned, IdsOf
<1>6. PassHasScheduled' /\ Polling
  BY <1>1, <1>3, <1>5 DEF Apart, IInv, Control, PassHasScheduled, Polling
<1> QED BY <1>1, <1>3, <1>4, <1>6, PassGoesOn

LEMMA LaunchIInv ==
  ASSUME IInv, NEW s \in waker.spawns, Launch(s) \/ LaunchFails(s) PROVE IInv'
<1>1. /\ waker.pc = "launch" /\ Apart /\ lock' = lock
      /\ UNCHANGED <<context, crashes>>
  BY DEF Launch, LaunchFails, Apart, history
<1>2. /\ waker \in Wakers /\ waker.spawns \in SUBSET Spawns
      /\ waker.kept \in SUBSET Entries /\ s.entry \in Entries /\ s.entry.id \in Ids
  BY DEF IInv, TypeOK, Wakers, Spawns, Entries
<1>3. s.entry.id \in IdsOf(schedule)
  BY DEF IInv, Control, PassHasScheduled, Planned, IdsOf
<1>4. PICK kept \in SUBSET Entries :
        /\ waker' = [waker EXCEPT !.spawns = waker.spawns \ {s}, !.kept = kept]
        /\ kept \subseteq waker.kept \cup {s.entry}
  <2>1. CASE Launch(s)
    <3>1. waker' = [waker EXCEPT !.spawns = waker.spawns \ {s}, !.kept = waker.kept]
      BY <1>2, <2>1 DEF Launch, Wakers
    <3> QED BY <1>2, <3>1
  <2>2. CASE LaunchFails(s)
    <3>1. waker' = [waker EXCEPT !.spawns = waker.spawns \ {s},
                                 !.kept = waker.kept \cup {s.entry}]
      BY <2>2 DEF LaunchFails
    <3> QED BY <1>2, <3>1
  <2> QED BY <2>1, <2>2
<1>5. /\ waker' \in Wakers /\ waker'.pc = "launch" /\ waker'.todo = waker.todo
      /\ waker'.kept = kept /\ waker'.spawns = waker.spawns \ {s}
  BY <1>1, <1>2, <1>4 DEF Wakers
<1>6. OthersTyped'
  <2>1. launched' \in [Ids -> Nat]
    BY <1>2 DEF Launch, LaunchFails, history, IInv, TypeOK
  <2> QED BY <1>1, <2>1 DEF OthersTyped, IInv, TypeOK
<1>7. IdsOf(Planned') \subseteq IdsOf(Planned)
  BY <1>5 DEF Planned, IdsOf
<1>8. IdsOf(waker'.kept) \subseteq IdsOf(waker.kept) \cup {s.entry.id}
  BY <1>4, <1>5 DEF IdsOf
<1>9. PassHasScheduled' /\ Polling
  BY <1>1, <1>3, <1>5, <1>7, <1>8
     DEF Apart, IInv, Control, PassHasScheduled, Polling
<1> QED BY <1>1, <1>5, <1>6, <1>9, PassGoesOn

\* What a pass writes are wakes that were in the schedule when it loaded it, and
\* still are.
LEMMA PassWriteIInv == ASSUME IInv, PassWrite PROVE IInv'
<1>1. /\ waker.pc = "launch" /\ lock = Waker /\ lock' = NoOne /\ waker' = Idle
      /\ schedule' = waker.kept \/ schedule' = schedule
      /\ present' \in BOOLEAN
      /\ UNCHANGED <<actor, context, bridge, used, launched, cancelled,
                     crashes>>
  BY DEF PassWrite, history, IInv, TypeOK, Control, WritersHoldTheLock, Polling
<1>2. schedule' \in SUBSET Entries /\ IdsOf(schedule') \subseteq IdsOf(schedule)
  BY <1>1 DEF IInv, TypeOK, Wakers, Control, PassHasScheduled
<1>3. TypeOK'
  BY <1>1, <1>2, IdleTyped DEF IInv, TypeOK
<1>4. \A b \in Bridges : bridge[b].pc # "write"
  BY <1>1, ScheduleAssumption DEF IInv, Control, WritersHoldTheLock
<1>5. PassHasScheduled' /\ ~Polling'
  BY <1>1, IdleTyped, EmptyPass
<1>6. WritersHoldTheLock' /\ OnlyRegistered' /\ NotRestored'
  BY <1>1, <1>2, <1>4, <1>5
     DEF IInv, Control, WritersHoldTheLock, OnlyRegistered, NotRestored
<1> QED BY <1>3, <1>5, <1>6 DEF IInv, Control

LEMMA WakerCrashIInv == ASSUME IInv, WakerCrash PROVE IInv'
<1>1. /\ lock' = IF lock = Waker THEN NoOne ELSE lock
      /\ waker' = Idle /\ crashes' \in 0 .. MaxCrashes
      /\ UNCHANGED <<schedule, present, actor, context, bridge, used, launched,
                     cancelled>>
  BY ScheduleAssumption DEF WakerCrash, history, IInv, TypeOK
<1>2. TypeOK'
  BY <1>1, IdleTyped DEF IInv, TypeOK
<1>3. PassHasScheduled' /\ ~Polling'
  BY <1>1, IdleTyped, EmptyPass
<1>4. WritersHoldTheLock'
  BY <1>1, <1>3, ScheduleAssumption DEF IInv, Control, WritersHoldTheLock
<1>5. OnlyRegistered' /\ NotRestored'
  BY <1>1 DEF IInv, Control, OnlyRegistered, NotRestored
<1> QED BY <1>2, <1>3, <1>4, <1>5 DEF IInv, Control

-----------------------------------------------------------------------------
(* The specification.                                                      *)

LEMMA NextIInv == IInv /\ [Next]_vars => IInv'
<1> SUFFICES ASSUME IInv, [Next]_vars PROVE IInv'
  OBVIOUS
<1>1. CASE Tick
  BY <1>1, TickIInv
<1>2. CASE PassStart \/ PassSkip
  BY <1>2, PassStartIInv
<1>3. CASE Pass /\ ~PassSkip
  BY <1>3, PassLockIInv, PlanIInv, PlanDoneIInv, PassWriteIInv, LaunchIInv DEF Pass
<1>4. CASE WakerCrash
  BY <1>4, WakerCrashIInv
<1>5. CASE ContextChanges
  BY <1>5, ContextIInv
<1>6. ASSUME NEW b \in Bridges, Register_or_prune(b) \/ BridgeWrite(b) \/ BridgeCrash(b)
      PROVE  IInv'
  BY <1>6, RegisterIInv, VerifyPassedIInv, BridgeWriteIInv, BridgeCrashIInv
     DEF Register_or_prune
<1>7. ASSUME NEW i \in Ids, NEW prompt \in Prompts, NEW delay \in 1 .. MaxWait,
             NEW deadline \in 1 .. MaxWait \cup {Never},
             RegisterCheck(i, prompt, delay, deadline)
      PROVE  IInv'
  BY <1>7, RegisterCheckIInv
<1>8. CASE UNCHANGED vars
  BY <1>8
     DEF vars, IInv, TypeOK, Control, WritersHoldTheLock, OnlyRegistered,
         PassHasScheduled, NotRestored, Polling, Planned
<1> QED BY <1>1, <1>2, <1>3, <1>4, <1>5, <1>6, <1>7, <1>8 DEF Next, Pass

\* The inductive invariant: whoever writes holds the lock, and what it holds in
\* memory was in the schedule when it took it.
THEOREM LockProtectsSchedule == Spec => []IInv
  BY InitIInv, NextIInv, PTL DEF Spec

\* Type correctness, with the times that the passing of time produces.
THEOREM WakeTypeCorrect == Spec => []TypeOK
<1>1. IInv => TypeOK
  BY DEF IInv
<1> QED BY <1>1, LockProtectsSchedule, PTL

\* A wake cancelled by a written prune is never written back by a pass or by a
\* registration that loaded the schedule before, and never launched.
THEOREM CancelledForGood == Spec => []CancelledStaysCancelled
<1>1. IInv => CancelledStaysCancelled
  BY DEF IInv, Control, NotRestored, PassHasScheduled, CancelledStaysCancelled,
         Planned
<1> QED BY <1>1, LockProtectsSchedule, PTL

-----------------------------------------------------------------------------
(* What a pass launches and what it prunes: a second inductive invariant,  *)
(* on top of the first.                                                    *)

\* No two entries of a schedule have the same id, and a pass has each wake in one
\* place only.
Unique(S) == \A e, f \in S : e.id = f.id => e = f
DistinctIds ==
  /\ Unique(schedule) /\ Unique(waker.todo) /\ Unique(waker.kept)
  /\ \A b \in Bridges : bridge[b].pc = "write" => Unique(bridge[b].updated)
  /\ \A s, r \in waker.spawns : s.entry.id = r.entry.id => s = r
  /\ IdsOf(waker.todo) \cap IdsOf(waker.kept) = {}
  /\ IdsOf(Planned) \cap (IdsOf(waker.todo) \cup IdsOf(waker.kept)) = {}

\* What a pass remembers of the schedule is what is in it.
PassMemory ==
  /\ ~Polling => waker.writable
  /\ Polling =>
       /\ waker.seen = schedule /\ waker.todo \subseteq schedule
       /\ Planned \subseteq schedule
       /\ \A s \in waker.spawns : s.type = "resume" <=> s.entry.kind = "resume"
       /\ waker.pc = "launch" => waker.todo = {} /\ (waker.spawns # {} => waker.bound)
       /\ ~waker.writable => ~waker.bound

\* A wake that may still launch has launched at most once per crash; only the pass
\* that launched it has it in the schedule after that.
Pending == IdsOf(waker.todo) \cup IdsOf(waker.kept) \cup IdsOf(Planned)
LaunchCount ==
  /\ \A i \in Ids : launched[i] <= 1 + crashes
  /\ \A i \in Ids \ used : launched[i] = 0
  /\ \A b \in Bridges : bridge[b].pc = "write" =>
       \A i \in IdsOf(bridge[b].updated) : launched[i] <= crashes
  /\ \A i \in Pending : launched[i] <= crashes
  /\ waker.pc # "launch" \/ ~waker.bound =>
       \A i \in IdsOf(schedule) : launched[i] <= crashes

\* What a pass that will write has dropped, it launched or has an equal of.
Alike(e, f) == f.kind = e.kind /\ f.prompt = e.prompt
Covered(e) ==
  \E f \in schedule : /\ Alike(e, f)
                      /\ \/ f.id \in IdsOf(waker.kept) \cup IdsOf(Planned)
                         \/ launched[f.id] > 0
Accounted ==
  Polling /\ waker.writable =>
    \A e \in schedule : e.id \in IdsOf(waker.todo) \cup IdsOf(waker.kept) \/ Covered(e)

LInv == DistinctIds /\ PassMemory /\ LaunchCount /\ Accounted

LEMMA UniqueSubset ==
  ASSUME NEW S, NEW T, S \subseteq T, Unique(T) PROVE Unique(S)
  BY DEF Unique
LEMMA UniqueAdd ==
  ASSUME NEW S, NEW e, Unique(S), e.id \notin IdsOf(S) PROVE Unique(S \cup {e})
  BY DEF Unique, IdsOf
LEMMA UniqueShift ==
  ASSUME NEW S \in SUBSET Entries, Unique(S) PROVE Unique(ShiftAll(S))
  BY ShiftTyped DEF Unique, ShiftAll

LEMMA Counting ==
  ASSUME IInv
  PROVE  crashes \in Nat /\ \A i \in Ids : launched[i] \in Nat
  BY ScheduleAssumption DEF IInv, TypeOK

\* Outside of a pass only the schedule, the hooks and the counts matter.
LEMMA Outside ==
  ASSUME IInv', ~Polling', waker'.writable, Unique(schedule)',
         \A b \in Bridges : bridge'[b].pc = "write" =>
            /\ Unique(bridge'[b].updated)
            /\ \A i \in IdsOf(bridge'[b].updated) : launched'[i] <= crashes',
         \A i \in Ids : launched'[i] <= 1 + crashes',
         \A i \in Ids \ used' : launched'[i] = 0,
         \A i \in IdsOf(schedule') : launched'[i] <= crashes'
  PROVE  LInv'
<1>1. waker'.todo = {} /\ waker'.kept = {} /\ waker'.spawns = {}
  BY DEF IInv, Control, PassHasScheduled
<1>2. IdsOf(waker'.todo) = {} /\ IdsOf(waker'.kept) = {} /\ IdsOf(Planned') = {}
  BY <1>1, IdsEmpty DEF Planned
<1>3. DistinctIds'
  BY <1>1, <1>2 DEF DistinctIds, Unique
<1>4. LaunchCount'
  BY <1>2 DEF LaunchCount, Pending
<1> QED BY <1>3, <1>4 DEF LInv, PassMemory, Accounted

LEMMA InitLInv == Init => LInv
<1> SUFFICES ASSUME Init PROVE LInv
  OBVIOUS
<1>1. IInv
  BY InitIInv
<1>2. /\ schedule = {} /\ waker = Idle /\ crashes = 0
      /\ \A i \in Ids : launched[i] = 0
      /\ \A b \in Bridges : bridge[b].pc = "idle"
  BY DEF Init, Away
<1>3. waker.todo = {} /\ waker.kept = {} /\ waker.spawns = {} /\ waker.pc = "idle"
  BY <1>2, IdleTyped
<1>4. Planned = {} /\ ~Polling /\ waker.writable
  BY <1>2, <1>3 DEF Planned, Polling, Idle
<1>5. DistinctIds /\ LaunchCount
  BY <1>2, <1>3, <1>4, IdsEmpty DEF DistinctIds, Unique, LaunchCount, Pending
<1> QED BY <1>4, <1>5 DEF LInv, PassMemory, Accounted

\* A hook that takes the lock reads the schedule while no pass is in progress.
LEMMA HookLInv ==
  ASSUME IInv, IInv', LInv, NEW b \in Bridges, NEW updated, NEW prune,
         WriteEntries(b, updated, prune),
         Unique(updated), \A i \in IdsOf(updated) : launched[i] <= crashes,
         used \subseteq used', UNCHANGED <<schedule, waker, launched, crashes>>
  PROVE  LInv'
<1>1. /\ lock = NoOne /\ bridge' = [bridge EXCEPT ![b] =
           [pc |-> "write", updated |-> updated, prune |-> prune]]
  BY DEF WriteEntries
<1>2. ~Polling
  BY <1>1, ScheduleAssumption DEF IInv, Control, WritersHoldTheLock
<1>3. ~Polling' /\ waker'.writable /\ waker.pc # "launch"
  BY <1>2 DEF Polling, LInv, PassMemory
<1>4. \A c \in Bridges : bridge'[c].pc = "write" =>
        Unique(bridge'[c].updated) /\ \A i \in IdsOf(bridge'[c].updated) : launched[i] <= crashes
  BY <1>1 DEF IInv, TypeOK, LInv, DistinctIds, LaunchCount
<1>5. Unique(schedule)'
  BY DEF LInv, DistinctIds
<1>6. /\ \A i \in Ids : launched'[i] <= 1 + crashes'
      /\ \A i \in Ids \ used' : launched'[i] = 0
      /\ \A i \in IdsOf(schedule') : launched'[i] <= crashes'
  BY <1>3 DEF LInv, LaunchCount
<1> QED BY <1>3, <1>4, <1>5, <1>6, Outside

LEMMA RegisterLInv ==
  ASSUME IInv, IInv', LInv, NEW b \in Bridges, NEW i \in Ids, NEW prompt \in Prompts,
         NEW delay \in 1 .. MaxWait, Register(b, i, prompt, delay)
  PROVE  LInv'
<1> DEFINE new == [id |-> i, kind |-> "resume", created_by |-> "ScheduleWakeup",
                   prompt |-> prompt, wake_at |-> delay, deadline |-> Never]
           old == {e \in schedule : ~Past(e) /\ ~Own(e)}
<1>1. /\ i \notin used /\ used \subseteq used'
      /\ WriteEntries(b, merge_entries(schedule, new), FALSE)
      /\ UNCHANGED <<schedule, waker, launched, crashes>>
  BY DEF Register
<1>2. merge_entries(schedule, new) = old \cup {new} /\ new.id = i /\ old \subseteq schedule
  BY DEF merge_entries
<1>3. i \notin IdsOf(old) /\ IdsOf(old) \subseteq IdsOf(schedule)
  BY <1>1, <1>2, IdsMonotone DEF IInv, Control, OnlyRegistered
<1>4. Unique(old)
  BY <1>2, UniqueSubset DEF LInv, DistinctIds
<1>5. Unique(old \cup {new})
  BY <1>2, <1>3, <1>4, UniqueAdd
<1>6. IdsOf(old \cup {new}) \subseteq IdsOf(schedule) \cup {i}
  BY <1>2 DEF IdsOf
<1>7. waker.pc # "launch"
  BY <1>1, ScheduleAssumption DEF WriteEntries, IInv, Control, WritersHoldTheLock, Polling
<1>8. \A j \in IdsOf(old \cup {new}) : launched[j] <= crashes
  BY <1>1, <1>6, <1>7, Counting DEF LInv, LaunchCount
<1> HIDE DEF new, old
<1> QED BY <1>1, <1>2, <1>5, <1>8, HookLInv

LEMMA VerifyPassedLInv ==
  ASSUME IInv, IInv', LInv, NEW b \in Bridges, VerifyPassed(b)
  PROVE  LInv'
<1>1. /\ WriteEntries(b, without_own(schedule), TRUE) /\ used' = used
      /\ UNCHANGED <<schedule, waker, launched, crashes>>
  BY DEF VerifyPassed
<1>2. without_own(schedule) \subseteq schedule
  BY DEF without_own
<1>3. Unique(without_own(schedule)) /\ IdsOf(without_own(schedule)) \subseteq IdsOf(schedule)
  BY <1>2, UniqueSubset, IdsMonotone DEF LInv, DistinctIds
<1>4. waker.pc # "launch"
  BY <1>1, ScheduleAssumption DEF WriteEntries, IInv, Control, WritersHoldTheLock, Polling
<1>5. \A j \in IdsOf(without_own(schedule)) : launched[j] <= crashes
  BY <1>3, <1>4 DEF LInv, LaunchCount
<1> QED BY <1>1, <1>3, <1>5, HookLInv

LEMMA BridgeEndsLInv ==
  ASSUME IInv, IInv', LInv, NEW b \in Bridges, BridgeWrite(b) \/ BridgeCrash(b)
  PROVE  LInv'
<1>1. /\ bridge[b].pc = "write" /\ bridge' = [bridge EXCEPT ![b] = Away]
      /\ schedule' = bridge[b].updated \/ schedule' = schedule
      /\ crashes' = crashes \/ crashes' = crashes + 1
      /\ UNCHANGED <<waker, used, launched>>
  BY DEF BridgeWrite, BridgeCrash, history
<1>2. ~Polling /\ ~Polling' /\ waker'.writable /\ waker.pc # "launch"
  BY <1>1, ScheduleAssumption
     DEF IInv, Control, WritersHoldTheLock, Polling, LInv, PassMemory
<1>3. \A c \in Bridges : bridge'[c].pc = "write" => bridge[c].pc = "write"
                                                    /\ bridge'[c] = bridge[c]
  BY <1>1 DEF Away, IInv, TypeOK
<1>4. Unique(schedule)'
  BY <1>1 DEF LInv, DistinctIds
<1>5. /\ IdsOf(schedule) \subseteq Ids /\ IdsOf(schedule') \subseteq Ids
      /\ \A c \in Bridges : IdsOf(bridge[c].updated) \subseteq Ids
  BY DEF IInv, TypeOK, Control, OnlyRegistered
<1>6. \A i \in IdsOf(schedule') : launched[i] <= crashes
  BY <1>1, <1>2 DEF LInv, LaunchCount
<1>7. \A i \in IdsOf(schedule') : launched'[i] <= crashes'
  BY <1>1, <1>5, <1>6, Counting
<1>8. \A c \in Bridges : bridge'[c].pc = "write" =>
        /\ Unique(bridge'[c].updated)
        /\ \A i \in IdsOf(bridge'[c].updated) : launched'[i] <= crashes'
  BY <1>1, <1>3, <1>5, Counting DEF LInv, DistinctIds, LaunchCount
<1>9. \A i \in Ids : launched'[i] <= 1 + crashes' /\ (i \notin used' => launched'[i] = 0)
  BY <1>1, Counting DEF LInv, LaunchCount
<1> QED BY <1>2, <1>4, <1>7, <1>8, <1>9, Outside

LEMMA RegisterCheckLInv ==
  ASSUME IInv, IInv', LInv, NEW i \in Ids, NEW prompt \in Prompts,
         NEW delay \in 1 .. MaxWait, NEW deadline \in 1 .. MaxWait \cup {Never},
         RegisterCheck(i, prompt, delay, deadline)
  PROVE  LInv'
<1> DEFINE new == [id |-> i, kind |-> "check", created_by |-> "other",
                   prompt |-> prompt, wake_at |-> delay, deadline |-> deadline]
<1>1. /\ i \notin used /\ lock = NoOne /\ used' = used \cup {i}
      /\ schedule' = schedule \cup {new} /\ new.id = i
      /\ UNCHANGED <<waker, bridge, launched, crashes>>
  BY DEF RegisterCheck
<1> HIDE DEF new
<1>2. ~Polling /\ ~Polling' /\ waker'.writable /\ waker.pc # "launch"
  BY <1>1, ScheduleAssumption
     DEF IInv, Control, WritersHoldTheLock, Polling, LInv, PassMemory
<1>3. i \notin IdsOf(schedule)
  BY <1>1 DEF IInv, Control, OnlyRegistered
<1>4. Unique(schedule \cup {new})
  BY <1>1, <1>3, UniqueAdd DEF LInv, DistinctIds
<1>5. IdsOf(schedule') = IdsOf(schedule) \cup {i}
  BY <1>1 DEF IdsOf
<1>6. \A j \in IdsOf(schedule') : launched'[j] <= crashes'
  BY <1>1, <1>2, <1>5, Counting DEF LInv, LaunchCount
<1>7. \A c \in Bridges : bridge'[c].pc = "write" =>
        /\ Unique(bridge'[c].updated)
        /\ \A j \in IdsOf(bridge'[c].updated) : launched'[j] <= crashes'
  BY <1>1 DEF LInv, DistinctIds, LaunchCount
<1>8. \A j \in Ids : launched'[j] <= 1 + crashes' /\ (j \notin used' => launched'[j] = 0)
  BY <1>1 DEF LInv, LaunchCount
<1> QED BY <1>1, <1>2, <1>4, <1>6, <1>7, <1>8, Outside

LEMMA PassStartLInv ==
  ASSUME IInv, IInv', LInv, PassStart \/ PassSkip PROVE LInv'
<1>1. /\ waker.pc \in {"idle", "start"} /\ waker'.pc \in {"idle", "start"}
      /\ UNCHANGED <<schedule, bridge, used, launched, crashes>> /\ waker'.writable
  BY IdleTyped DEF PassStart, PassSkip, history, Idle
<1>2. ~Polling' /\ waker.pc # "launch"
  BY <1>1 DEF Polling
<1> QED BY <1>1, <1>2, Outside DEF LInv, DistinctIds, LaunchCount

LEMMA WakerCrashLInv ==
  ASSUME IInv, IInv', LInv, WakerCrash PROVE LInv'
<1>1. /\ waker' = Idle /\ crashes' = crashes + 1
      /\ UNCHANGED <<schedule, bridge, used, launched>>
  BY DEF WakerCrash, history
<1>2. ~Polling' /\ waker'.writable
  BY <1>1, IdleTyped DEF Polling, Idle
<1>3. /\ IdsOf(schedule) \subseteq Ids
      /\ \A c \in Bridges : IdsOf(bridge[c].updated) \subseteq Ids
  BY DEF IInv, TypeOK, Control, OnlyRegistered
<1>4. \A i \in Ids : launched'[i] <= crashes' /\ launched'[i] <= 1 + crashes'
                     /\ (i \notin used' => launched'[i] = 0)
  BY <1>1, Counting DEF LInv, LaunchCount
<1> QED BY <1>1, <1>2, <1>3, <1>4, Outside DEF LInv, DistinctIds

LEMMA ContextLInv ==
  ASSUME LInv, ContextChanges \/ UNCHANGED vars PROVE LInv'
BY DEF ContextChanges, vars, history, LInv, DistinctIds, PassMemory, LaunchCount, Accounted,
       Covered, Pending, Polling, Planned

\* Time moves every time, and changes neither an id nor what is alike.
LEMMA TickLInv ==
  ASSUME IInv, IInv', LInv, Tick PROVE LInv'
<1>1. /\ schedule \in SUBSET Entries /\ waker \in Wakers
      /\ \A b \in Bridges : bridge[b].updated \in SUBSET Entries
      /\ waker.seen \in SUBSET Entries /\ waker.todo \in SUBSET Entries
      /\ waker.kept \in SUBSET Entries /\ waker.spawns \in SUBSET Spawns
  BY DEF IInv, TypeOK, Wakers
<1> DEFINE later(s) == [s EXCEPT !.entry = Shift(@)]
<1>2. \A s \in Spawns : /\ later(s).entry = Shift(s.entry) /\ later(s).type = s.type
                        /\ s.entry \in Entries
  BY DEF Spawns
<1>3. \A e \in Entries : /\ Shift(e).id = e.id /\ Shift(e).kind = e.kind
                         /\ Shift(e).prompt = e.prompt
  BY DEF Shift, Entries
<1>4. /\ schedule' = ShiftAll(schedule)
      /\ waker'.pc = waker.pc /\ waker'.bound = waker.bound
      /\ waker'.writable = waker.writable /\ waker'.seen = ShiftAll(waker.seen)
      /\ waker'.todo = ShiftAll(waker.todo) /\ waker'.kept = ShiftAll(waker.kept)
      /\ waker'.spawns = {later(s) : s \in waker.spawns}
      /\ \A b \in Bridges : /\ bridge'[b].pc = bridge[b].pc
                            /\ bridge'[b].updated = ShiftAll(bridge[b].updated)
      /\ UNCHANGED <<used, launched, crashes>>
  <2>1. \A b \in Bridges : /\ bridge'[b].pc = bridge[b].pc
                           /\ bridge'[b].updated = ShiftAll(bridge[b].updated)
    BY DEF Tick, IInv, TypeOK
  <2>2. waker' = [waker EXCEPT
          !.age = IF waker.pc = "idle" THEN 0 ELSE @ + 1,
          !.seen = ShiftAll(@), !.todo = ShiftAll(@), !.kept = ShiftAll(@),
          !.spawns = {later(s) : s \in @}]
    BY DEF Tick
  <2>3. /\ waker'.pc = waker.pc /\ waker'.bound = waker.bound
        /\ waker'.writable = waker.writable /\ waker'.seen = ShiftAll(waker.seen)
        /\ waker'.todo = ShiftAll(waker.todo) /\ waker'.kept = ShiftAll(waker.kept)
        /\ waker'.spawns = {later(s) : s \in waker.spawns}
    BY <1>1, <2>2 DEF Wakers
  <2> QED BY <2>1, <2>3 DEF Tick, history
<1> HIDE DEF later
<1>5. /\ IdsOf(schedule') = IdsOf(schedule)
      /\ IdsOf(waker'.todo) = IdsOf(waker.todo) /\ IdsOf(waker'.kept) = IdsOf(waker.kept)
      /\ \A b \in Bridges : IdsOf(bridge'[b].updated) = IdsOf(bridge[b].updated)
  BY <1>1, <1>4, ShiftAllTyped
<1>6. Planned' = ShiftAll(Planned) /\ Planned \in SUBSET Entries
  BY <1>1, <1>2, <1>4 DEF Planned, ShiftAll
<1>7. IdsOf(Planned') = IdsOf(Planned)
  BY <1>6, ShiftAllTyped
<1>8. DistinctIds'
  <2>1. \A s, r \in waker'.spawns : s.entry.id = r.entry.id => s = r
    BY <1>1, <1>2, <1>3, <1>4 DEF LInv, DistinctIds
  <2>2. Unique(schedule)' /\ Unique(waker.todo)' /\ Unique(waker.kept)'
    BY <1>1, <1>4, UniqueShift DEF LInv, DistinctIds
  <2>3. \A b \in Bridges : bridge'[b].pc = "write" => Unique(bridge'[b].updated)
    BY <1>1, <1>4, UniqueShift DEF LInv, DistinctIds
  <2> QED BY <1>5, <1>7, <2>1, <2>2, <2>3 DEF LInv, DistinctIds
<1>9. PassMemory'
  <2> SUFFICES ASSUME Polling' PROVE PassMemory'
    BY <1>4 DEF LInv, PassMemory, Polling
  <2>1. Polling
    BY <1>4 DEF Polling
  <2>2. waker'.seen = schedule' /\ waker'.todo \subseteq schedule' /\ Planned' \subseteq schedule'
    BY <1>4, <1>6, <2>1 DEF LInv, PassMemory, ShiftAll
  <2>3. \A s \in waker'.spawns : s.type = "resume" <=> s.entry.kind = "resume"
    BY <1>1, <1>2, <1>3, <1>4, <2>1 DEF LInv, PassMemory
  <2>4. /\ waker'.pc = "launch" => waker'.todo = {} /\ (waker'.spawns # {} => waker'.bound)
        /\ ~waker'.writable => ~waker'.bound
    BY <1>4, <2>1 DEF LInv, PassMemory, ShiftAll
  <2> QED BY <2>2, <2>3, <2>4 DEF PassMemory
<1>10. LaunchCount'
  BY <1>4, <1>5, <1>7 DEF LInv, LaunchCount, Pending
<1>11. Accounted'
  <2> SUFFICES ASSUME Polling', waker'.writable, NEW e \in schedule',
                      e.id \notin IdsOf(waker'.todo) \cup IdsOf(waker'.kept)
               PROVE  Covered(e)'
    BY DEF Accounted
  <2>1. PICK d \in schedule : e = Shift(d)
    BY <1>4 DEF ShiftAll
  <2>2. d \in Entries /\ e.id = d.id /\ e.kind = d.kind /\ e.prompt = d.prompt
    BY <1>1, <1>3, <2>1
  <2>3. Covered(d)
    BY <1>4, <1>5, <2>2 DEF LInv, Accounted, Polling
  <2>4. PICK f \in schedule : /\ f.kind = d.kind /\ f.prompt = d.prompt
                              /\ \/ f.id \in IdsOf(waker.kept) \cup IdsOf(Planned)
                                 \/ launched[f.id] > 0
    BY <2>3 DEF Covered, Alike
  <2>5. /\ Shift(f) \in schedule' /\ Shift(f).id = f.id
        /\ Shift(f).kind = e.kind /\ Shift(f).prompt = e.prompt
    BY <1>1, <1>3, <1>4, <2>2, <2>4 DEF ShiftAll
  <2>6. \/ Shift(f).id \in IdsOf(waker'.kept) \cup IdsOf(Planned')
        \/ launched'[Shift(f).id] > 0
    BY <1>4, <1>5, <1>7, <2>4, <2>5
  <2> QED BY <2>5, <2>6 DEF Covered, Alike
<1> QED BY <1>8, <1>9, <1>10, <1>11 DEF LInv

-----------------------------------------------------------------------------
(* Inside of a pass.                                                       *)

LEMMA PassLockLInv ==
  ASSUME IInv, IInv', LInv, PassLock PROVE LInv'
<1> DEFINE due == {e \in schedule : e.wake_at <= -waker.age}
<1>1. /\ waker.pc = "start" /\ lock = NoOne
      /\ waker' = [waker EXCEPT !.pc = "plan", !.seen = schedule, !.todo = due,
                                !.kept = schedule \ due, !.bound = context]
      /\ UNCHANGED <<schedule, bridge, used, launched, crashes>>
  BY DEF PassLock, history
<1>2. due \subseteq schedule /\ waker \in Wakers
  BY DEF IInv, TypeOK
<1> HIDE DEF due
<1>3. waker.spawns = {} /\ waker.kept = {} /\ waker.todo = {}
  BY <1>1 DEF Polling, IInv, Control, PassHasScheduled
<1>4. /\ waker'.pc = "plan" /\ waker'.seen = schedule /\ waker'.todo = due
      /\ waker'.kept = schedule \ due /\ waker'.spawns = {}
  BY <1>1, <1>2, <1>3 DEF Wakers
<1>5. Planned' = {} /\ IdsOf(Planned') = {}
  BY <1>4, IdsEmpty DEF Planned
<1>6. DistinctIds'
  <2>1. IdsOf(due) \cap IdsOf(schedule \ due) = {}
    BY <1>2 DEF LInv, DistinctIds, Unique, IdsOf
  <2>2. Unique(due) /\ Unique(schedule \ due)
    BY <1>2, UniqueSubset DEF LInv, DistinctIds
  <2> QED BY <1>1, <1>4, <1>5, <2>1, <2>2 DEF LInv, DistinctIds
<1>7. IdsOf(due) \subseteq IdsOf(schedule) /\ IdsOf(schedule \ due) \subseteq IdsOf(schedule)
      /\ \A e \in schedule : e.id \in IdsOf(due) \cup IdsOf(schedule \ due)
  BY <1>2 DEF IdsOf
<1>8. LaunchCount'
  BY <1>1, <1>4, <1>5, <1>7 DEF LInv, LaunchCount, Pending
<1>9. Accounted'
  BY <1>1, <1>4, <1>7 DEF Accounted
<1>10. PassMemory'
  <2>1. waker'.writable
    BY <1>1, <1>2 DEF LInv, PassMemory, Polling, Wakers
  <2> QED BY <1>1, <1>2, <1>4, <1>5, <2>1 DEF PassMemory, Polling
<1> QED BY <1>6, <1>8, <1>9, <1>10 DEF LInv

\* A due wake becomes a launch, or is dropped for an equal one.
LEMMA PlanSpawnLInv ==
  ASSUME IInv, IInv', LInv, Plan, NEW e \in waker.todo, NEW s \in Spawns, s.entry = e,
         s.type = "resume" <=> e.kind = "resume", PlanSpawn(s)
  PROVE  LInv'
<1> DEFINE new == \A x \in waker.spawns : key(x) # key(s)
           spawns == IF new THEN waker.spawns \cup {s} ELSE waker.spawns
<1>1. waker' = [waker EXCEPT !.todo = waker.todo \ {e}, !.spawns = spawns]
  BY DEF PlanSpawn
<1>2. /\ waker \in Wakers /\ waker.todo \in SUBSET Entries /\ waker.spawns \in SUBSET Spawns
      /\ e \in Entries /\ Polling /\ waker.pc = "plan"
      /\ UNCHANGED <<schedule, bridge, used, launched, crashes>>
  BY DEF Plan, IInv, TypeOK, Wakers, Polling
<1>3. /\ ~new => waker'.spawns = waker.spawns
      /\ new => waker'.spawns = waker.spawns \cup {s}
      /\ waker'.pc = "plan" /\ waker'.seen = waker.seen /\ waker'.bound = waker.bound
      /\ waker'.writable = waker.writable
      /\ waker'.todo = waker.todo \ {e} /\ waker'.kept = waker.kept
  BY <1>1, <1>2 DEF Wakers
<1>4. /\ ~new => \E x \in waker.spawns : /\ x.entry.prompt = e.prompt
                                         /\ x.type = s.type
  BY DEF key
<1> HIDE DEF new
<1>5. e \in schedule /\ Unique(schedule) /\ Unique(waker.todo)
  BY <1>2 DEF LInv, PassMemory, DistinctIds
<1>6. IdsOf(waker'.todo) = IdsOf(waker.todo) \ {e.id} /\ e.id \in IdsOf(waker.todo)
  BY <1>3, <1>5 DEF Unique, IdsOf
<1>7. /\ Planned \subseteq Planned' /\ Planned' \subseteq Planned \cup {e}
      /\ new => Planned' = Planned \cup {e}
  BY <1>3 DEF Planned
<1>8. /\ IdsOf(Planned) \subseteq IdsOf(Planned')
      /\ IdsOf(Planned') \subseteq IdsOf(Planned) \cup {e.id}
      /\ (new => e.id \in IdsOf(Planned'))
  BY <1>7 DEF IdsOf
<1>9. DistinctIds'
  <2>1. \A x \in waker.spawns : x.entry.id # e.id
    BY <1>6 DEF LInv, DistinctIds, Planned, IdsOf
  <2>2. \A x, y \in waker'.spawns : x.entry.id = y.entry.id => x = y
    BY <1>3, <2>1 DEF LInv, DistinctIds
  <2>3. Unique(waker'.todo)
    BY <1>3, <1>5, UniqueSubset
  <2>4. e.id \notin IdsOf(waker.kept)
    BY <1>6 DEF LInv, DistinctIds
  <2>5. /\ Unique(schedule)' /\ Unique(waker.kept)'
        /\ \A b \in Bridges : bridge'[b].pc = "write" => Unique(bridge'[b].updated)
    BY <1>2, <1>3 DEF LInv, DistinctIds
  <2>6. /\ IdsOf(waker'.todo) \cap IdsOf(waker'.kept) = {}
        /\ IdsOf(Planned') \cap (IdsOf(waker'.todo) \cup IdsOf(waker'.kept)) = {}
    <3>1. /\ IdsOf(waker.todo) \cap IdsOf(waker.kept) = {}
          /\ IdsOf(Planned) \cap (IdsOf(waker.todo) \cup IdsOf(waker.kept)) = {}
      BY DEF LInv, DistinctIds
    <3>2. IdsOf(waker'.kept) = IdsOf(waker.kept)
      BY <1>3
    <3> QED BY <1>6, <1>8, <2>4, <3>1, <3>2
  <2> QED BY <2>2, <2>3, <2>5, <2>6 DEF DistinctIds
<1>10. PassMemory'
  <2>1. Planned' \subseteq schedule
    BY <1>2, <1>5, <1>7 DEF LInv, PassMemory
  <2>2. \A x \in waker'.spawns : x.type = "resume" <=> x.entry.kind = "resume"
    BY <1>2, <1>3 DEF LInv, PassMemory
  <2> QED BY <1>2, <1>3, <2>1, <2>2 DEF LInv, PassMemory, Polling
<1>11. LaunchCount'
  BY <1>2, <1>3, <1>6, <1>8 DEF LInv, LaunchCount, Pending
<1>12. Accounted'
  <2> SUFFICES ASSUME waker'.writable, NEW d \in schedule,
                      d.id \notin IdsOf(waker'.todo) \cup IdsOf(waker'.kept)
               PROVE  Covered(d)'
    BY <1>2 DEF Accounted
  <2>1. CASE d = e
    <3>1. CASE new
      BY <1>2, <1>5, <1>8, <2>1, <3>1 DEF Covered, Alike
    <3>2. CASE ~new
      <4>1. PICK x \in waker.spawns : x.entry.prompt = e.prompt /\ x.type = s.type
        BY <1>4, <3>2
      <4>2. x.entry \in schedule /\ x.entry.id \in IdsOf(Planned)
        BY <1>2 DEF LInv, PassMemory, Planned, IdsOf
      <4>3. x.entry.kind = e.kind
        BY <1>2, <4>1 DEF LInv, PassMemory, Spawns, Entries
      <4> QED BY <1>2, <1>8, <2>1, <4>1, <4>2, <4>3 DEF Covered, Alike
    <3> QED BY <3>1, <3>2
  <2>2. CASE d # e
    <3>1. d.id # e.id
      BY <1>5, <2>2 DEF Unique
    <3>2. Covered(d)
      BY <1>2, <1>3, <1>6, <3>1 DEF LInv, Accounted
    <3> QED BY <1>2, <1>3, <1>8, <3>2 DEF Covered
  <2> QED BY <2>1, <2>2
<1> QED BY <1>9, <1>10, <1>11, <1>12 DEF LInv

\* A poll that is not met keeps its place, under its id.
LEMMA PlanRearmLInv ==
  ASSUME IInv, IInv', LInv, Plan, NEW e \in waker.todo, NEW w \in BOOLEAN,
         w => waker.writable, ~w /\ waker.writable => ~waker.bound,
         waker' = [waker EXCEPT !.todo = waker.todo \ {e},
                     !.kept = waker.kept \cup {Rearmed(e)}, !.writable = w]
  PROVE  LInv'
<1>1. /\ waker \in Wakers /\ waker.todo \in SUBSET Entries
      /\ e \in Entries /\ Polling /\ waker.pc = "plan"
      /\ UNCHANGED <<schedule, bridge, used, launched, crashes>>
  BY DEF Plan, IInv, TypeOK, Wakers, Polling
<1>2. /\ waker'.pc = "plan" /\ waker'.seen = waker.seen /\ waker'.bound = waker.bound
      /\ waker'.writable = w /\ waker'.spawns = waker.spawns
      /\ waker'.todo = waker.todo \ {e} /\ waker'.kept = waker.kept \cup {Rearmed(e)}
  BY <1>1 DEF Wakers
<1>3. Rearmed(e).id = e.id
  BY <1>1, RearmedTyped DEF IInv
<1>4. e \in schedule /\ Unique(schedule) /\ Unique(waker.todo) /\ Unique(waker.kept)
  BY <1>1 DEF LInv, PassMemory, DistinctIds
<1>5. IdsOf(waker'.todo) = IdsOf(waker.todo) \ {e.id} /\ e.id \in IdsOf(waker.todo)
  BY <1>2, <1>4 DEF Unique, IdsOf
<1>6. IdsOf(waker'.kept) = IdsOf(waker.kept) \cup {e.id}
  BY <1>2, <1>3 DEF IdsOf
<1>7. Planned' = Planned
  BY <1>2 DEF Planned
<1>8. DistinctIds'
  <2>1. Unique(waker'.todo)
    BY <1>2, <1>4, UniqueSubset
  <2>2. e.id \notin IdsOf(waker.kept) /\ e.id \notin IdsOf(Planned)
    BY <1>5 DEF LInv, DistinctIds
  <2>3. Unique(waker.kept \cup {Rearmed(e)})
    BY <1>3, <1>4, <2>2, UniqueAdd
  <2>4. /\ Unique(schedule)' /\ Unique(waker.todo)' /\ Unique(waker.kept)'
        /\ \A b \in Bridges : bridge'[b].pc = "write" => Unique(bridge'[b].updated)
        /\ \A s, r \in waker'.spawns : s.entry.id = r.entry.id => s = r
    BY <1>1, <1>2, <2>1, <2>3 DEF LInv, DistinctIds
  <2>5. /\ IdsOf(waker'.todo) \cap IdsOf(waker'.kept) = {}
        /\ IdsOf(Planned') \cap (IdsOf(waker'.todo) \cup IdsOf(waker'.kept)) = {}
    BY <1>5, <1>6, <1>7, <2>2, ZenonT(60) DEF LInv, DistinctIds
  <2> QED BY <2>4, <2>5 DEF DistinctIds
<1>9. PassMemory'
  BY <1>1, <1>2, <1>7 DEF LInv, PassMemory, Polling
<1>10. LaunchCount'
  BY <1>1, <1>2, <1>5, <1>6, <1>7 DEF LInv, LaunchCount, Pending
<1>11. Accounted'
  BY <1>1, <1>2, <1>5, <1>6, <1>7 DEF LInv, Accounted, Covered
<1> QED BY <1>8, <1>9, <1>10, <1>11 DEF LInv

LEMMA PlanLInv ==
  ASSUME IInv, IInv', LInv, Plan PROVE LInv'
<1>1. PICK e \in waker.todo : PlanResume(e) \/ PlanCheck(e)
  BY DEF Plan
<1>2. e \in Entries /\ waker.writable \in BOOLEAN /\ waker.bound \in BOOLEAN
  BY DEF IInv, TypeOK, Wakers
<1>3. \A t \in {"resume", "handoff"}, late \in BOOLEAN :
        /\ [type |-> t, late |-> late, entry |-> e] \in Spawns
        /\ [type |-> t, late |-> late, entry |-> e].entry = e
        /\ [type |-> t, late |-> late, entry |-> e].type = t
  BY <1>2 DEF Spawns
<1>4. CASE PlanResume(e)
  BY <1>3, <1>4, PlanSpawnLInv DEF PlanResume
<1>5. CASE PlanCheck(e)
  <2> DEFINE w == waker.writable /\ ~(actor /\ ~waker.bound)
  <2>1. w \in BOOLEAN /\ (w => waker.writable) /\ (~w /\ waker.writable => ~waker.bound)
    BY <1>2
  <2>2. e.kind = "check"
        /\ \/ PlanSpawn([type |-> "handoff", late |-> FALSE, entry |-> e])
           \/ PlanSpawn([type |-> "handoff", late |-> TRUE, entry |-> e])
           \/ waker' = [waker EXCEPT !.todo = waker.todo \ {e},
                          !.kept = waker.kept \cup {Rearmed(e)}, !.writable = w]
    BY <1>5 DEF PlanCheck
  <2> HIDE DEF w
  <2> QED BY <1>3, <2>1, <2>2, PlanSpawnLInv, PlanRearmLInv
<1> QED BY <1>1, <1>4, <1>5

\* Without a repository nothing is launched, nor written.
LEMMA PlanDoneLInv ==
  ASSUME IInv, IInv', LInv, PlanDone PROVE LInv'
<1> DEFINE spawns == IF waker.bound THEN waker.spawns ELSE {}
           w == waker.writable /\ (waker.bound \/ waker.spawns = {})
<1>1. /\ waker.pc = "plan" /\ waker.todo = {}
      /\ waker' = [waker EXCEPT !.pc = "launch", !.spawns = spawns, !.writable = w]
      /\ UNCHANGED <<schedule, bridge, used, launched, crashes>>
  BY DEF PlanDone, history
<1>2. waker \in Wakers /\ Polling
  BY <1>1 DEF IInv, TypeOK, Polling
<1>3. /\ waker'.pc = "launch" /\ waker'.seen = waker.seen /\ waker'.bound = waker.bound
      /\ waker'.writable = w /\ waker'.spawns = spawns
      /\ waker'.todo = waker.todo /\ waker'.kept = waker.kept
  BY <1>1, <1>2 DEF Wakers
<1>4. spawns \subseteq waker.spawns /\ (spawns # {} => waker.bound)
      /\ (w => spawns = waker.spawns /\ waker.writable)
  BY <1>2 DEF Wakers
<1>5. ~w => ~waker.bound
  BY <1>2 DEF LInv, PassMemory
<1> HIDE DEF spawns, w
<1>6. Planned' \subseteq Planned /\ (w => Planned' = Planned)
  BY <1>3, <1>4 DEF Planned
<1>7. IdsOf(Planned') \subseteq IdsOf(Planned)
  BY <1>6, IdsMonotone
<1>8. DistinctIds'
  BY <1>1, <1>3, <1>4, <1>7 DEF LInv, DistinctIds
<1>9. PassMemory'
  <2>1. \A s \in waker'.spawns : s.type = "resume" <=> s.entry.kind = "resume"
    BY <1>2, <1>3, <1>4 DEF LInv, PassMemory
  <2> QED BY <1>1, <1>2, <1>3, <1>4, <1>5, <1>6, <2>1 DEF LInv, PassMemory, Polling
<1>10. LaunchCount'
  BY <1>1, <1>3, <1>7 DEF LInv, LaunchCount, Pending
<1>11. Accounted'
  BY <1>1, <1>2, <1>3, <1>4, <1>6 DEF LInv, Accounted, Covered
<1> QED BY <1>8, <1>9, <1>10, <1>11 DEF LInv

LEMMA LaunchLInv ==
  ASSUME IInv, IInv', LInv, NEW s \in waker.spawns, Launch(s) PROVE LInv'
<1>1. /\ waker.pc = "launch" /\ waker' = [waker EXCEPT !.spawns = waker.spawns \ {s}]
      /\ launched' = [launched EXCEPT ![s.entry.id] = @ + 1]
      /\ UNCHANGED <<schedule, bridge, used, crashes>>
  BY DEF Launch
<1>2. waker \in Wakers /\ s \in Spawns /\ Polling /\ s.entry.id \in Ids
  BY <1>1 DEF IInv, TypeOK, Wakers, Polling, Spawns, Entries
<1>3. /\ waker'.pc = "launch" /\ waker'.seen = waker.seen /\ waker'.bound = waker.bound
      /\ waker'.writable = waker.writable /\ waker'.spawns = waker.spawns \ {s}
      /\ waker'.todo = waker.todo /\ waker'.kept = waker.kept
  BY <1>1, <1>2 DEF Wakers
<1>4. /\ launched'[s.entry.id] = launched[s.entry.id] + 1
      /\ \A i \in Ids : i # s.entry.id => launched'[i] = launched[i]
  BY <1>1, <1>2 DEF IInv, TypeOK
<1>5. s.entry.id \in IdsOf(Planned) /\ s.entry.id \in used /\ waker.bound
  BY <1>1, <1>2 DEF Planned, IdsOf, IInv, Control, PassHasScheduled, OnlyRegistered,
                    LInv, PassMemory
<1>6. /\ IdsOf(Planned') = IdsOf(Planned) \ {s.entry.id} /\ Planned' \subseteq Planned
      /\ \A b \in Bridges : bridge[b].pc # "write"
  <2>1. \A r \in waker.spawns : r.entry.id = s.entry.id => r = s
    BY DEF LInv, DistinctIds
  <2> QED BY <1>2, <1>3, <2>1, ScheduleAssumption
          DEF Planned, IdsOf, IInv, Control, WritersHoldTheLock
<1>7. DistinctIds'
  BY <1>1, <1>3, <1>6 DEF LInv, DistinctIds
<1>8. PassMemory'
  BY <1>1, <1>2, <1>3, <1>6 DEF LInv, PassMemory, Polling
<1>9. LaunchCount'
  <2>1. launched[s.entry.id] <= crashes
    BY <1>5 DEF LInv, LaunchCount, Pending
  <2>2. \A i \in Ids : launched'[i] <= 1 + crashes' /\ (i \notin used' => launched'[i] = 0)
    BY <1>1, <1>2, <1>4, <1>5, <2>1, Counting DEF LInv, LaunchCount
  <2>3. s.entry.id \notin Pending' /\ Pending' \subseteq Pending
    BY <1>3, <1>5, <1>6 DEF Pending, LInv, DistinctIds
  <2>4. Pending \subseteq Ids
    BY DEF Pending, IInv, Control, PassHasScheduled, OnlyRegistered, TypeOK
  <2> QED BY <1>1, <1>3, <1>4, <1>5, <1>6, <2>2, <2>3, <2>4 DEF LInv, LaunchCount
<1>10. Accounted'
  <2> SUFFICES ASSUME waker'.writable, NEW e \in schedule,
                      e.id \notin IdsOf(waker'.todo) \cup IdsOf(waker'.kept)
               PROVE  Covered(e)'
    BY <1>1 DEF Accounted
  <2>1. PICK f \in schedule : /\ Alike(e, f)
                              /\ \/ f.id \in IdsOf(waker.kept) \cup IdsOf(Planned)
                                 \/ launched[f.id] > 0
    BY <1>2, <1>3 DEF LInv, Accounted, Covered
  <2>2. f.id \in Ids
    BY DEF IInv, TypeOK, Entries
  <2>3. \/ f.id \in IdsOf(waker'.kept) \cup IdsOf(Planned')
        \/ launched'[f.id] > 0
    BY <1>2, <1>3, <1>4, <1>6, <2>1, <2>2, Counting
  <2> QED BY <1>1, <2>1, <2>3 DEF Covered, Alike
<1> QED BY <1>7, <1>8, <1>9, <1>10 DEF LInv

LEMMA LaunchFailsLInv ==
  ASSUME IInv, IInv', LInv, NEW s \in waker.spawns, LaunchFails(s) PROVE LInv'
<1>1. /\ waker.pc = "launch"
      /\ waker' = [waker EXCEPT !.spawns = waker.spawns \ {s},
                                !.kept = waker.kept \cup {s.entry}]
      /\ UNCHANGED <<schedule, bridge, used, launched, crashes>>
  BY DEF LaunchFails, history
<1>2. waker \in Wakers /\ Polling
  BY <1>1 DEF IInv, TypeOK, Polling
<1>3. /\ waker'.pc = "launch" /\ waker'.seen = waker.seen /\ waker'.bound = waker.bound
      /\ waker'.writable = waker.writable /\ waker'.spawns = waker.spawns \ {s}
      /\ waker'.todo = waker.todo /\ waker'.kept = waker.kept \cup {s.entry}
  BY <1>1, <1>2 DEF Wakers
<1>4. s.entry.id \in IdsOf(Planned)
  BY DEF Planned, IdsOf
<1>5. IdsOf(Planned') = IdsOf(Planned) \ {s.entry.id} /\ Planned' \subseteq Planned
  <2>1. \A r \in waker.spawns : r.entry.id = s.entry.id => r = s
    BY DEF LInv, DistinctIds
  <2> QED BY <1>3, <2>1 DEF Planned, IdsOf
<1>6. IdsOf(waker'.kept) = IdsOf(waker.kept) \cup {s.entry.id}
  BY <1>3 DEF IdsOf
<1>7. DistinctIds'
  <2>1. s.entry.id \notin IdsOf(waker.kept) /\ s.entry.id \notin IdsOf(waker.todo)
    BY <1>4 DEF LInv, DistinctIds
  <2>2. Unique(waker.kept \cup {s.entry})
    BY <2>1, UniqueAdd DEF LInv, DistinctIds
  <2> QED BY <1>1, <1>3, <1>5, <1>6, <2>1, <2>2 DEF LInv, DistinctIds
<1>8. PassMemory'
  BY <1>1, <1>2, <1>3, <1>5 DEF LInv, PassMemory, Polling
<1>9. LaunchCount'
  BY <1>1, <1>3, <1>4, <1>5, <1>6 DEF LInv, LaunchCount, Pending
<1>10. Accounted'
  BY <1>1, <1>2, <1>3, <1>5, <1>6 DEF LInv, Accounted, Covered
<1> QED BY <1>7, <1>8, <1>9, <1>10 DEF LInv

LEMMA PassWriteLInv ==
  ASSUME IInv, IInv', LInv, PassWrite PROVE LInv'
<1>1. /\ waker.pc = "launch" /\ waker.spawns = {} /\ waker' = Idle
      /\ schedule' = IF waker.writable /\ waker.kept # waker.seen
                       THEN waker.kept ELSE schedule
      /\ UNCHANGED <<bridge, used, launched, crashes>>
  BY DEF PassWrite, history
<1>2. Polling /\ ~Polling' /\ waker'.writable
  BY <1>1, IdleTyped DEF Polling, Idle
<1>3. \A b \in Bridges : bridge[b].pc # "write"
  BY <1>2, ScheduleAssumption DEF IInv, Control, WritersHoldTheLock
<1>4. Unique(schedule)'
  BY <1>1 DEF LInv, DistinctIds
<1>5. \A i \in IdsOf(schedule') : launched[i] <= crashes
  <2>1. CASE schedule' = waker.kept
    BY <2>1 DEF LInv, LaunchCount, Pending
  <2>2. CASE ~waker.writable
    BY <1>1, <1>2, <2>2 DEF LInv, LaunchCount, PassMemory
  <2> QED BY <1>1, <1>2, <2>1, <2>2 DEF LInv, PassMemory
<1> QED BY <1>1, <1>2, <1>3, <1>4, <1>5, Outside DEF LInv, LaunchCount

LEMMA NextLInv == IInv /\ LInv /\ [Next]_vars => LInv'
<1> SUFFICES ASSUME IInv, LInv, [Next]_vars PROVE LInv'
  OBVIOUS
<1>1. IInv'
  BY NextIInv
<1>2. CASE Tick \/ PassStart \/ WakerCrash \/ ContextChanges \/ UNCHANGED vars
  BY <1>1, <1>2, TickLInv, PassStartLInv, WakerCrashLInv, ContextLInv
<1>3. CASE Pass
  BY <1>1, <1>3, PassStartLInv, PassLockLInv, PlanLInv, PlanDoneLInv, LaunchLInv,
     LaunchFailsLInv, PassWriteLInv DEF Pass
<1>4. ASSUME NEW b \in Bridges, Register_or_prune(b) \/ BridgeWrite(b) \/ BridgeCrash(b)
      PROVE  LInv'
  BY <1>1, <1>4, RegisterLInv, VerifyPassedLInv, BridgeEndsLInv DEF Register_or_prune
<1>5. ASSUME NEW i \in Ids, NEW prompt \in Prompts, NEW delay \in 1 .. MaxWait,
             NEW deadline \in 1 .. MaxWait \cup {Never},
             RegisterCheck(i, prompt, delay, deadline)
      PROVE  LInv'
  BY <1>1, <1>5, RegisterCheckLInv
<1> QED BY <1>2, <1>3, <1>4, <1>5 DEF Next

LEMMA LaunchInvariant == Spec => [](IInv /\ LInv)
  BY InitIInv, NextIInv, InitLInv, NextLInv, PTL DEF Spec

\* A wake launches a session once, and once more at most for every process that
\* was killed: a pass that finished has taken out of the schedule what it
\* launched, and nothing that loaded the schedule before puts it back.
THEOREM LaunchesOnce == Spec => []LaunchesOncePerCrash
<1>1. LInv => LaunchesOncePerCrash
  BY DEF LInv, LaunchCount, LaunchesOncePerCrash
<1> QED BY <1>1, LaunchInvariant, PTL

\* A pass takes out of the schedule only what it launched, or an equal of what
\* it launched or keeps: a registration that came while it polled, or a launch
\* that failed, is still there.
THEOREM PrunesOnlyLaunched == Spec => OnlyLaunchedWakesArePruned
<1> DEFINE Step == waker.pc = "launch" /\ waker'.pc = "idle" =>
       \A e \in schedule : e.id \in IdsOf(schedule') \/
         \E f \in schedule : /\ f.kind = e.kind /\ f.prompt = e.prompt
                             /\ (launched[f.id] > 0 \/ f.id \in IdsOf(schedule'))
<1>1. ASSUME IInv, LInv, PassWrite PROVE Step
  <2>1. CASE schedule' = schedule
    BY <2>1 DEF IdsOf
  <2>2. CASE schedule' # schedule
    <3>1. /\ schedule' = waker.kept /\ waker.writable /\ waker.spawns = {}
          /\ Polling /\ waker.pc = "launch"
      BY <1>1, <2>2 DEF PassWrite, Polling
    <3>2. waker.todo = {} /\ Planned = {}
      BY <1>1, <3>1 DEF LInv, PassMemory, Planned
    <3> QED BY <1>1, <3>1, <3>2, IdsEmpty DEF LInv, Accounted, Covered, Alike
  <2> QED BY <2>1, <2>2
<1>2. ASSUME WakerCrash PROVE Step
  BY <1>2 DEF WakerCrash, IdsOf
<1>3. ASSUME IInv, waker.pc = "launch", waker'.pc = "idle", [Next]_vars
      PROVE  PassWrite \/ WakerCrash
  <2>1. waker \in Wakers
    BY <1>3 DEF IInv, TypeOK
  <2>2. waker' # waker
    BY <1>3
  <2>3. ~Tick /\ ~Plan /\ ~PlanDone
    BY <1>3, <2>1 DEF Tick, Plan, PlanDone, Wakers
  <2>4. \A s \in waker.spawns : ~Launch(s) /\ ~LaunchFails(s)
    BY <1>3, <2>1 DEF Launch, LaunchFails, Wakers
  <2>5. ~PassStart /\ ~PassSkip /\ ~PassLock /\ ~ContextChanges /\ ~UNCHANGED vars
    BY <1>3, <2>2 DEF PassStart, PassSkip, PassLock, ContextChanges, vars
  <2>6. ASSUME NEW b \in Bridges
        PROVE  ~(Register_or_prune(b) \/ BridgeWrite(b) \/ BridgeCrash(b))
    BY <2>2 DEF Register_or_prune, Register, VerifyPassed, BridgeWrite, BridgeCrash
  <2>7. ASSUME NEW i \in Ids, NEW prompt \in Prompts, NEW delay \in 1 .. MaxWait,
               NEW deadline \in 1 .. MaxWait \cup {Never}
        PROVE  ~RegisterCheck(i, prompt, delay, deadline)
    BY <2>2 DEF RegisterCheck
  <2> QED BY <1>3, <2>3, <2>4, <2>5, <2>6, <2>7 DEF Next, Pass
<1>4. IInv /\ LInv /\ [Next]_vars => [Step]_vars
  BY <1>1, <1>2, <1>3
<1> QED BY <1>4, LaunchInvariant, PTL DEF Spec, OnlyLaunchedWakesArePruned
=============================================================================
