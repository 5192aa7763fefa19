------------------------- MODULE ScheduleQuarantine -------------------------
(***************************************************************************)
(* continuation-supervisor-state.py migrate, called by the installer of    *)
(* the supervisor: before the job is loaded for the first time, schedules  *)
(* with a due or malformed entry are moved out of the tree, under a        *)
(* manifest that a later run completes when this one died.                 *)
(*                                                                         *)
(* The installer's lock keeps other installers away (PluginCutover), but   *)
(* hooks of live sessions and detached wakers write schedules meanwhile:   *)
(* migrate does not take the lock of a schedule.  A schedule is a number,  *)
(* the how many-th content the file of its thread has, which stands for    *)
(* its bytes and their digest; 0 means that there is no file.              *)
(* Threads are the directories directly below the root of threads: migrate *)
(* does not look at those of agents below them.                            *)
(***************************************************************************)
EXTENDS Naturals, FiniteSets

CONSTANTS
  Threads,
  Transactions,   \* names of quarantine directories; bounds their number
  MaxWrites,      \* bound: contents of a schedule
  MaxFaults,      \* bound: failed steps and kills
  MaxUninstalls   \* bound

ASSUME QuarantineAssumption ==
  /\ MaxWrites \in Nat /\ MaxFaults \in Nat /\ MaxUninstalls \in Nat
  /\ IsFiniteSet(Threads) /\ IsFiniteSet(Transactions)

VARIABLES
  sched,        \* per thread: scheduled.json
  written,      \* per thread: contents it has had
  ripe,         \* contents that have a due entry, or a malformed one
  quarantine,   \* per name: the directory
  marker,       \* the install marker
  inst,         \* the install in progress
  faults, uninstalls

vars == <<sched, written, ripe, quarantine, marker, inst, faults, uninstalls>>

-----------------------------------------------------------------------------
Contents == 0 .. MaxWrites
Nothing == [t \in Threads |-> 0]

\* "preparing": made, but without a manifest yet.
Directories ==
  [ state : {"absent", "preparing", "prepared", "complete"},
    entries : [Threads -> Contents], archive : [Threads -> Contents] ]
Absent == [state |-> "absent", entries |-> Nothing, archive |-> Nothing]

Places == {"idle", "start", "recover", "record", "move", "scan", "prepare", "manifest", "done"}

Installs ==
  [ pc : Places, first : BOOLEAN, todo : SUBSET Transactions,
    x : SUBSET Transactions,             \* the transaction it is completing
    left : SUBSET Threads,               \* its records, or the threads to read
    t : SUBSET Threads,                  \* the record whose file it will move
    now : SUBSET (Threads \X Contents),  \* what is due at its clock
    data : [Threads -> Contents] ]       \* the hazards it read
Idle ==
  [ pc |-> "idle", first |-> FALSE, todo |-> {}, x |-> {}, left |-> {}, t |-> {},
    now |-> {}, data |-> Nothing ]

TypeOK ==
  /\ sched \in [Threads -> Contents] /\ written \in [Threads -> Contents]
  /\ ripe \subseteq Threads \X Contents
  /\ quarantine \in [Transactions -> Directories]
  /\ marker \in BOOLEAN
  /\ inst \in Installs
  /\ faults \in 0 .. MaxFaults /\ uninstalls \in 0 .. MaxUninstalls

Init ==
  /\ written \in [Threads -> Contents \cap {0, 1}] /\ sched = written
  /\ ripe \in SUBSET {<<t, sched[t]>> : t \in {u \in Threads : sched[u] # 0}}
  /\ quarantine = [x \in Transactions |-> Absent]
  /\ marker = FALSE /\ inst = Idle /\ faults = 0 /\ uninstalls = 0

-----------------------------------------------------------------------------
(* The sessions and the clock.                                             *)

\* A registering hook, verify's prune or a detached waker replaces the file.
Rewrite(t) ==
  /\ written[t] < MaxWrites
  /\ written' = [written EXCEPT ![t] = @ + 1]
  /\ sched' = [sched EXCEPT ![t] = written[t] + 1]
  /\ UNCHANGED <<ripe, quarantine, marker, inst, faults, uninstalls>>

Elapse(t) ==
  /\ sched[t] # 0 /\ <<t, sched[t]>> \notin ripe
  /\ ripe' = ripe \cup {<<t, sched[t]>>}
  /\ UNCHANGED <<sched, written, quarantine, marker, inst, faults, uninstalls>>

-----------------------------------------------------------------------------
(* migrate and _recover.                                                   *)

files == <<sched, written, ripe, quarantine>>
rest == <<sched, written, ripe, marker, faults, uninstalls>>

Begin ==
  /\ inst.pc = "idle"
  /\ inst' = [Idle EXCEPT !.pc = "start", !.first = ~marker]
  /\ UNCHANGED <<files, marker, faults, uninstalls>>

\* Every directory is recovered, in the order of their random names, those of
\* earlier installs included.
List ==
  /\ inst.pc = "start"
  /\ inst' = [inst EXCEPT !.pc = "recover",
       !.todo = {x \in Transactions : quarantine[x].state # "absent"}]
  /\ UNCHANGED <<files, marker, faults, uninstalls>>

\* Fault: a transaction without a complete manifest counts as a preparation.
RemovePreparation_Greedy ==
  /\ inst.pc = "recover"
  /\ \E x \in inst.todo :
       /\ quarantine[x].state \in {"preparing", "prepared"}
       /\ quarantine' = [quarantine EXCEPT ![x] = Absent]
       /\ inst' = [inst EXCEPT !.todo = @ \ {x}]
  /\ UNCHANGED rest

\* Fault: a directory without a manifest is an error.
RemovePreparation_Refuses ==
  /\ inst.pc = "recover"
  /\ \E x \in inst.todo : quarantine[x].state = "preparing"
  /\ inst' = Idle
  /\ UNCHANGED <<files, marker, faults, uninstalls>>

RemovePreparation ==
  /\ inst.pc = "recover"
  /\ \E x \in inst.todo :
       /\ quarantine[x].state = "preparing"
       /\ quarantine' = [quarantine EXCEPT ![x] = Absent]
       /\ inst' = [inst EXCEPT !.todo = @ \ {x}]
  /\ UNCHANGED rest

Recorded(x) == {t \in Threads : quarantine[x].entries[t] # 0}

Recover ==
  /\ inst.pc = "recover"
  /\ \E x \in inst.todo :
       /\ quarantine[x].state \in {"prepared", "complete"}
       /\ inst' = [inst EXCEPT !.pc = "record", !.todo = @ \ {x}, !.x = {x},
                               !.left = Recorded(x)]
  /\ UNCHANGED <<files, marker, faults, uninstalls>>

\* The four refusals for one record: ambiguous, lost, and a digest that differs
\* at the source or in the archive.
Ambiguous(x, t) == sched[t] # 0 /\ quarantine[x].archive[t] # 0
Lost(x, t) == sched[t] = 0 /\ quarantine[x].archive[t] = 0
Differs(x, t) ==
  LET current == IF quarantine[x].archive[t] # 0 THEN quarantine[x].archive[t] ELSE sched[t]
  IN  current # quarantine[x].entries[t]
Conflict(x, t) == Ambiguous(x, t) \/ Lost(x, t) \/ Differs(x, t)

CheckRecord ==
  /\ inst.pc = "record"
  /\ \E x \in inst.x, t \in inst.left :
       /\ ~Conflict(x, t)
       /\ inst' = IF quarantine[x].archive[t] # 0
                    THEN [inst EXCEPT !.left = @ \ {t}]
                    ELSE [inst EXCEPT !.pc = "move", !.t = {t}]
  /\ UNCHANGED <<files, marker, faults, uninstalls>>

Refuse ==
  /\ inst.pc = "record"
  /\ \E x \in inst.x, t \in inst.left : Conflict(x, t)
  /\ inst' = Idle
  /\ UNCHANGED <<files, marker, faults, uninstalls>>

\* Fault: the schedule is copied to the archive, not moved.
Move_Copies ==
  /\ inst.pc = "move"
  /\ \E x \in inst.x, t \in inst.t :
       /\ sched[t] # 0
       /\ quarantine' = [quarantine EXCEPT ![x].archive[t] = sched[t]]
       /\ inst' = [inst EXCEPT !.pc = "record", !.left = @ \ {t}, !.t = {}]
  /\ UNCHANGED <<sched, written, ripe, marker, faults, uninstalls>>

\* os.replace moves whatever the file holds by now.
Move ==
  /\ inst.pc = "move"
  /\ \E x \in inst.x, t \in inst.t :
       /\ sched[t] # 0
       /\ quarantine' = [quarantine EXCEPT ![x].archive[t] = sched[t]]
       /\ sched' = [sched EXCEPT ![t] = 0]
       /\ inst' = [inst EXCEPT !.pc = "record", !.left = @ \ {t}, !.t = {}]
  /\ UNCHANGED <<written, ripe, marker, faults, uninstalls>>

\* The manifest is written again for a transaction that was complete, too.
Complete ==
  /\ inst.pc = "record" /\ inst.left = {}
  /\ \E x \in inst.x :
       quarantine' = [quarantine EXCEPT ![x].state = "complete"]
  /\ inst' = [inst EXCEPT !.pc = IF inst.data = Nothing THEN "recover" ELSE "done", !.x = {}]
  /\ UNCHANGED rest

\* Only a first install looks for hazards.
Recovered ==
  /\ inst.pc = "recover" /\ inst.todo = {}
  /\ inst' = IF inst.first THEN [inst EXCEPT !.pc = "scan", !.left = Threads, !.now = ripe]
             ELSE [inst EXCEPT !.pc = "done"]
  /\ UNCHANGED <<files, marker, faults, uninstalls>>

Read ==
  /\ inst.pc = "scan"
  /\ \E t \in inst.left :
       inst' = [inst EXCEPT !.left = @ \ {t},
         !.data[t] = IF <<t, sched[t]>> \in inst.now THEN sched[t] ELSE 0]
  /\ UNCHANGED <<files, marker, faults, uninstalls>>

Scanned ==
  /\ inst.pc = "scan" /\ inst.left = {}
  /\ inst' = [inst EXCEPT !.pc = IF inst.data = Nothing THEN "done" ELSE "prepare"]
  /\ UNCHANGED <<files, marker, faults, uninstalls>>

MakeDirectory ==
  /\ inst.pc = "prepare"
  /\ \E x \in Transactions :
       /\ quarantine[x].state = "absent"
       /\ quarantine' = [quarantine EXCEPT ![x] = [Absent EXCEPT !.state = "preparing"]]
       /\ inst' = [inst EXCEPT !.pc = "manifest", !.x = {x}]
  /\ UNCHANGED rest

\* Fault: the records to move are the contents, not the files that hold them.
WriteManifest_Contents ==
  /\ inst.pc = "manifest"
  /\ \E x \in inst.x :
       /\ quarantine' = [quarantine EXCEPT ![x] =
            [state |-> "prepared", entries |-> inst.data, archive |-> Nothing]]
       /\ inst' = [inst EXCEPT !.pc = "record",
            !.left = {<<t, inst.data[t]>> : t \in {u \in Threads : inst.data[u] # 0}}]
  /\ UNCHANGED rest

\* Fault: the move is left to the recovery of the next install.
WriteManifest_Only ==
  /\ inst.pc = "manifest"
  /\ \E x \in inst.x :
       /\ quarantine' = [quarantine EXCEPT ![x] =
            [state |-> "prepared", entries |-> inst.data, archive |-> Nothing]]
       /\ inst' = [inst EXCEPT !.pc = "done"]
  /\ UNCHANGED rest

WriteManifest ==
  /\ inst.pc = "manifest"
  /\ \E x \in inst.x :
       /\ quarantine' = [quarantine EXCEPT ![x] =
            [state |-> "prepared", entries |-> inst.data, archive |-> Nothing]]
       /\ inst' = [inst EXCEPT !.pc = "record",
            !.left = {t \in Threads : inst.data[t] # 0}]
  /\ UNCHANGED rest

\* The installer goes on: the job is loaded, the marker written.
Finish ==
  /\ inst.pc = "done"
  /\ marker' = TRUE /\ inst' = Idle
  /\ UNCHANGED <<files, faults, uninstalls>>

-----------------------------------------------------------------------------
Dies ==
  /\ inst.pc # "idle" /\ faults < MaxFaults
  /\ faults' = faults + 1 /\ inst' = Idle
  /\ UNCHANGED <<files, marker, uninstalls>>

Uninstall ==
  /\ inst.pc = "idle" /\ marker /\ uninstalls < MaxUninstalls
  /\ uninstalls' = uninstalls + 1 /\ marker' = FALSE
  /\ UNCHANGED <<files, inst, faults>>

Migrating ==
  \/ List \/ RemovePreparation \/ Recover \/ CheckRecord \/ Move \/ Complete
  \/ Recovered \/ Read \/ Scanned \/ MakeDirectory \/ WriteManifest \/ Finish

Install == Begin \/ Migrating \/ Refuse

Next ==
  \/ Install \/ Dies \/ Uninstall
  \/ \E t \in Threads : Rewrite(t) \/ Elapse(t)

Spec == Init /\ [][Next]_vars

\* Plugin updates run the installer again and again, and it runs to its end.
LiveSpec == Spec /\ WF_vars(Install)

-----------------------------------------------------------------------------
(* Properties.                                                             *)

\* The contents that are in the tree or in an archive.
Held ==
  {c \in Threads \X (Contents \ {0}) :
     sched[c[1]] = c[2] \/ \E x \in Transactions : quarantine[x].archive[c[1]] = c[2]}

\* No content of a schedule disappears, whenever the installer dies: what is not
\* in the tree any more is in an archive, and stays there.  Only the sessions
\* themselves replace a content by another.
NothingIsDestroyed ==
  [][\A c \in Held : c \in Held' \/ (sched[c[1]] = c[2] /\ sched'[c[1]] > c[2])]_vars

\* When an install has come so far that it loads the job, nothing that was due at
\* its clock is left in the tree, and no content that a manifest lists, of this
\* or of an earlier run, has stayed behind or come back.
NoHazardIsLoaded ==
  inst.pc = "done" =>
    /\ inst.first => \A t \in Threads : <<t, sched[t]>> \notin inst.now
    /\ \A x \in Transactions : \A t \in Recorded(x) : sched[t] # quarantine[x].entries[t]

\* A kill never makes a later install refuse: it takes a session that wrote the
\* schedule of a thread after a manifest listed it.
RefusedWithCause ==
  [][Refuse => \E x \in inst.x : \E t \in inst.left :
       written[t] > quarantine[x].entries[t]]_vars

\* While no session writes such a schedule, repeating the install succeeds.
Unspoilt == \A x \in Transactions : \A t \in Recorded(x) : written[t] = quarantine[x].entries[t]
InstallConverges == []Unspoilt => <>[]marker
=============================================================================
