---------------------- MODULE ScheduleQuarantine_proofs ----------------------
(***************************************************************************)
(* Proofs about ScheduleQuarantine, for any threads, any transactions and  *)
(* any number of writes, failures and uninstallations: its types, that a   *)
(* job is never loaded over a due schedule, that no content is destroyed,  *)
(* and that an install refuses only what a session caused.                 *)
(***************************************************************************)
EXTENDS ScheduleQuarantine, TLAPS

-----------------------------------------------------------------------------
(* The inductive invariant.                                                *)

Entry(x, t) == quarantine[x].entries[t]
Archive(x, t) == quarantine[x].archive[t]

\* The file of a thread holds its last content or is gone; whatever is kept of
\* it elsewhere is not newer.
Contents_known ==
  /\ \A t \in Threads : sched[t] = 0 \/ sched[t] = written[t]
  /\ \A t \in Threads : inst.data[t] <= written[t]
  /\ \A c \in ripe \cup inst.now : c[2] # 0 /\ c[2] <= written[c[1]]
  /\ \A x \in Transactions, t \in Threads :
       Entry(x, t) <= written[t] /\ Archive(x, t) <= written[t]

\* A directory without a manifest holds nothing.
Preparations_empty ==
  \A x \in Transactions : quarantine[x].state \in {"absent", "preparing"} =>
     \A t \in Threads : Entry(x, t) = 0 /\ Archive(x, t) = 0

\* What is in an archive is what was listed or newer, and a file that exists
\* beside it is newer still.
Archives_older ==
  \A x \in Transactions, t \in Threads : Archive(x, t) # 0 =>
     /\ Entry(x, t) <= Archive(x, t)
     /\ sched[t] # 0 => Archive(x, t) < written[t]

\* A listed content that is not in the archive is in the tree, or a session has
\* replaced it; and two manifests never wait for the same file.
Pending_present ==
  /\ \A x \in Transactions : \A t \in Recorded(x) :
       Archive(x, t) = 0 => sched[t] = Entry(x, t) \/ Entry(x, t) < written[t]
  /\ \A x, y \in Transactions : \A t \in Recorded(x) \cap Recorded(y) :
       x # y => Archive(x, t) # 0 \/ Archive(y, t) # 0

Settled(x, t) == Archive(x, t) # 0 /\ sched[t] # Entry(x, t)

\* What the install knows at its place: the transactions it is not going to
\* visit are settled, and of the one it visits the records it has left behind.
Recovering == {"recover", "record", "move", "scan", "prepare", "manifest", "done"}
Moving == {"record", "move"}

Visited ==
  inst.pc \in Recovering =>
    \A x \in Transactions \ inst.todo : \A t \in Recorded(x) :
       Settled(x, t) \/ (inst.pc \in Moving /\ x \in inst.x /\ t \in inst.left)

Place ==
  /\ inst.pc \in {"scan", "prepare", "manifest", "done"} => inst.todo = {}
  /\ inst.pc \in {"recover", "start"} => inst.data = Nothing
  /\ inst.pc \in {"prepare", "manifest"} => inst.data # Nothing
  /\ inst.pc \in {"record", "move", "manifest"} => \E x \in Transactions : inst.x = {x}
  /\ inst.pc \in Moving => \A x \in inst.x :
       /\ x \notin inst.todo
       /\ quarantine[x].state \in {"prepared", "complete"}
       /\ inst.left \subseteq Recorded(x)
       /\ inst.data # Nothing => inst.todo = {} /\ quarantine[x].entries = inst.data
  /\ inst.pc = "manifest" => \A x \in inst.x : quarantine[x].state = "preparing"
  /\ inst.pc = "move" =>
       /\ \E t \in inst.left : inst.t = {t}
       /\ \A x \in inst.x, t \in inst.t : Archive(x, t) = 0

\* What is due in the tree has been read; what was read is still there, or a
\* session has replaced it.
Read_data ==
  LET reading == inst.pc \in {"scan", "prepare", "manifest"}
                 \/ (inst.pc \in Moving /\ inst.data # Nothing)
      unread  == IF inst.pc = "scan" THEN inst.left ELSE {}
  IN  /\ reading => \A t \in Threads \ unread :
           <<t, sched[t]>> \in inst.now => inst.data[t] = sched[t]
      /\ inst.pc \in {"scan", "prepare", "manifest"} => \A t \in Threads :
           inst.data[t] # 0 => inst.data[t] = sched[t] \/ inst.data[t] < written[t]
      /\ inst.pc = "done" /\ inst.first =>
           \A t \in Threads : <<t, sched[t]>> \notin inst.now

\* None of the properties is inductive: what is loaded at the end depends on what
\* every step before has checked, of this install and of those that died.
FilesInv == Preparations_empty /\ Archives_older /\ Pending_present
IInv ==
  /\ TypeOK /\ Contents_known /\ Preparations_empty /\ Archives_older
  /\ Pending_present /\ Visited /\ Place /\ Read_data

-----------------------------------------------------------------------------
(* Types.                                                                  *)

LEMMA NothingTyped ==
  /\ Nothing \in [Threads -> Contents]
  /\ \A t \in Threads : Nothing[t] = 0
  /\ Idle \in Installs /\ Idle.pc = "idle" /\ Idle.now = {} /\ Idle.data = Nothing
  /\ Absent \in Directories
  /\ Absent.state = "absent" /\ Absent.entries = Nothing /\ Absent.archive = Nothing
<1>1. Nothing \in [Threads -> Contents] /\ \A t \in Threads : Nothing[t] = 0
  BY QuarantineAssumption DEF Nothing, Contents
<1> QED
  BY <1>1 DEF Idle, Installs, Places, Absent, Directories

LEMMA TypeInit == Init => TypeOK
<1> SUFFICES ASSUME Init PROVE TypeOK
  OBVIOUS
<1>1. written \in [Threads -> Contents] /\ sched \in [Threads -> Contents]
  BY QuarantineAssumption DEF Init, Contents
<1>2. ripe \subseteq Threads \X Contents
  BY <1>1 DEF Init
<1>3. 0 \in 0 .. MaxFaults /\ 0 \in 0 .. MaxUninstalls
  BY QuarantineAssumption
<1> QED
  BY <1>1, <1>2, <1>3, NothingTyped DEF Init, TypeOK

LEMMA TypeStep ==
  ASSUME TypeOK, [Next]_vars
  PROVE  TypeOK'
<1>1. ASSUME NEW t \in Threads, Rewrite(t) PROVE TypeOK'
  BY <1>1, QuarantineAssumption DEF TypeOK, Rewrite, Contents
<1>2. ASSUME NEW t \in Threads, Elapse(t) PROVE TypeOK'
  BY <1>2 DEF TypeOK, Elapse
<1>3. CASE Begin
  BY <1>3, NothingTyped DEF TypeOK, Begin, Installs, Places, files
<1>4. CASE List
  BY <1>4 DEF TypeOK, List, Installs, Places, files
<1>5. CASE RemovePreparation
  BY <1>5, NothingTyped DEF TypeOK, RemovePreparation, Installs, rest
<1>6. CASE Recover
  <2>1. PICK x \in inst.todo :
           inst' = [inst EXCEPT !.pc = "record", !.todo = @ \ {x}, !.x = {x},
                                !.left = Recorded(x)]
    BY <1>6 DEF Recover
  <2>2. inst \in Installs /\ x \in Transactions /\ Recorded(x) \subseteq Threads
        /\ "record" \in Places
    BY <2>1 DEF TypeOK, Installs, Recorded, Places
  <2>3. inst' \in Installs
    BY <2>1, <2>2 DEF Installs
  <2> QED
    BY <1>6, <2>3 DEF Recover, TypeOK, files
<1>7. CASE CheckRecord
  <2>1. PICK t \in inst.left :
           \/ inst' = [inst EXCEPT !.left = @ \ {t}]
           \/ inst' = [inst EXCEPT !.pc = "move", !.t = {t}]
    BY <1>7 DEF CheckRecord
  <2>2. inst \in Installs /\ t \in Threads /\ "move" \in Places
    BY <2>1 DEF TypeOK, Installs, Places
  <2>3. [inst EXCEPT !.left = @ \ {t}] \in Installs
    BY <2>2 DEF Installs
  <2>4. [inst EXCEPT !.pc = "move", !.t = {t}] \in Installs
    BY <2>2 DEF Installs
  <2>5. inst' \in Installs
    BY <2>1, <2>3, <2>4
  <2> QED
    BY <1>7, <2>5 DEF CheckRecord, TypeOK, files
<1>8. CASE Move
  <2>1. PICK x \in inst.x, t \in inst.t :
             /\ sched[t] # 0
             /\ quarantine' = [quarantine EXCEPT ![x].archive[t] = sched[t]]
             /\ sched' = [sched EXCEPT ![t] = 0]
             /\ inst' = [inst EXCEPT !.pc = "record", !.left = @ \ {t}, !.t = {}]
    BY <1>8 DEF Move
  <2>2. x \in Transactions /\ t \in Threads
    BY <2>1 DEF TypeOK, Installs
  <2>3. sched' \in [Threads -> Contents]
    BY <2>1, <2>2, QuarantineAssumption DEF TypeOK, Contents
  <2>4. quarantine' \in [Transactions -> Directories]
    BY <2>1, <2>2 DEF TypeOK, Directories
  <2>5. inst' \in Installs
    BY <2>1 DEF TypeOK, Installs, Places
  <2> QED
    BY <1>8, <2>3, <2>4, <2>5 DEF Move, TypeOK
<1>9. CASE Complete
  <2>1. quarantine' \in [Transactions -> Directories]
    BY <1>9, ZenonT(60) DEF TypeOK, Complete, Directories
  <2>2. inst' \in Installs
    BY <1>9 DEF TypeOK, Complete, Installs, Places
  <2> QED
    BY <1>9, <2>1, <2>2 DEF Complete, TypeOK, rest
<1>10. CASE Recovered
  BY <1>10 DEF TypeOK, Recovered, Installs, Places, files
<1>11. CASE Read
  <2>1. PICK t \in inst.left :
           inst' = [inst EXCEPT !.left = @ \ {t},
                      !.data[t] = IF <<t, sched[t]>> \in inst.now THEN sched[t] ELSE 0]
    BY <1>11 DEF Read
  <2>2. inst \in Installs /\ t \in Threads /\ sched[t] \in Contents /\ 0 \in Contents
    BY <2>1, QuarantineAssumption DEF TypeOK, Installs, Contents
  <2>3. inst' \in Installs
    BY <2>1, <2>2 DEF Installs
  <2> QED
    BY <1>11, <2>3 DEF Read, TypeOK, files
<1>12. CASE Scanned
  BY <1>12 DEF TypeOK, Scanned, Installs, Places, files
<1>13. CASE MakeDirectory
  <2>1. PICK x \in Transactions :
           /\ quarantine' = [quarantine EXCEPT ![x] = [Absent EXCEPT !.state = "preparing"]]
           /\ inst' = [inst EXCEPT !.pc = "manifest", !.x = {x}]
    BY <1>13 DEF MakeDirectory
  <2>2. [Absent EXCEPT !.state = "preparing"] \in Directories
    BY NothingTyped DEF Directories
  <2>3. quarantine' \in [Transactions -> Directories]
    BY <2>1, <2>2 DEF TypeOK
  <2>4. inst' \in Installs
    BY <2>1 DEF TypeOK, Installs, Places
  <2> QED
    BY <1>13, <2>3, <2>4 DEF MakeDirectory, TypeOK, rest
<1>14. CASE WriteManifest
  <2>1. PICK x \in inst.x :
           /\ quarantine' = [quarantine EXCEPT ![x] =
                [state |-> "prepared", entries |-> inst.data, archive |-> Nothing]]
           /\ inst' = [inst EXCEPT !.pc = "record", !.left = {t \in Threads : inst.data[t] # 0}]
    BY <1>14 DEF WriteManifest
  <2>2. [state |-> "prepared", entries |-> inst.data, archive |-> Nothing] \in Directories
    BY NothingTyped DEF Directories, TypeOK, Installs
  <2>3. quarantine' \in [Transactions -> Directories]
    BY <2>1, <2>2 DEF TypeOK
  <2>4. inst' \in Installs
    BY <2>1 DEF TypeOK, Installs, Places
  <2> QED
    BY <1>14, <2>3, <2>4 DEF WriteManifest, TypeOK, rest
<1>15. CASE Finish
  BY <1>15, NothingTyped DEF TypeOK, Finish, files
<1>16. CASE Refuse
  BY <1>16, NothingTyped DEF TypeOK, Refuse, files
<1>17. CASE Dies
  BY <1>17, NothingTyped, QuarantineAssumption DEF TypeOK, Dies, files
<1>18. CASE Uninstall
  <2>1. uninstalls' \in 0 .. MaxUninstalls
    BY <1>18, QuarantineAssumption DEF TypeOK, Uninstall
  <2> QED
    BY <1>18, <2>1 DEF TypeOK, Uninstall, files
<1>19. CASE UNCHANGED vars
  BY <1>19 DEF TypeOK, vars
<1> QED
  BY <1>1, <1>2, <1>3, <1>4, <1>5, <1>6, <1>7, <1>8, <1>9, <1>10, <1>11, <1>12, <1>13,
     <1>14, <1>15, <1>16, <1>17, <1>18, <1>19 DEF Next, Install, Migrating

-----------------------------------------------------------------------------
(* Steps that touch no file.                                               *)

LEMMA FilesKept ==
  ASSUME FilesInv, files' = files
  PROVE  FilesInv'
BY DEF FilesInv, Preparations_empty, Archives_older, Pending_present, Entry, Archive,
       Recorded, files

LEMMA ContentsKept ==
  ASSUME Contents_known, files' = files, inst'.data = inst.data,
         inst'.now = inst.now \/ inst'.now = ripe
  PROVE  Contents_known'
BY DEF Contents_known, Entry, Archive, files

\* Finishing, refusing and dying forget what the install knows.
LEMMA ToIdle ==
  ASSUME IInv, files' = files, inst' = Idle, TypeOK'
  PROVE  IInv'
<1>1. FilesInv'
  BY FilesKept DEF IInv, FilesInv
<1>2. Contents_known'
  <2>1. \A t \in Threads : 0 <= written[t]
    BY QuarantineAssumption DEF IInv, TypeOK, Contents
  <2> QED
    BY <2>1, NothingTyped DEF IInv, Contents_known, Entry, Archive, files
<1>3. Visited' /\ Place' /\ Read_data'
  BY NothingTyped DEF Visited, Place, Read_data, Recovering, Moving
<1> QED
  BY <1>1, <1>2, <1>3 DEF IInv, FilesInv

LEMMA IInvInit == Init => IInv
<1> SUFFICES ASSUME Init PROVE IInv
  OBVIOUS
<1>1. TypeOK
  BY TypeInit
<1>2. /\ sched = written /\ inst = Idle
      /\ \A x \in Transactions : quarantine[x] = Absent
  BY DEF Init
<1>3. \A x \in Transactions, t \in Threads : Entry(x, t) = 0 /\ Archive(x, t) = 0
  BY <1>2, NothingTyped DEF Entry, Archive
<1>4. \A t \in Threads : written[t] \in Nat
  BY <1>1, QuarantineAssumption DEF TypeOK, Contents
<1>5. Contents_known
  <2>1. \A c \in ripe : c[2] # 0 /\ c[2] <= written[c[1]]
    BY <1>2, <1>4 DEF Init
  <2> QED
    BY <1>2, <1>3, <1>4, <2>1, NothingTyped DEF Contents_known
<1>6. FilesInv
  BY <1>3 DEF FilesInv, Preparations_empty, Archives_older, Pending_present, Recorded, Entry
<1>7. Visited /\ Place /\ Read_data
  BY <1>2, NothingTyped DEF Visited, Place, Read_data, Recovering, Moving
<1> QED
  BY <1>1, <1>5, <1>6, <1>7 DEF IInv, FilesInv

-----------------------------------------------------------------------------
(* The sessions and the clock.                                             *)

LEMMA Rewrites ==
  ASSUME IInv, TypeOK', NEW t \in Threads, Rewrite(t)
  PROVE  IInv'
<1>1. /\ written'[t] = written[t] + 1 /\ sched'[t] = written[t] + 1
      /\ \A u \in Threads : u # t => written'[u] = written[u] /\ sched'[u] = sched[u]
      /\ quarantine' = quarantine /\ inst' = inst /\ ripe' = ripe
  BY DEF Rewrite, IInv, TypeOK
<1>2. \A u \in Threads : /\ written[u] \in Nat /\ sched[u] \in Nat /\ inst.data[u] \in Nat
                         /\ written'[u] \in Nat /\ written[u] <= written'[u]
                         /\ written[u] < written'[u] \/ sched'[u] = sched[u]
  BY <1>1, QuarantineAssumption DEF IInv, TypeOK, Contents, Installs
<1>3. \A x \in Transactions, u \in Threads : Entry(x, u) \in Nat /\ Archive(x, u) \in Nat
  BY QuarantineAssumption DEF IInv, TypeOK, Contents, Directories, Entry, Archive
<1>4. \A x \in Transactions : /\ Recorded(x)' = Recorded(x)
                              /\ \A u \in Threads : Entry(x, u)' = Entry(x, u)
                                                    /\ Archive(x, u)' = Archive(x, u)
  BY <1>1 DEF Recorded, Entry, Archive
<1>5. ripe \cup inst.now \subseteq Threads \X Nat
  BY QuarantineAssumption DEF IInv, TypeOK, Contents, Installs
<1>6. Contents_known'
  BY <1>1, <1>2, <1>3, <1>4, <1>5 DEF IInv, Contents_known
<1>7. Preparations_empty'
  BY <1>1, <1>4 DEF IInv, Preparations_empty
<1>8. Archives_older'
  BY <1>1, <1>2, <1>3, <1>4 DEF IInv, Archives_older, Contents_known
<1>9. Pending_present'
  BY <1>1, <1>2, <1>3, <1>4 DEF IInv, Pending_present, Contents_known, Recorded
<1>10. \A x \in Transactions, u \in Threads : Settled(x, u) => Settled(x, u)'
  BY <1>1, <1>2, <1>3, <1>4 DEF IInv, Settled, Contents_known
<1>11. Visited'
  BY <1>1, <1>4, <1>10 DEF IInv, Visited, Recorded
<1>12. Place'
  <2>1. inst.x \subseteq Transactions /\ inst.t \subseteq Threads
    BY DEF IInv, TypeOK, Installs
  <2> QED
    BY <1>1, <1>4, <2>1 DEF IInv, Place, Moving
<1>13. \A u \in Threads : <<u, sched'[u]>> \in inst.now => sched'[u] = sched[u]
  BY <1>1, <1>2, <1>5 DEF IInv, Contents_known
<1>14. Read_data'
  BY <1>1, <1>2, <1>13 DEF IInv, Read_data, Contents_known
<1> QED
  BY <1>6, <1>7, <1>8, <1>9, <1>11, <1>12, <1>14 DEF IInv

LEMMA Elapses ==
  ASSUME IInv, TypeOK', NEW t \in Threads, Elapse(t)
  PROVE  IInv'
<1>1. /\ sched' = sched /\ written' = written /\ quarantine' = quarantine /\ inst' = inst
      /\ ripe' = ripe \cup {<<t, sched[t]>>} /\ sched[t] # 0
  BY DEF Elapse
<1>2. written[t] \in Nat /\ sched[t] <= written[t]
  BY <1>1, QuarantineAssumption DEF IInv, TypeOK, Contents, Contents_known
<1>3. Contents_known'
  BY <1>1, <1>2 DEF IInv, Contents_known, Entry, Archive
<1>4. Preparations_empty' /\ Archives_older' /\ Pending_present'
  BY <1>1 DEF IInv, Preparations_empty, Archives_older, Pending_present, Entry, Archive,
              Recorded
<1>5. Visited' /\ Place' /\ Read_data'
  BY <1>1 DEF IInv, Visited, Place, Read_data, Recorded, Settled, Entry, Archive
<1> QED
  BY <1>3, <1>4, <1>5 DEF IInv

-----------------------------------------------------------------------------
(* The steps of an install that touch no file.                             *)

LEMMA Begins ==
  ASSUME IInv, TypeOK', Begin
  PROVE  IInv'
<1>1. /\ files' = files /\ inst'.pc = "start"
      /\ inst'.data = Nothing /\ inst'.now = {}
  BY NothingTyped DEF Begin, Installs
<1>2. FilesInv'
  BY <1>1, FilesKept DEF IInv, FilesInv
<1>3. Contents_known'
  <2>1. \A t \in Threads : 0 <= written[t]
    BY QuarantineAssumption DEF IInv, TypeOK, Contents
  <2> QED
    BY <1>1, <2>1, NothingTyped DEF IInv, Contents_known, Entry, Archive, files
<1>4. Visited' /\ Place' /\ Read_data'
  BY <1>1 DEF Visited, Place, Read_data, Recovering, Moving
<1> QED
  BY <1>2, <1>3, <1>4 DEF IInv, FilesInv

LEMMA Lists ==
  ASSUME IInv, TypeOK', List
  PROVE  IInv'
<1>1. /\ files' = files /\ inst.pc = "start" /\ inst'.pc = "recover"
      /\ inst'.todo = {x \in Transactions : quarantine[x].state # "absent"}
      /\ inst'.data = inst.data /\ inst'.now = inst.now
  BY DEF List, IInv, TypeOK, Installs
<1>2. FilesInv' /\ Contents_known'
  BY <1>1, FilesKept, ContentsKept DEF IInv, FilesInv
<1>3. \A x \in Transactions \ inst'.todo : Recorded(x)' = {}
  BY <1>1 DEF IInv, Preparations_empty, Recorded, Entry, files
<1>4. Visited'
  BY <1>3 DEF Visited
<1>5. Place' /\ Read_data'
  BY <1>1 DEF IInv, Place, Read_data, Recovering, Moving
<1> QED
  BY <1>2, <1>4, <1>5 DEF IInv, FilesInv

LEMMA Recovers ==
  ASSUME IInv, TypeOK', Recover
  PROVE  IInv'
<1>1. PICK x \in inst.todo :
        /\ quarantine[x].state \in {"prepared", "complete"}
        /\ inst' = [inst EXCEPT !.pc = "record", !.todo = @ \ {x}, !.x = {x},
                                !.left = Recorded(x)]
  BY DEF Recover
<1>2. /\ files' = files /\ inst.pc = "recover" /\ inst'.pc = "record"
      /\ inst'.todo = inst.todo \ {x} /\ inst'.x = {x} /\ inst'.left = Recorded(x)
      /\ inst'.data = inst.data /\ inst'.now = inst.now /\ x \in Transactions
  BY <1>1 DEF Recover, IInv, TypeOK, Installs
<1>3. FilesInv' /\ Contents_known'
  BY <1>2, FilesKept, ContentsKept DEF IInv, FilesInv
<1>4. \A y \in Transactions : Recorded(y)' = Recorded(y)
                              /\ \A t \in Threads : Settled(y, t)' <=> Settled(y, t)
  BY <1>2 DEF Recorded, Settled, Entry, Archive, files
<1>5. Visited'
  BY <1>2, <1>4 DEF IInv, Visited, Recovering, Moving, Recorded
<1>6. inst.data = Nothing
  BY <1>2 DEF IInv, Place
<1>7. Place'
  BY <1>1, <1>2, <1>4, <1>6 DEF Place, Moving, files
<1>8. Read_data'
  BY <1>2, <1>6 DEF Read_data, Moving
<1> QED
  BY <1>3, <1>5, <1>7, <1>8 DEF IInv, FilesInv

LEMMA ChecksRecord ==
  ASSUME IInv, TypeOK', CheckRecord
  PROVE  IInv'
<1>1. PICK x \in inst.x, t \in inst.left :
        /\ ~Conflict(x, t)
        /\ inst' = IF quarantine[x].archive[t] # 0
                     THEN [inst EXCEPT !.left = @ \ {t}]
                     ELSE [inst EXCEPT !.pc = "move", !.t = {t}]
  BY DEF CheckRecord
<1>2. /\ files' = files /\ inst.pc = "record" /\ inst \in Installs
      /\ inst'.todo = inst.todo /\ inst'.x = inst.x
      /\ inst'.data = inst.data /\ inst'.now = inst.now
      /\ x \in Transactions /\ t \in Threads
  BY <1>1 DEF CheckRecord, IInv, TypeOK, Installs
<1>3. FilesInv' /\ Contents_known'
  BY <1>2, FilesKept, ContentsKept DEF IInv, FilesInv
<1>4. \A y \in Transactions :
        /\ Recorded(y)' = Recorded(y) /\ quarantine'[y] = quarantine[y]
        /\ \A u \in Threads : /\ Settled(y, u)' <=> Settled(y, u)
                              /\ Archive(y, u)' = Archive(y, u)
  BY <1>2 DEF Recorded, Settled, Entry, Archive, files
<1>5. inst.x = {x} /\ inst.left \subseteq Recorded(x) /\ x \notin inst.todo
      /\ quarantine[x].state \in {"prepared", "complete"}
      /\ (inst.data # Nothing => inst.todo = {} /\ quarantine[x].entries = inst.data)
  BY <1>1, <1>2 DEF IInv, Place, Moving
<1>6. CASE quarantine[x].archive[t] # 0
  <2>1. inst'.pc = "record" /\ inst'.left = inst.left \ {t}
    BY <1>1, <1>2, <1>6 DEF Installs
  <2>2. Settled(x, t)
    BY <1>1, <1>5, <1>6 DEF Conflict, Ambiguous, Recorded, Settled, Entry, Archive
  <2>3. Visited'
    BY <1>2, <1>4, <1>5, <2>1, <2>2 DEF IInv, Visited, Recovering, Moving, Recorded
  <2>4. Place'
    BY <1>2, <1>4, <1>5, <2>1 DEF Place, Moving
  <2>5. Read_data'
    BY <1>2, <2>1 DEF IInv, Read_data, Moving, files
  <2> QED
    BY <1>3, <2>3, <2>4, <2>5 DEF IInv, FilesInv
<1>7. CASE quarantine[x].archive[t] = 0
  <2>1. inst'.pc = "move" /\ inst'.left = inst.left /\ inst'.t = {t}
    BY <1>1, <1>2, <1>7 DEF Installs
  <2>2. Visited'
    BY <1>2, <1>4, <1>5, <2>1 DEF IInv, Visited, Recovering, Moving, Recorded
  <2>3. Archive(x, t)' = 0
    BY <1>2, <1>4, <1>7 DEF Archive
  <2>4. Place'
    BY <1>1, <1>2, <1>4, <1>5, <2>1, <2>3 DEF Place, Moving
  <2>5. Read_data'
    BY <1>2, <2>1 DEF IInv, Read_data, Moving, files
  <2> QED
    BY <1>3, <2>2, <2>4, <2>5 DEF IInv, FilesInv
<1> QED
  BY <1>6, <1>7

LEMMA RecoveryEnds ==
  ASSUME IInv, TypeOK', Recovered
  PROVE  IInv'
<1>1. /\ files' = files /\ inst.pc = "recover" /\ inst.todo = {} /\ inst'.todo = {}
      /\ inst'.data = inst.data /\ inst'.first = inst.first
      /\ \/ inst'.pc = "scan" /\ inst'.left = Threads /\ inst'.now = ripe
         \/ inst'.pc = "done" /\ inst'.now = inst.now /\ ~inst'.first
  BY DEF Recovered, IInv, TypeOK, Installs
<1>2. FilesInv' /\ Contents_known'
  BY <1>1, FilesKept, ContentsKept DEF IInv, FilesInv
<1>3. Visited'
  BY <1>1 DEF IInv, Visited, Recovering, Moving, Recorded, Settled, Entry, Archive, files
<1>4. inst'.data = Nothing
  BY <1>1 DEF IInv, Place
<1>5. Place' /\ Read_data'
  BY <1>1, <1>4, NothingTyped DEF Place, Read_data, Moving
<1> QED
  BY <1>2, <1>3, <1>5 DEF IInv, FilesInv

LEMMA Reads ==
  ASSUME IInv, TypeOK', Read
  PROVE  IInv'
<1>1. PICK t \in inst.left :
        inst' = [inst EXCEPT !.left = @ \ {t},
                   !.data[t] = IF <<t, sched[t]>> \in inst.now THEN sched[t] ELSE 0]
  BY DEF Read
<1>2. /\ files' = files /\ inst.pc = "scan" /\ inst'.pc = "scan" /\ inst'.todo = inst.todo
      /\ inst'.left = inst.left \ {t} /\ inst'.now = inst.now /\ t \in Threads
      /\ sched' = sched /\ written' = written /\ inst.left \subseteq Threads
  BY <1>1 DEF Read, IInv, TypeOK, Installs, files
<1>3. /\ inst'.data[t] = IF <<t, sched[t]>> \in inst.now THEN sched[t] ELSE 0
      /\ \A u \in Threads : u # t => inst'.data[u] = inst.data[u]
  BY <1>1, <1>2 DEF IInv, TypeOK, Installs
<1>4. FilesInv'
  BY <1>2, FilesKept DEF IInv, FilesInv
<1>5. \A u \in Threads : written[u] \in Nat /\ sched[u] \in Nat
  BY QuarantineAssumption DEF IInv, TypeOK, Contents
<1>6. Contents_known'
  <2>1. \A u \in Threads : inst'.data[u] <= written'[u]
    BY <1>2, <1>3, <1>5 DEF IInv, Contents_known
  <2> QED
    BY <1>2, <2>1 DEF IInv, Contents_known, Entry, Archive, files
<1>7. Visited'
  BY <1>2 DEF IInv, Visited, Recovering, Moving, Recorded, Settled, Entry, Archive, files
<1>8. Place'
  BY <1>2 DEF IInv, Place, Moving
<1>9. Read_data'
  BY <1>2, <1>3, <1>5 DEF IInv, Read_data, Contents_known, Moving
<1> QED
  BY <1>4, <1>6, <1>7, <1>8, <1>9 DEF IInv, FilesInv

LEMMA Scans ==
  ASSUME IInv, TypeOK', Scanned
  PROVE  IInv'
<1>1. /\ files' = files /\ inst.pc = "scan" /\ inst.left = {} /\ inst'.todo = inst.todo
      /\ inst'.data = inst.data /\ inst'.now = inst.now /\ inst'.first = inst.first
      /\ inst'.pc = IF inst.data = Nothing THEN "done" ELSE "prepare"
  BY DEF Scanned, IInv, TypeOK, Installs
<1>2. FilesInv' /\ Contents_known'
  BY <1>1, FilesKept, ContentsKept DEF IInv, FilesInv
<1>3. Visited'
  BY <1>1 DEF IInv, Visited, Recovering, Moving, Recorded, Settled, Entry, Archive, files
<1>4. Place'
  BY <1>1 DEF IInv, Place, Moving
<1>5. inst.data = Nothing => \A t \in Threads : <<t, sched[t]>> \notin inst.now
  BY <1>1, NothingTyped DEF IInv, Read_data, Contents_known
<1>6. Read_data'
  BY <1>1, <1>5 DEF IInv, Read_data, Moving, files
<1> QED
  BY <1>2, <1>3, <1>4, <1>6 DEF IInv, FilesInv

-----------------------------------------------------------------------------
(* The steps of an install that change the quarantine.                     *)

LEMMA RemovesPreparation ==
  ASSUME IInv, TypeOK', RemovePreparation
  PROVE  IInv'
<1>1. PICK x \in inst.todo :
        /\ quarantine[x].state = "preparing"
        /\ quarantine' = [quarantine EXCEPT ![x] = Absent]
        /\ inst' = [inst EXCEPT !.todo = @ \ {x}]
  BY DEF RemovePreparation
<1>2. /\ inst.pc = "recover" /\ inst'.pc = "recover" /\ inst'.todo = inst.todo \ {x}
      /\ inst'.data = inst.data /\ inst'.now = inst.now /\ x \in Transactions
      /\ sched' = sched /\ written' = written /\ ripe' = ripe
  BY <1>1 DEF RemovePreparation, rest, IInv, TypeOK, Installs
<1>3. \A y \in Transactions, t \in Threads :
        Entry(y, t)' = Entry(y, t) /\ Archive(y, t)' = Archive(y, t)
  <2>1. \A t \in Threads : Entry(x, t) = 0 /\ Archive(x, t) = 0
    BY <1>1, <1>2 DEF IInv, Preparations_empty
  <2>2. quarantine'[x] = Absent /\ \A y \in Transactions : y # x => quarantine'[y] = quarantine[y]
    BY <1>1, <1>2 DEF IInv, TypeOK
  <2> QED
    BY <2>1, <2>2, <1>2, NothingTyped DEF Entry, Archive
<1>4. \A y \in Transactions : quarantine'[y].state \in {"absent", "preparing"} =>
        quarantine[y].state \in {"absent", "preparing"}
  BY <1>1, <1>2 DEF IInv, TypeOK
<1>5. \A y \in Transactions : Recorded(y)' = Recorded(y)
  BY <1>3 DEF Recorded, Entry
<1>6. Contents_known'
  BY <1>2, <1>3 DEF IInv, Contents_known
<1>7. Preparations_empty'
  BY <1>3, <1>4 DEF IInv, Preparations_empty
<1>8. Archives_older'
  BY <1>2, <1>3 DEF IInv, Archives_older
<1>9. Pending_present'
  BY <1>2, <1>3, <1>5 DEF IInv, Pending_present, Recorded
<1>10. Visited'
  <2>1. Recorded(x) = {}
    BY <1>1, <1>2 DEF IInv, Preparations_empty, Recorded, Entry
  <2> QED
    BY <1>2, <1>3, <1>5, <2>1 DEF IInv, Visited, Recovering, Moving, Settled, Recorded
<1>11. Place' /\ Read_data'
  BY <1>2 DEF IInv, Place, Read_data, Moving
<1> QED
  BY <1>6, <1>7, <1>8, <1>9, <1>10, <1>11 DEF IInv

LEMMA Moves ==
  ASSUME IInv, TypeOK', Move
  PROVE  IInv'
<1>1. PICK x \in inst.x, t \in inst.t :
        /\ sched[t] # 0
        /\ quarantine' = [quarantine EXCEPT ![x].archive[t] = sched[t]]
        /\ sched' = [sched EXCEPT ![t] = 0]
        /\ inst' = [inst EXCEPT !.pc = "record", !.left = @ \ {t}, !.t = {}]
  BY DEF Move
<1>2. /\ inst.pc = "move" /\ inst'.pc = "record" /\ inst'.todo = inst.todo
      /\ inst'.x = inst.x /\ inst'.left = inst.left \ {t}
      /\ inst'.data = inst.data /\ inst'.now = inst.now
      /\ x \in Transactions /\ t \in Threads
      /\ written' = written /\ ripe' = ripe
  BY <1>1 DEF Move, IInv, TypeOK, Installs
<1>3. /\ inst.x = {x} /\ inst.t = {t} /\ t \in inst.left /\ inst.left \subseteq Recorded(x)
      /\ x \notin inst.todo /\ Archive(x, t) = 0
      /\ quarantine[x].state \in {"prepared", "complete"}
      /\ inst.data # Nothing => inst.todo = {} /\ quarantine[x].entries = inst.data
  BY <1>1, <1>2 DEF IInv, Place, Moving
<1>4. sched'[t] = 0 /\ \A u \in Threads : u # t => sched'[u] = sched[u]
  BY <1>1, <1>2 DEF IInv, TypeOK
<1>5. \A y \in Transactions :
        /\ quarantine'[y].state = quarantine[y].state
        /\ quarantine'[y].entries = quarantine[y].entries
        /\ \A u \in Threads : Archive(y, u)' = IF y = x /\ u = t THEN sched[t] ELSE Archive(y, u)
  BY <1>1, <1>2 DEF IInv, TypeOK, Directories, Archive
<1>6. \A y \in Transactions : Recorded(y)' = Recorded(y)
                              /\ \A u \in Threads : Entry(y, u)' = Entry(y, u)
  BY <1>5 DEF Recorded, Entry
<1>7. sched[t] = written[t] /\ written[t] \in Nat /\ sched[t] # 0
      /\ Entry(x, t) <= written[t] /\ Entry(x, t) # 0
  BY <1>1, <1>2, <1>3, QuarantineAssumption
     DEF IInv, Contents_known, TypeOK, Contents, Recorded, Entry
<1>8. Contents_known'
  <2>1. \A u \in Threads : sched'[u] = 0 \/ sched'[u] = written[u]
    BY <1>4 DEF IInv, Contents_known
  <2>2. \A y \in Transactions, u \in Threads :
          Entry(y, u)' <= written[u] /\ Archive(y, u)' <= written[u]
    BY <1>5, <1>6, <1>7 DEF IInv, Contents_known
  <2> QED
    BY <1>2, <2>1, <2>2 DEF IInv, Contents_known
<1>9. Preparations_empty'
  BY <1>3, <1>5, <1>6 DEF IInv, Preparations_empty
<1>10. Archives_older'
  BY <1>2, <1>4, <1>5, <1>6, <1>7 DEF IInv, Archives_older
<1>11. Pending_present'
  <2>1. \A y \in Transactions : \A u \in Recorded(y) :
          Archive(y, u)' = 0 => sched'[u] = Entry(y, u) \/ Entry(y, u) < written[u]
    <3> SUFFICES ASSUME NEW y \in Transactions, NEW u \in Recorded(y), Archive(y, u)' = 0
                 PROVE  sched'[u] = Entry(y, u) \/ Entry(y, u) < written[u]
      OBVIOUS
    <3>1. u \in Threads /\ ~(y = x /\ u = t) /\ Archive(y, u) = 0
      BY <1>5, <1>7 DEF Recorded
    <3>2. u # t
      BY <3>1, <1>2, <1>3 DEF IInv, Pending_present
    <3> QED
      BY <3>1, <3>2, <1>4 DEF IInv, Pending_present
  <2>2. \A y \in Transactions, u \in Threads : Archive(y, u) # 0 => Archive(y, u)' # 0
    BY <1>5, <1>7
  <2> QED
    BY <1>2, <1>6, <2>1, <2>2 DEF IInv, Pending_present, Recorded
<1>12. Visited'
  <2>1. \A y \in Transactions : \A u \in Recorded(y) : Settled(y, u) => Settled(y, u)'
    BY <1>4, <1>5, <1>6, <1>7 DEF Settled, Recorded, Entry
  <2>2. Settled(x, t)'
    BY <1>2, <1>4, <1>5, <1>6, <1>7 DEF Settled
  <2> QED
    BY <1>2, <1>3, <1>6, <2>1, <2>2 DEF IInv, Visited, Recovering, Moving, Recorded
<1>13. Place'
  BY <1>2, <1>3, <1>5, <1>6 DEF Place, Moving
<1>14. Read_data'
  <2>1. <<t, 0>> \notin inst.now
    BY <1>2 DEF IInv, Contents_known
  <2> QED
    BY <1>2, <1>4, <2>1 DEF IInv, Read_data, Moving
<1> QED
  BY <1>8, <1>9, <1>10, <1>11, <1>12, <1>13, <1>14 DEF IInv

LEMMA Completes ==
  ASSUME IInv, TypeOK', Complete
  PROVE  IInv'
<1>1. PICK x \in inst.x : quarantine' = [quarantine EXCEPT ![x].state = "complete"]
  BY DEF Complete
<1>2. /\ inst.pc = "record" /\ inst.left = {} /\ inst'.todo = inst.todo /\ inst'.x = {}
      /\ inst'.pc = IF inst.data = Nothing THEN "recover" ELSE "done"
      /\ inst'.data = inst.data /\ inst'.now = inst.now /\ inst'.first = inst.first
      /\ sched' = sched /\ written' = written /\ ripe' = ripe /\ x \in Transactions
  BY <1>1 DEF Complete, rest, IInv, TypeOK, Installs
<1>3. /\ inst.x = {x}
      /\ inst.data # Nothing => inst.todo = {} /\ quarantine[x].entries = inst.data
      /\ x \notin inst.todo
      /\ quarantine[x].state \in {"prepared", "complete"}
  BY <1>1, <1>2 DEF IInv, Place, Moving
<1>4. \A y \in Transactions :
        /\ quarantine'[y].state \in {"absent", "preparing"} =>
             quarantine[y].state \in {"absent", "preparing"}
        /\ Recorded(y)' = Recorded(y)
        /\ \A u \in Threads : Entry(y, u)' = Entry(y, u) /\ Archive(y, u)' = Archive(y, u)
  BY <1>1, <1>2 DEF IInv, TypeOK, Directories, Recorded, Entry, Archive
<1>5. Contents_known'
  BY <1>2, <1>4 DEF IInv, Contents_known
<1>6. Preparations_empty' /\ Archives_older'
  BY <1>2, <1>4 DEF IInv, Preparations_empty, Archives_older
<1>7. Pending_present'
  BY <1>2, <1>4 DEF IInv, Pending_present, Recorded
<1>8. Visited'
  BY <1>2, <1>4 DEF IInv, Visited, Recovering, Moving, Settled, Recorded
<1>9. Place'
  BY <1>2, <1>3 DEF Place, Moving
<1>10. inst.data # Nothing => \A t \in Threads : <<t, sched[t]>> \notin inst.now
  <2> SUFFICES ASSUME inst.data # Nothing, NEW t \in Threads, <<t, sched[t]>> \in inst.now
               PROVE  FALSE
    OBVIOUS
  <2>1. inst.data[t] = sched[t] /\ sched[t] # 0
    BY <1>2 DEF IInv, Read_data, Contents_known, Moving
  <2>2. Entry(x, t) = sched[t] /\ t \in Recorded(x)
    BY <1>3, <2>1 DEF Entry, Recorded
  <2>3. Settled(x, t)
    BY <1>2, <1>3, <2>2 DEF IInv, Visited, Recovering, Moving
  <2> QED
    BY <2>2, <2>3 DEF Settled
<1>11. Read_data'
  BY <1>2, <1>10 DEF Read_data, Moving
<1> QED
  BY <1>5, <1>6, <1>7, <1>8, <1>9, <1>11 DEF IInv

LEMMA MakesDirectory ==
  ASSUME IInv, TypeOK', MakeDirectory
  PROVE  IInv'
<1>1. PICK x \in Transactions :
        /\ quarantine[x].state = "absent"
        /\ quarantine' = [quarantine EXCEPT ![x] = [Absent EXCEPT !.state = "preparing"]]
        /\ inst' = [inst EXCEPT !.pc = "manifest", !.x = {x}]
  BY DEF MakeDirectory
<1>2. /\ inst.pc = "prepare" /\ inst'.pc = "manifest" /\ inst'.todo = inst.todo /\ inst'.x = {x}
      /\ inst'.data = inst.data /\ inst'.now = inst.now
      /\ sched' = sched /\ written' = written /\ ripe' = ripe
  BY <1>1 DEF MakeDirectory, rest, IInv, TypeOK, Installs
<1>3. /\ quarantine'[x].state = "preparing"
      /\ quarantine'[x].entries = Nothing /\ quarantine'[x].archive = Nothing
      /\ \A y \in Transactions : y # x => quarantine'[y] = quarantine[y]
  BY <1>1, NothingTyped DEF IInv, TypeOK, Directories
<1>4. \A y \in Transactions, t \in Threads :
        Entry(y, t)' = Entry(y, t) /\ Archive(y, t)' = Archive(y, t)
  <2>1. \A t \in Threads : Entry(x, t) = 0 /\ Archive(x, t) = 0
    BY <1>1 DEF IInv, Preparations_empty
  <2> QED
    BY <2>1, <1>3, NothingTyped DEF Entry, Archive
<1>5. \A y \in Transactions : Recorded(y)' = Recorded(y)
  BY <1>4 DEF Recorded, Entry
<1>6. Contents_known'
  BY <1>2, <1>4 DEF IInv, Contents_known
<1>7. Preparations_empty' /\ Archives_older'
  BY <1>1, <1>2, <1>3, <1>4 DEF IInv, Preparations_empty, Archives_older
<1>8. Pending_present'
  BY <1>2, <1>4, <1>5 DEF IInv, Pending_present, Recorded
<1>9. Visited'
  BY <1>2, <1>4, <1>5 DEF IInv, Visited, Recovering, Moving, Settled, Recorded
<1>10. Place'
  BY <1>2, <1>3 DEF IInv, Place, Moving
<1>11. Read_data'
  BY <1>2 DEF IInv, Read_data, Moving
<1> QED
  BY <1>6, <1>7, <1>8, <1>9, <1>10, <1>11 DEF IInv

LEMMA WritesManifest ==
  ASSUME IInv, TypeOK', WriteManifest
  PROVE  IInv'
<1>1. PICK x \in inst.x :
        /\ quarantine' = [quarantine EXCEPT ![x] =
             [state |-> "prepared", entries |-> inst.data, archive |-> Nothing]]
        /\ inst' = [inst EXCEPT !.pc = "record", !.left = {t \in Threads : inst.data[t] # 0}]
  BY DEF WriteManifest
<1>2. /\ inst.pc = "manifest" /\ inst'.pc = "record" /\ inst'.todo = inst.todo
      /\ inst'.x = inst.x /\ inst'.left = {t \in Threads : inst.data[t] # 0}
      /\ inst'.data = inst.data /\ inst'.now = inst.now /\ x \in Transactions
      /\ sched' = sched /\ written' = written /\ ripe' = ripe
  BY <1>1 DEF WriteManifest, rest, IInv, TypeOK, Installs
<1>3. inst.x = {x} /\ inst.todo = {} /\ quarantine[x].state = "preparing"
  BY <1>1, <1>2 DEF IInv, Place
<1>4. /\ quarantine'[x].state = "prepared" /\ quarantine'[x].entries = inst.data
      /\ quarantine'[x].archive = Nothing
      /\ \A y \in Transactions : y # x => quarantine'[y] = quarantine[y]
  BY <1>1, <1>2 DEF IInv, TypeOK
<1>5. \A t \in Threads : Entry(x, t)' = inst.data[t] /\ Archive(x, t)' = 0
                         /\ Archive(x, t) = 0
  BY <1>2, <1>3, <1>4, NothingTyped DEF IInv, Preparations_empty, Entry, Archive
<1>6. \A y \in Transactions : y # x =>
        /\ Recorded(y)' = Recorded(y)
        /\ \A t \in Threads : Entry(y, t)' = Entry(y, t) /\ Archive(y, t)' = Archive(y, t)
        /\ \A t \in Recorded(y) : Settled(y, t)
  BY <1>2, <1>3, <1>4 DEF IInv, Recorded, Entry, Archive, Visited, Recovering, Moving
<1>7. Recorded(x)' = inst'.left
  BY <1>2, <1>5 DEF Recorded, Entry
<1>8. \A t \in Threads : written[t] \in Nat
  BY QuarantineAssumption DEF IInv, TypeOK, Contents
<1>9. Contents_known'
  BY <1>2, <1>5, <1>6, <1>8 DEF IInv, Contents_known
<1>10. Preparations_empty'
  BY <1>4, <1>6 DEF IInv, Preparations_empty
<1>11. Archives_older'
  BY <1>2, <1>5, <1>6 DEF IInv, Archives_older
<1>12. Pending_present'
  <2>1. \A t \in Recorded(x)' : sched[t] = inst.data[t] \/ inst.data[t] < written[t]
    BY <1>2, <1>7 DEF IInv, Read_data
  <2>2. \A y \in Transactions : y # x => \A t \in Recorded(y)' : Archive(y, t)' # 0
    BY <1>6 DEF Settled, Recorded
  <2>3. \A y \in Transactions : Recorded(y)' \subseteq Threads
    BY DEF Recorded
  <2> QED
    BY <1>2, <1>5, <2>1, <2>2, <2>3 DEF Pending_present
<1>13. Visited'
  BY <1>2, <1>6, <1>7 DEF Visited, Recovering, Moving, Settled, Recorded
<1>14. Place'
  BY <1>2, <1>3, <1>4, <1>7 DEF Place, Moving
<1>15. Read_data'
  BY <1>2 DEF IInv, Read_data, Moving
<1> QED
  BY <1>9, <1>10, <1>11, <1>12, <1>13, <1>14, <1>15 DEF IInv

-----------------------------------------------------------------------------
(* Theorems.                                                               *)

LEMMA IInvStep == IInv /\ [Next]_vars => IInv'
<1> SUFFICES ASSUME IInv, [Next]_vars PROVE IInv'
  OBVIOUS
<1>1. TypeOK'
  BY TypeStep DEF IInv
<1>2. ASSUME NEW t \in Threads, Rewrite(t) \/ Elapse(t) PROVE IInv'
  BY <1>1, <1>2, Rewrites, Elapses
<1>3. CASE Begin \/ List \/ Recover \/ CheckRecord \/ Recovered \/ Read \/ Scanned
  BY <1>1, <1>3, Begins, Lists, Recovers, ChecksRecord, RecoveryEnds, Reads, Scans
<1>4. CASE RemovePreparation \/ Move \/ Complete \/ MakeDirectory \/ WriteManifest
  BY <1>1, <1>4, RemovesPreparation, Moves, Completes, MakesDirectory, WritesManifest
<1>5. CASE Finish \/ Refuse \/ Dies
  <2>1. files' = files /\ inst' = Idle
    BY <1>5 DEF Finish, Refuse, Dies
  <2> QED
    BY <1>1, <2>1, ToIdle
<1>6. CASE Uninstall \/ UNCHANGED vars
  <2>1. files' = files /\ inst' = inst
    BY <1>6 DEF Uninstall, vars, files
  <2>2. FilesInv' /\ Contents_known'
    BY <2>1, FilesKept, ContentsKept DEF IInv, FilesInv
  <2>3. Visited' /\ Place' /\ Read_data'
    BY <2>1 DEF IInv, Visited, Place, Read_data, Recorded, Settled, Entry, Archive, files
  <2> QED
    BY <1>1, <2>2, <2>3 DEF IInv, FilesInv
<1> QED
  BY <1>2, <1>3, <1>4, <1>5, <1>6 DEF Next, Install, Migrating

LEMMA Invariant == Spec => []IInv
BY IInvInit, IInvStep, PTL DEF Spec

\* The types of the files, of the quarantine and of the install.
THEOREM TypeCorrect == Spec => []TypeOK
<1>1. IInv => TypeOK
  BY DEF IInv
<1> QED
  BY <1>1, Invariant, PTL

\* When an install loads the job, nothing that was due at its clock is in the
\* tree, and nothing that a manifest lists has stayed behind or come back.
THEOREM HazardsAreGone == Spec => []NoHazardIsLoaded
<1>1. IInv => NoHazardIsLoaded
  <2> SUFFICES ASSUME IInv, inst.pc = "done"
               PROVE  /\ inst.first => \A t \in Threads : <<t, sched[t]>> \notin inst.now
                      /\ \A x \in Transactions : \A t \in Recorded(x) :
                           sched[t] # quarantine[x].entries[t]
    BY DEF NoHazardIsLoaded
  <2>1. inst.first => \A t \in Threads : <<t, sched[t]>> \notin inst.now
    BY DEF IInv, Read_data
  <2>2. \A x \in Transactions : \A t \in Recorded(x) : Settled(x, t)
    BY DEF IInv, Visited, Place, Recovering, Moving
  <2> QED
    BY <2>1, <2>2 DEF Settled, Entry
<1> QED
  BY <1>1, Invariant, PTL

\* An install refuses only when a session wrote the schedule of a thread after
\* a manifest had listed it: no kill alone makes a later install refuse.
THEOREM RefusalHasCause == Spec => RefusedWithCause
<1>1. IInv /\ [Next]_vars =>
        [Refuse => \E x \in inst.x : \E t \in inst.left :
           written[t] > quarantine[x].entries[t]]_vars
  <2> SUFFICES ASSUME IInv, Refuse
               PROVE  \E x \in inst.x : \E t \in inst.left : Entry(x, t) < written[t]
    BY DEF Entry
  <2>1. PICK x \in inst.x, t \in inst.left : Conflict(x, t)
    BY DEF Refuse
  <2>2. inst.left \subseteq Recorded(x)
    BY <2>1 DEF Refuse, IInv, Place, Moving
  <2>3. x \in Transactions /\ t \in Threads /\ t \in Recorded(x) /\ Entry(x, t) # 0
    BY <2>1, <2>2 DEF IInv, TypeOK, Installs, Recorded, Entry
  <2>4. /\ Entry(x, t) \in Nat /\ Archive(x, t) \in Nat /\ sched[t] \in Nat
        /\ written[t] \in Nat /\ Archive(x, t) <= written[t]
    BY <2>3, QuarantineAssumption
       DEF IInv, TypeOK, Contents, Directories, Entry, Archive, Contents_known
  <2>5. CASE Archive(x, t) = 0
    <3>1. sched[t] # Entry(x, t)
      BY <2>1, <2>3, <2>5 DEF Conflict, Ambiguous, Lost, Differs, Entry, Archive
    <3> QED
      BY <2>1, <2>3, <2>5, <3>1 DEF IInv, Pending_present
  <2>6. CASE Archive(x, t) # 0
    <3>1. Entry(x, t) <= Archive(x, t) /\ (sched[t] # 0 => Archive(x, t) < written[t])
      BY <2>3, <2>6 DEF IInv, Archives_older
    <3>2. sched[t] # 0 \/ Archive(x, t) # Entry(x, t)
      BY <2>1, <2>6 DEF Conflict, Ambiguous, Lost, Differs, Entry, Archive
    <3> QED
      BY <2>1, <2>4, <3>1, <3>2
  <2> QED
    BY <2>5, <2>6
<1> QED
  BY <1>1, Invariant, PTL DEF Spec, RefusedWithCause

\* Whenever the installer dies, a content that is not in the tree any more is in
\* an archive and stays there; only a session replaces one by a newer one.
THEOREM ContentsSurvive == Spec => NothingIsDestroyed
<1> DEFINE Survives ==
      \A c \in Held : c \in Held' \/ (sched[c[1]] = c[2] /\ sched'[c[1]] > c[2])
<1>1. ASSUME TypeOK,
             \A t \in Threads : \/ sched'[t] = sched[t]
                                \/ sched'[t] > sched[t]
                                \/ \E x \in Transactions : Archive(x, t)' = sched[t],
             \A x \in Transactions, t \in Threads :
               Archive(x, t) # 0 => Archive(x, t)' = Archive(x, t)
      PROVE  Survives
  BY <1>1 DEF Held, Archive, Contents
<1>2. ASSUME IInv, [Next]_vars PROVE Survives
  <2>1. ASSUME files' = files PROVE Survives
    BY <1>1, <1>2, <2>1 DEF IInv, files, Archive
  <2>2. ASSUME NEW t \in Threads, Rewrite(t) PROVE Survives
    <3>1. \A u \in Threads : sched'[u] = sched[u] \/ sched'[u] > sched[u]
      BY <1>2, <2>2, QuarantineAssumption
         DEF IInv, TypeOK, Contents, Contents_known, Rewrite
    <3> QED
      BY <1>1, <1>2, <2>2, <3>1 DEF IInv, Rewrite, Archive
  <2>3. ASSUME NEW t \in Threads, Elapse(t) PROVE Survives
    BY <1>1, <1>2, <2>3 DEF IInv, Elapse, Archive
  <2>4. CASE RemovePreparation
    <3>1. PICK x \in inst.todo : /\ quarantine[x].state = "preparing"
                                 /\ quarantine' = [quarantine EXCEPT ![x] = Absent]
      BY <2>4 DEF RemovePreparation
    <3>2. x \in Transactions /\ \A t \in Threads : Archive(x, t) = 0
      BY <1>2, <3>1 DEF IInv, TypeOK, Installs, Preparations_empty
    <3>3. \A y \in Transactions, t \in Threads : Archive(y, t) # 0 =>
            Archive(y, t)' = Archive(y, t)
      BY <1>2, <3>1, <3>2 DEF IInv, TypeOK, Archive
    <3> QED
      BY <1>1, <1>2, <2>4, <3>3 DEF IInv, RemovePreparation, rest
  <2>5. CASE Move
    <3>1. PICK x \in inst.x, t \in inst.t :
            /\ quarantine' = [quarantine EXCEPT ![x].archive[t] = sched[t]]
            /\ sched' = [sched EXCEPT ![t] = 0]
      BY <2>5 DEF Move
    <3>2. x \in Transactions /\ t \in Threads /\ Archive(x, t) = 0
      BY <1>2, <2>5, <3>1 DEF Move, IInv, TypeOK, Installs, Place
    <3>3. \A y \in Transactions, u \in Threads :
            Archive(y, u)' = IF y = x /\ u = t THEN sched[t] ELSE Archive(y, u)
      BY <1>2, <3>1, <3>2 DEF IInv, TypeOK, Directories, Archive
    <3>4. \A u \in Threads : u # t => sched'[u] = sched[u]
      BY <1>2, <3>1 DEF IInv, TypeOK
    <3> QED
      BY <1>1, <1>2, <3>2, <3>3, <3>4 DEF IInv
  <2>6. CASE Complete
    <3>1. PICK x \in inst.x : quarantine' = [quarantine EXCEPT ![x].state = "complete"]
      BY <2>6 DEF Complete
    <3>2. \A y \in Transactions, t \in Threads : Archive(y, t)' = Archive(y, t)
      BY <1>2, <3>1 DEF IInv, TypeOK, Directories, Archive
    <3> QED
      BY <1>1, <1>2, <2>6, <3>2 DEF IInv, Complete, rest
  <2>7. CASE MakeDirectory
    <3>1. PICK x \in Transactions :
            /\ quarantine[x].state = "absent"
            /\ quarantine' = [quarantine EXCEPT ![x] = [Absent EXCEPT !.state = "preparing"]]
      BY <2>7 DEF MakeDirectory
    <3>2. \A y \in Transactions, t \in Threads : Archive(y, t) # 0 =>
            Archive(y, t)' = Archive(y, t)
      BY <1>2, <3>1 DEF IInv, TypeOK, Preparations_empty, Archive
    <3> QED
      BY <1>1, <1>2, <2>7, <3>2 DEF IInv, MakeDirectory, rest
  <2>8. CASE WriteManifest
    <3>1. PICK x \in inst.x : quarantine' = [quarantine EXCEPT ![x] =
             [state |-> "prepared", entries |-> inst.data, archive |-> Nothing]]
      BY <2>8 DEF WriteManifest
    <3>2. x \in Transactions /\ \A t \in Threads : Archive(x, t) = 0
      BY <1>2, <2>8, <3>1
         DEF IInv, TypeOK, Installs, Place, Preparations_empty, WriteManifest
    <3>3. \A y \in Transactions, t \in Threads : Archive(y, t) # 0 =>
            Archive(y, t)' = Archive(y, t)
      BY <1>2, <3>1, <3>2 DEF IInv, TypeOK, Archive
    <3> QED
      BY <1>1, <1>2, <2>8, <3>3 DEF IInv, WriteManifest, rest
  <2>9. CASE \/ Begin \/ List \/ Recover \/ CheckRecord \/ Recovered \/ Read \/ Scanned
             \/ Finish \/ Refuse \/ Dies \/ Uninstall \/ UNCHANGED vars
    <3>1. files' = files
      BY <2>9 DEF Begin, List, Recover, CheckRecord, Recovered, Read, Scanned, Finish, Refuse,
                  Dies, Uninstall, vars, files
    <3> QED
      BY <2>1, <3>1
  <2> QED
    BY <1>2, <2>2, <2>3, <2>4, <2>5, <2>6, <2>7, <2>8, <2>9 DEF Next, Install, Migrating
<1>3. IInv /\ [Next]_vars => [Survives]_vars
  BY <1>2
<1> QED
  BY <1>3, Invariant, PTL DEF Spec, NothingIsDestroyed
=============================================================================
