----------------------- MODULE PluginCutover_proofs -----------------------
(***************************************************************************)
(* Proofs about PluginCutover, for any sessions, programs, versions, and   *)
(* any number of errands, failures and kills: its types, the safety of a   *)
(* rollback, that it implements AtomicDeployment, and that what the        *)
(* scripts report when they end is so.                                     *)
(***************************************************************************)
EXTENDS PluginCutover, TLAPS

-----------------------------------------------------------------------------
(* The inductive invariant: what is true of the files whoever runs, and    *)
(* what a session knows of them by its place in the script.                *)

\* Whoever works has the lock.
Exclusion == \A s \in Sessions : Working(s) => lock = s

\* A backup that recovery can use, and that loses nothing an observer sees.
BackupIsGood ==
  /\ backup # None /\ backup.state
  /\ backup.loaded => backup.files.plist # None
  /\ backup.files.settings.keys = "kept"
  /\ backup.files.registry <= live.registry
  /\ backup.files.bin # 0 =>
       /\ backup.files.bin \in live.execs
       /\ backup.modes # <<>> /\ backup.modes[1] = backup.files.bin => backup.modes[2]

\* What the files say, whoever died when.
Shape ==
  /\ guard = "committed" => ~journal
  /\ Undecided => BackupIsGood
  /\ ~Undecided =>
       /\ live.settings.keys = "kept"
       /\ live.bin # 0 => live.bin \in live.execs

\* Everything at the registry's version.
Whole ==
  /\ live.settings = [keys |-> "kept", pruned |-> TRUE]
  /\ live.bin = live.registry /\ live.schemas = live.registry
  /\ live.registry \in live.execs

Supervised == live.plist = Shared /\ live.marker /\ job = Shared

Same(surface) ==
  surface # "execs" => live[surface] = backup.files[surface]
Done(n) == \A i \in 1 .. Len(Surfaces) : i < n => Same(Surfaces[i])

\* Before the journal is written.
Preparing(s) ==
  /\ sess[s].pc \in {"validate", "runtime", "begin"} => ~Undecided
  /\ sess[s].pc = "begin" =>
       /\ sess[s].loaded = (job # None)
       /\ sess[s].loaded => live.plist # None
  /\ sess[s].pc \in {"begin.state", "begin.journal"} =>
       /\ ~journal /\ guard = "none"
       /\ backup # None /\ backup.files = live /\ backup.modes = <<>>
       /\ backup.loaded = (job # None)
       /\ backup.loaded => live.plist # None
  /\ sess[s].pc = "begin.journal" => backup.state

\* The places between begin and commit.
Opened == {"begin.return", "claude", "claude.settings", "keys", "keys.write", "prune",
           "prune.write", "modes", "chmod", "bin", "schemas", "commit"}

Converging(s) ==
  /\ sess[s].pc \in {"runtime"} \cup Begin \cup Claude
                      \cup {"keys", "keys.write", "prune", "prune.write"} =>
       sess[s].keys = "kept"
  /\ sess[s].pc \in Opened \/ (sess[s].pc \in Install \cup Undo /\ sess[s].kind = "update") =>
       journal /\ guard = "none"
  /\ sess[s].pc = "prune" => live.settings.keys = "kept"
  /\ sess[s].pc \in {"modes", "chmod", "bin", "schemas"} =>
       live.settings = [keys |-> "kept", pruned |-> TRUE]
  /\ sess[s].pc \in {"bin", "schemas"} => live.registry \in live.execs
  /\ sess[s].pc = "schemas" => live.bin = live.registry
  /\ sess[s].pc \in Install /\ sess[s].kind = "update" => Whole

\* The installer, on its way to a loaded job.
Promoting(s) ==
  /\ sess[s].kind = "update" => sess[s].waker = Shared
  /\ sess[s].pc \in {"in.probe", "in.promote"} => pending = sess[s].waker
  /\ sess[s].pc = "in.promote" /\ ~sess[s].quiet => job = sess[s].waker
  /\ sess[s].pc \in {"in.bootstrap", "in.marker", "in.return"} => live.plist = sess[s].waker
  /\ sess[s].pc \in {"in.marker", "in.return"} => job = sess[s].waker
  /\ sess[s].pc = "in.return" => live.marker

Committing(s) ==
  /\ sess[s].pc \in Commit => Whole /\ Supervised
  /\ sess[s].pc = "commit.unlink" => journal /\ guard = "link"
  /\ sess[s].pc = "commit.mark" => ~journal /\ guard = "link"
  /\ sess[s].pc = "commit.return" => ~journal /\ guard = "committed"

RollingBack(s) ==
  /\ sess[s].pc \in {"rb.quiesce", "rb.restore", "rb.runtime", "rb.unlink"} =>
       journal /\ guard = "none"
  /\ sess[s].pc \in {"rb.prepare", "rb.quiesce"} => sess[s].next = 1
  /\ sess[s].pc = "rb.restore" => job = None /\ Done(sess[s].next)
  /\ sess[s].pc \in {"rb.runtime", "rb.unlink"} => Done(Len(Surfaces) + 1)
  /\ sess[s].pc = "rb.unlink" => backup.loaded = (job # None)
  /\ sess[s].pc \in {"rb.rmtree", "rb.return", "cl.rmtree", "cl.unlink", "cl.return"} =>
       ~Undecided
  /\ sess[s].pc = "legacy" \/ (sess[s].pc \in Rollback /\ sess[s].reason = "cleanup") =>
       ~Undecided /\ live.bin # 0

Place(s) ==
  /\ Preparing(s) /\ Converging(s) /\ Promoting(s) /\ Committing(s) /\ RollingBack(s)

Places_hold == \A s \in Sessions : Place(s)

\* The part of TypeOK that is about everything but the sessions.
FilesOK ==
  /\ live \in Files
  /\ pending \in Plists /\ job \in Plists
  /\ tree \in BOOLEAN /\ legacy \in BOOLEAN /\ journal \in BOOLEAN
  /\ guard \in {"none", "link", "committed"}
  /\ backup = None \/ backup \in Backups
  /\ errands \in 0 .. MaxErrands /\ faults \in 0 .. MaxFaults

\* None of the properties is inductive: whether recovery works depends on where
\* a session that was interrupted had come to.
IInv == TypeOK /\ Exclusion /\ Shape /\ Places_hold /\ LegacyGoesLast

-----------------------------------------------------------------------------
(* Sessions.                                                               *)

LEMMA SomePlaces ==
  /\ Resting \in Sess
  /\ {"idle", "waiting"} \subseteq Places /\ Shell \subseteq Places
  /\ Uninstall \subseteq Places
  /\ Begin \subseteq Places /\ Claude \subseteq Places /\ Modes \subseteq Places
  /\ Install \subseteq Places /\ Undo \subseteq Places
  /\ Commit \subseteq Places /\ Rollback \subseteq Places
<1>1. "idle" \in Places /\ {"idle", "waiting"} \subseteq Places /\ Shell \subseteq Places
      /\ Uninstall \subseteq Places
  BY DEF Places
<1>2. \A B \in Blocks : B \subseteq Places
  BY DEF Places
<1>3. /\ Begin \in Blocks /\ Claude \in Blocks /\ Modes \in Blocks
      /\ (Install \cup Undo) \in Blocks /\ Commit \in Blocks /\ Rollback \in Blocks
  BY DEF Blocks
<1>4. Resting \in Sess
  <2>1. 1 \in 1 .. Len(Surfaces)
    BY DEF Surfaces
  <2> QED
    BY <1>1, <2>1, CutoverAssumption DEF Resting, Sess, Keys, Plists
<1> QED
  BY <1>1, <1>2, <1>3, <1>4

LEMMA Fields ==
  ASSUME NEW r \in Sess, NEW p \in Places
  PROVE  LET n == [r EXCEPT !.pc = p]
         IN  /\ n \in Sess /\ n.pc = p /\ n.kind = r.kind /\ n.waker = r.waker
             /\ n.orphan = r.orphan /\ n.reason = r.reason /\ n.keys = r.keys
             /\ n.loaded = r.loaded /\ n.next = r.next /\ n.plist = r.plist
             /\ n.marker = r.marker /\ n.was = r.was /\ n.quiet = r.quiet
             /\ n.found = r.found
BY DEF Sess

LEMMA ProceedMoves ==
  ASSUME TypeOK, NEW s \in Sessions, NEW r \in Sess, Proceed(s, r)
  PROVE  /\ sess' \in [Sessions -> Sess]
         /\ \A q \in Sessions : q # s => sess'[q] = sess[q]
         /\ \/ sess'[s] = Resting /\ lock' = None
            \/ sess'[s] = r /\ lock' = lock
BY SomePlaces DEF TypeOK, Proceed, End

LEMMA EndMoves ==
  ASSUME TypeOK, NEW s \in Sessions, End(s)
  PROVE  /\ sess' \in [Sessions -> Sess]
         /\ \A q \in Sessions : q # s => sess'[q] = sess[q]
         /\ sess'[s] = Resting /\ lock' = None
BY SomePlaces DEF TypeOK, End

LEMMA QuietPlace ==
  ASSUME NEW q \in Sessions, sess'[q].pc \in {"idle", "waiting"},
         sess'[q].kind = "update" => sess'[q].waker = Shared
  PROVE  Place(q)'
<1>1. Preparing(q)'
  BY DEF Preparing
<1>2. Converging(q)'
  BY DEF Converging, Opened, Begin, Claude, Install, Undo
<1>3. Promoting(q)'
  BY DEF Promoting
<1>4. Committing(q)'
  BY DEF Committing, Commit
<1>5. RollingBack(q)'
  BY DEF RollingBack, Rollback
<1> QED
  BY <1>1, <1>2, <1>3, <1>4, <1>5 DEF Place

\* Of several sessions one works; the others are where they were.
LEMMA Compose ==
  ASSUME IInv, NEW s \in Sessions, Working(s),
         sess' \in [Sessions -> Sess],
         \A q \in Sessions : q # s => sess'[q] = sess[q],
         FilesOK', Shape', LegacyGoesLast',
         \/ sess'[s] = Resting /\ lock' = None
         \/ Place(s)' /\ lock' = lock
  PROVE  IInv'
<1>1. lock = s
  BY DEF IInv, Exclusion
<1>2. \A q \in Sessions : q # s => ~Working(q)
  BY <1>1 DEF IInv, Exclusion
<1>3. \A q \in Sessions : q # s => ~Working(q)'
  BY <1>2 DEF Working
<1>4. Exclusion'
  BY <1>1, <1>3 DEF Exclusion, Working, Resting
<1>5. TypeOK'
  BY <1>1, CutoverAssumption DEF TypeOK, FilesOK
<1>6. ASSUME NEW q \in Sessions PROVE Place(q)'
  <2>1. CASE q # s
    <3>1. sess[q].kind = "update" => sess[q].waker = Shared
      BY DEF IInv, Places_hold, Place, Promoting
    <3>2. sess[q].pc \in {"idle", "waiting"}
      BY <1>2, <2>1 DEF Working
    <3> QED
      BY <2>1, <3>1, <3>2, QuietPlace
  <2>2. CASE q = s /\ sess'[s] = Resting
    BY <2>2, QuietPlace DEF Resting
  <2>3. CASE q = s /\ Place(s)'
    BY <2>3
  <2> QED
    BY <2>1, <2>2, <2>3
<1> QED
  BY <1>4, <1>5, <1>6 DEF IInv, Places_hold

\* Steps that change no file are about the session alone.
LEMMA Walks ==
  ASSUME IInv, NEW s \in Sessions, Working(s), UNCHANGED <<disk, job, intent>>,
         errands' \in 0 .. MaxErrands, faults' \in 0 .. MaxFaults,
         sess' \in [Sessions -> Sess],
         \A q \in Sessions : q # s => sess'[q] = sess[q],
         \/ sess'[s] = Resting /\ lock' = None
         \/ Place(s)' /\ lock' = lock
  PROVE  IInv'
<1>1. FilesOK'
  BY DEF IInv, TypeOK, FilesOK, disk, intent
<1>2. Shape'
  BY DEF IInv, Shape, BackupIsGood, Undecided, disk, intent
<1>3. LegacyGoesLast'
  BY DEF IInv, LegacyGoesLast, Shown, Undecided, disk, intent
<1> QED
  BY <1>1, <1>2, <1>3, Compose

\* What a session that goes on takes along.
Locals(s) ==
  /\ sess'[s].kind = sess[s].kind /\ sess'[s].waker = sess[s].waker
  /\ sess'[s].reason = sess[s].reason /\ sess'[s].keys = sess[s].keys
  /\ sess'[s].loaded = sess[s].loaded /\ sess'[s].next = sess[s].next
  /\ sess'[s].quiet = sess[s].quiet

Others(s) ==
  /\ sess' \in [Sessions -> Sess]
  /\ \A q \in Sessions : q # s => sess'[q] = sess[q]

Rests(s) == sess'[s] = Resting /\ lock' = None

LEMMA GoMoves ==
  ASSUME TypeOK, NEW s \in Sessions, NEW p \in Places, Go(s, p)
  PROVE  /\ Others(s)
         /\ Rests(s) \/ (sess'[s].pc = p /\ Locals(s) /\ lock' = lock)
<1>1. sess[s] \in Sess
  BY DEF TypeOK
<1>2. [sess[s] EXCEPT !.pc = p] \in Sess
  BY <1>1, Fields
<1>3. Proceed(s, [sess[s] EXCEPT !.pc = p])
  BY DEF Go
<1>4. Others(s)
  BY <1>2, <1>3, ProceedMoves DEF Others
<1>5. CASE sess'[s] = Resting /\ lock' = None
  BY <1>4, <1>5 DEF Rests
<1>6. CASE sess'[s] = [sess[s] EXCEPT !.pc = p] /\ lock' = lock
  BY <1>1, <1>4, <1>6, Fields DEF Locals
<1> QED
  BY <1>2, <1>3, <1>5, <1>6, ProceedMoves

LEMMA RollBackMoves ==
  ASSUME TypeOK, NEW s \in Sessions, NEW why \in {"first", "failure", "cleanup"},
         RollBack(s, why)
  PROVE  /\ Others(s)
         /\ \/ Rests(s)
            \/ /\ sess'[s].pc = "rb.prepare" /\ sess'[s].reason = why
               /\ sess'[s].next = 1 /\ lock' = lock
               /\ sess'[s].kind = sess[s].kind /\ sess'[s].waker = sess[s].waker
<1> DEFINE r == [sess[s] EXCEPT !.pc = "rb.prepare", !.reason = why, !.next = 1]
<1>1. sess[s] \in Sess
  BY DEF TypeOK
<1>2. "rb.prepare" \in Places
  BY SomePlaces DEF Rollback
<1>3. 1 \in 1 .. Len(Surfaces)
  BY DEF Surfaces
<1>4. /\ r \in Sess /\ r.pc = "rb.prepare" /\ r.reason = why /\ r.next = 1
      /\ r.kind = sess[s].kind /\ r.waker = sess[s].waker
  BY <1>1, <1>2, <1>3 DEF Sess
<1>5. Proceed(s, r)
  BY DEF RollBack
<1> HIDE DEF r
<1> QED
  BY <1>4, <1>5, ProceedMoves DEF Others, Rests

\* A rollback that begins knows only what its reason says.
LEMMA AtRollback ==
  ASSUME IInv, NEW s \in Sessions, sess'[s].pc = "rb.prepare", sess'[s].next = 1,
         sess'[s].kind = sess[s].kind, sess'[s].waker = sess[s].waker,
         sess'[s].reason = "cleanup" => (~Undecided /\ live.bin # 0)'
  PROVE  Place(s)'
<1>1. Preparing(s)'
  BY DEF Preparing
<1>2. Converging(s)'
  BY DEF Converging, Opened, Begin, Claude, Install, Undo
<1>3. Promoting(s)'
  BY DEF Promoting, IInv, Places_hold, Place
<1>4. Committing(s)'
  BY DEF Committing, Commit
<1>5. RollingBack(s)'
  BY DEF RollingBack, Rollback
<1> QED
  BY <1>1, <1>2, <1>3, <1>4, <1>5 DEF Place

-----------------------------------------------------------------------------
(* Steps that change no file.                                              *)

LEMMA StartKeeps ==
  ASSUME IInv, NEW s \in Sessions, StartAny(s)
  PROVE  IInv'
<1>1. PICK kind \in {"update", "install", "uninstall"}, w \in Wakers : Start(s, kind, w)
  BY DEF StartAny
<1>2. "waiting" \in Places
  BY SomePlaces
<1> DEFINE r == [Resting EXCEPT !.pc = "waiting", !.kind = kind, !.waker = w]
<1>3. r \in Sess /\ r.pc = "waiting" /\ r.kind = kind /\ r.waker = w
  BY <1>2, SomePlaces DEF Sess
<1>4. sess' = [sess EXCEPT ![s] = r]
  BY <1>1 DEF Start
<1> HIDE DEF r
<1>5. Others(s) /\ sess'[s] = r
  BY <1>3, <1>4 DEF Others, IInv, TypeOK
<1>6. sess[s].pc = "idle" /\ UNCHANGED <<disk, job, intent, lock, faults>>
  BY <1>1 DEF Start, At
<1>7. errands' \in 0 .. MaxErrands
  BY <1>1, CutoverAssumption DEF Start, IInv, TypeOK
<1>8. TypeOK' /\ Shape' /\ LegacyGoesLast'
  BY <1>5, <1>6, <1>7
  DEF Others, IInv, TypeOK, Shape, LegacyGoesLast, BackupIsGood, Shown, Undecided, disk, intent
<1>9. Exclusion'
  BY <1>3, <1>5, <1>6 DEF IInv, Exclusion, Working, Others
<1>10. Place(s)'
  BY <1>1, <1>3, <1>5, QuietPlace DEF Start
<1>11. ASSUME NEW q \in Sessions, q # s PROVE Place(q)'
  BY <1>5, <1>6, <1>11
  DEF Others, IInv, Places_hold, Place, Preparing, Converging, Promoting, Committing,
      RollingBack, BackupIsGood, Undecided, Whole, Supervised, Done, Same, disk, intent
<1> QED
  BY <1>8, <1>9, <1>10, <1>11 DEF IInv, Places_hold

LEMMA AcquireKeeps ==
  ASSUME IInv, NEW s \in Sessions, Acquire(s)
  PROVE  IInv'
<1>1. /\ sess[s].pc = "waiting" /\ lock = None /\ lock' = s
      /\ UNCHANGED <<disk, job, intent, bounds>>
  BY DEF Acquire, At
<1>2. sess[s] \in Sess
  BY DEF IInv, TypeOK
<1>3. PICK p \in {"pending", "in.validate", "off.bootout"} :
        /\ sess' = [sess EXCEPT ![s].pc = p]
        /\ p = "in.validate" => sess[s].kind # "update"
  <2>1. sess[s].kind \in {"update", "install", "uninstall"}
    BY <1>2 DEF Sess
  <2> QED
    BY <2>1 DEF Acquire
<1>4. p \in Places
  BY SomePlaces DEF Shell, Install, Uninstall
<1>5. Others(s) /\ sess'[s].pc = p /\ Locals(s)
  BY <1>2, <1>3, <1>4, Fields DEF Others, Locals, IInv, TypeOK
<1>6. \A q \in Sessions : ~Working(q)
  BY <1>1, CutoverAssumption DEF IInv, Exclusion
<1>7. TypeOK' /\ Shape' /\ LegacyGoesLast'
  BY <1>1, <1>5
  DEF Others, IInv, TypeOK, Shape, LegacyGoesLast, BackupIsGood, Shown, Undecided, disk,
      intent, bounds
<1>8. Exclusion'
  BY <1>1, <1>5, <1>6 DEF Exclusion, Working, Others
<1>9. ASSUME NEW q \in Sessions, q # s PROVE Place(q)'
  BY <1>5, <1>6, <1>9, QuietPlace DEF Others, Working, IInv, Places_hold, Place, Promoting
<1>10. Place(s)'
  <2>1. Preparing(s)'
    BY <1>5 DEF Preparing
  <2>2. Converging(s)'
    BY <1>3, <1>5 DEF Converging, Opened, Begin, Claude, Install, Undo, Locals
  <2>3. Promoting(s)'
    BY <1>5 DEF Promoting, IInv, Places_hold, Place, Locals
  <2>4. Committing(s)'
    BY <1>5 DEF Committing, Commit
  <2>5. RollingBack(s)'
    BY <1>5 DEF RollingBack, Rollback
  <2> QED
    BY <2>1, <2>2, <2>3, <2>4, <2>5 DEF Place
<1> QED
  BY <1>7, <1>8, <1>9, <1>10 DEF IInv, Places_hold

LEMMA CheckPendingKeeps ==
  ASSUME IInv, NEW s \in Sessions, CheckPending(s)
  PROVE  IInv'
<1>1. At(s, "pending") /\ UNCHANGED <<disk, job, intent, bounds>> /\ TypeOK
  BY DEF CheckPending, IInv
<1>2. Working(s) /\ errands' \in 0 .. MaxErrands /\ faults' \in 0 .. MaxFaults
  BY <1>1 DEF Working, At, TypeOK, bounds
<1>3. CASE RollBack(s, "first")
  BY <1>1, <1>2, <1>3, RollBackMoves, AtRollback, Walks DEF Others, Rests
<1>4. CASE Go(s, "validate") /\ ~Undecided
  <2>1. Others(s) /\ (Rests(s) \/ (sess'[s].pc = "validate" /\ Locals(s) /\ lock' = lock))
    BY <1>1, <1>4, GoMoves, SomePlaces DEF Shell
  <2>2. ASSUME sess'[s].pc = "validate", Locals(s) PROVE Place(s)'
    <3>1. Preparing(s)'
      BY <1>1, <1>4, <2>2 DEF Preparing, Undecided, intent
    <3>2. Converging(s)'
      BY <2>2 DEF Converging, Opened, Begin, Claude, Install, Undo
    <3>3. Promoting(s)' 
      BY <2>2 DEF Promoting, IInv, Places_hold, Place, Locals
    <3>4. Committing(s)' /\ RollingBack(s)'
      BY <2>2 DEF Committing, Commit, RollingBack, Rollback
    <3> QED
      BY <3>1, <3>2, <3>3, <3>4 DEF Place
  <2> QED
    BY <1>1, <1>2, <2>1, <2>2, Walks DEF Others, Rests
<1> QED
  BY <1>3, <1>4 DEF CheckPending, Undecided

LEMMA ValidateKeeps ==
  ASSUME IInv, NEW s \in Sessions, Validate(s)
  PROVE  IInv'
<1>1. At(s, "validate") /\ UNCHANGED <<disk, job, intent, bounds>> /\ TypeOK
  BY DEF Validate, IInv
<1>2. Working(s) /\ errands' \in 0 .. MaxErrands /\ faults' \in 0 .. MaxFaults
  BY <1>1 DEF Working, At, TypeOK, bounds
<1>3. ~Undecided /\ live.settings.keys = "kept"
  BY <1>1 DEF IInv, Places_hold, Place, Preparing, At, Shape
<1> DEFINE r == [sess[s] EXCEPT !.pc = "runtime", !.keys = live.settings.keys]
<1>4. sess[s] \in Sess /\ "runtime" \in Places
  BY SomePlaces DEF TypeOK, IInv, Shell
<1>5. /\ r \in Sess /\ r.pc = "runtime" /\ r.keys = "kept"
      /\ r.kind = sess[s].kind /\ r.waker = sess[s].waker
  BY <1>3, <1>4 DEF Sess, Keys
<1>6. Proceed(s, r)
  BY <1>3 DEF Validate
<1> HIDE DEF r
<1>7. Others(s) /\ (Rests(s) \/ (sess'[s] = r /\ lock' = lock))
  BY <1>1, <1>5, <1>6, ProceedMoves DEF Others, Rests
<1>8. ASSUME sess'[s] = r PROVE Place(s)'
  BY <1>1, <1>3, <1>5, <1>8
  DEF Place, Preparing, Converging, Promoting, Committing, RollingBack, Opened, Begin, Claude,
      Install, Undo, Commit, Rollback, Undecided, intent, IInv, Places_hold
<1> QED
  BY <1>1, <1>2, <1>7, <1>8, Walks DEF Others, Rests

LEMMA ReadRuntimeKeeps ==
  ASSUME IInv, NEW s \in Sessions, ReadRuntime(s)
  PROVE  IInv'
<1>1. At(s, "runtime") /\ UNCHANGED <<disk, job, intent, bounds>> /\ TypeOK
  BY DEF ReadRuntime, IInv
<1>2. Working(s) /\ errands' \in 0 .. MaxErrands /\ faults' \in 0 .. MaxFaults
  BY <1>1 DEF Working, At, TypeOK, bounds
<1>3. CASE job # None /\ live.plist = None
  BY <1>1, <1>2, <1>3, EndMoves, Walks DEF ReadRuntime
<1>4. CASE ~(job # None /\ live.plist = None)
  <2> DEFINE r == [sess[s] EXCEPT !.pc = "begin", !.loaded = (job # None),
                                  !.found = <<live, job>>]
  <2>1. sess[s] \in Sess /\ "begin" \in Places /\ <<live, job>> \in Files \X Plists
    BY <1>1, SomePlaces DEF TypeOK, Begin
  <2>2. /\ r \in Sess /\ r.pc = "begin" /\ r.loaded = (job # None)
        /\ r.kind = sess[s].kind /\ r.waker = sess[s].waker /\ r.keys = sess[s].keys
    BY <2>1 DEF Sess
  <2>3. Proceed(s, r)
    BY <1>4 DEF ReadRuntime
  <2> HIDE DEF r
  <2>4. Others(s) /\ (Rests(s) \/ (sess'[s] = r /\ lock' = lock))
    BY <1>1, <2>2, <2>3, ProceedMoves DEF Others, Rests
  <2>5. ASSUME sess'[s] = r PROVE Place(s)'
    BY <1>1, <1>4, <2>2, <2>5
    DEF At, Place, Preparing, Converging, Promoting, Committing, RollingBack, Opened, Begin,
        Claude, Install, Undo, Commit, Rollback, Undecided, disk, intent, IInv, Places_hold
  <2> QED
    BY <1>1, <1>2, <2>4, <2>5, Walks DEF Others, Rests
<1> QED
  BY <1>3, <1>4

-----------------------------------------------------------------------------
(* Steps that write files of the deployment, and leave the intent alone.   *)

LEMMA Writes ==
  ASSUME IInv, NEW s \in Sessions, Working(s), UNCHANGED <<intent, bounds, legacy>>,
         live' \in Files, pending' \in Plists, job' \in Plists, tree' \in BOOLEAN,
         live.registry <= live'.registry, live.execs \subseteq live'.execs,
         ~Undecided => live'.settings.keys = "kept" /\ live'.bin = live.bin,
         Others(s), Rests(s) \/ (Place(s)' /\ lock' = lock)
  PROVE  IInv'
<1>1. FilesOK'
  BY DEF IInv, TypeOK, FilesOK, intent, bounds
<1>2. Undecided' = Undecided
  BY DEF Undecided, intent
<1>3. BackupIsGood => BackupIsGood'
  <2>1. SUFFICES ASSUME BackupIsGood PROVE BackupIsGood'
    OBVIOUS
  <2>2. backup \in Backups
    BY <2>1 DEF IInv, TypeOK, BackupIsGood
  <2>3. backup.files.registry \in Nat /\ live.registry \in Nat /\ live'.registry \in Nat
    BY <2>2 DEF IInv, TypeOK, Backups, Files, Versions
  <2> QED
    BY <2>1, <2>3 DEF BackupIsGood, intent
<1>4. Shape'
  BY <1>2, <1>3 DEF IInv, Shape, intent
<1>5. LegacyGoesLast'
  BY <1>2 DEF IInv, LegacyGoesLast, Shown, intent
<1> QED
  BY <1>1, <1>4, <1>5, Compose DEF Others, Rests

\* A step under the lock, from a place to the next one.
LEMMA GoWrites ==
  ASSUME IInv, NEW s \in Sessions, Working(s), NEW p \in Places, Go(s, p),
         UNCHANGED <<intent, bounds, legacy>>,
         live' \in Files, pending' \in Plists, job' \in Plists, tree' \in BOOLEAN,
         live.registry <= live'.registry, live.execs \subseteq live'.execs,
         ~Undecided => live'.settings.keys = "kept" /\ live'.bin = live.bin,
         sess'[s].pc = p /\ Locals(s) => Place(s)'
  PROVE  IInv'
<1>1. TypeOK
  BY DEF IInv
<1> QED
  BY <1>1, GoMoves, Writes

LEMMA ClaudeKeeps ==
  ASSUME IInv, NEW s \in Sessions, ClaudeUpdate(s) \/ ClaudeSettings(s)
  PROVE  IInv'
<1>1. TypeOK /\ live \in Files
  BY DEF IInv, TypeOK
<1>2. sess[s].pc \in {"claude", "claude.settings"} /\ Working(s)
  BY DEF ClaudeUpdate, ClaudeSettings, At, Working
<1>3. journal /\ guard = "none" /\ sess[s].keys = "kept" /\ Undecided
  BY <1>2 DEF IInv, Places_hold, Place, Converging, Opened, Claude, Undecided
<1>4. UNCHANGED <<pending, tree, legacy, job, intent, bounds>>
  BY DEF ClaudeUpdate, ClaudeSettings
<1>5. live' \in Files /\ live.registry <= live'.registry /\ live'.execs = live.execs
  <2>1. CASE ClaudeUpdate(s)
    <3>1. PICK v \in live.registry .. MaxVersion : live' = [live EXCEPT !.registry = v]
      BY <2>1 DEF ClaudeUpdate
    <3>2. live.registry \in Versions /\ v \in Versions /\ live.registry <= v
      BY <1>1, CutoverAssumption DEF Files, Versions
    <3> QED
      BY <1>1, <3>1, <3>2 DEF Files
  <2>2. CASE ClaudeSettings(s)
    <3>1. PICK k \in {live.settings.keys, "reset"} : live' = [live EXCEPT !.settings.keys = k]
      BY <2>2 DEF ClaudeSettings
    <3>2. live.settings \in Settings /\ k \in Keys
      BY <1>1 DEF Files, Settings, Keys
    <3>3. [live.settings EXCEPT !.keys = k] \in Settings
      BY <3>2 DEF Settings
    <3>4. live.registry \in Nat
      BY <1>1 DEF Files, Versions
    <3> QED
      BY <1>1, <3>1, <3>3, <3>4 DEF Files
  <2> QED
    BY <2>1, <2>2
<1>6. PICK p \in {"claude.settings", "keys"} : Go(s, p)
  BY DEF ClaudeUpdate, ClaudeSettings
<1>7. p \in Places
  BY SomePlaces DEF Claude, Shell
<1>8. ASSUME sess'[s].pc = p, Locals(s) PROVE Place(s)'
  BY <1>3, <1>4, <1>6, <1>8
  DEF Locals, Place, Preparing, Converging, Promoting, Committing, RollingBack, Opened, Begin,
      Claude, Install, Undo, Commit, Rollback, intent, IInv, Places_hold
<1>9. pending' \in Plists /\ job' \in Plists /\ tree' \in BOOLEAN
  BY <1>1, <1>4 DEF TypeOK
<1> QED
  BY <1>2, <1>3, <1>4, <1>5, <1>6, <1>7, <1>8, <1>9, GoWrites

\* settings.json: unreadable while it is written, with the user's keys afterwards.
LEMMA SettingsKeep ==
  ASSUME IInv, NEW s \in Sessions, RestoreKeys(s) \/ prune_hooks(s) \/ WriteSettings(s)
  PROVE  IInv'
<1>1. TypeOK /\ live \in Files
  BY DEF IInv, TypeOK
<1>2. sess[s].pc \in {"keys", "keys.write", "prune", "prune.write"} /\ Working(s)
  BY DEF RestoreKeys, prune_hooks, WriteSettings, At, Working
<1>3. journal /\ guard = "none" /\ sess[s].keys = "kept" /\ Undecided
  BY <1>2 DEF IInv, Places_hold, Place, Converging, Opened, Claude, Undecided
<1>4. UNCHANGED <<pending, tree, legacy, job, intent, bounds>>
  BY DEF RestoreKeys, prune_hooks, WriteSettings
<1>5. live.settings \in Settings /\ live.settings.keys \in Keys /\ live.registry \in Nat
  BY <1>1 DEF Files, Settings, Versions
<1>6. /\ live' \in Files /\ live'.registry = live.registry /\ live'.execs = live.execs
      /\ \E p \in {"keys.write", "prune", "prune.write", "modes"} :
           /\ Go(s, p)
           /\ p = "prune" => live'.settings.keys = "kept"
           /\ p = "modes" => live'.settings = [keys |-> "kept", pruned |-> TRUE]
  <2>1. [live.settings EXCEPT !.keys = "lost"] \in Settings
    BY <1>5 DEF Settings, Keys
  <2>2. /\ [live.settings EXCEPT !.keys = "kept"] \in Settings
        /\ [live.settings EXCEPT !.keys = "kept"].keys = "kept"
    BY <1>5 DEF Settings, Keys
  <2>3. [keys |-> "kept", pruned |-> TRUE] \in Settings
    BY DEF Settings, Keys
  <2>4. CASE RestoreKeys(s)
    BY <1>1, <1>3, <2>1, <2>4 DEF RestoreKeys, Files
  <2>5. CASE prune_hooks(s)
    <3>1. live.settings.keys = "kept"
      BY <2>5 DEF prune_hooks, At, IInv, Places_hold, Place, Converging
    <3>2. live.settings.pruned => live.settings = [keys |-> "kept", pruned |-> TRUE]
      BY <1>5, <3>1 DEF Settings
    <3> QED
      BY <1>1, <2>1, <2>5, <3>2 DEF prune_hooks, Files
  <2>6. CASE WriteSettings(s)
    <3>1. CASE live' = [live EXCEPT !.settings.keys = sess[s].keys] /\ Go(s, "prune")
      <4>1. live' = [live EXCEPT !.settings = [live.settings EXCEPT !.keys = "kept"]]
        BY <1>1, <1>3, <3>1 DEF Files
      <4> QED
        BY <1>1, <2>2, <3>1, <4>1 DEF Files
    <3>2. CASE /\ live' = [live EXCEPT !.settings = [keys |-> sess[s].keys, pruned |-> TRUE]]
               /\ Go(s, "modes")
      BY <1>1, <1>3, <2>3, <3>2 DEF Files
    <3> QED
      BY <2>6, <3>1, <3>2 DEF WriteSettings
  <2> QED
    BY <2>4, <2>5, <2>6
<1>7. PICK p \in {"keys.write", "prune", "prune.write", "modes"} :
        /\ Go(s, p)
        /\ p = "prune" => live'.settings.keys = "kept"
        /\ p = "modes" => live'.settings = [keys |-> "kept", pruned |-> TRUE]
  BY <1>6
<1>8. p \in Places
  BY SomePlaces DEF Modes, Shell
<1>9. ASSUME sess'[s].pc = p, Locals(s) PROVE Place(s)'
  BY <1>3, <1>4, <1>7, <1>9
  DEF Locals, Place, Preparing, Converging, Promoting, Committing, RollingBack, Opened, Begin,
      Claude, Install, Undo, Commit, Rollback, intent, IInv, Places_hold
<1>10. pending' \in Plists /\ job' \in Plists /\ tree' \in BOOLEAN
  BY <1>1, <1>4 DEF TypeOK
<1> QED
  BY <1>2, <1>3, <1>4, <1>5, <1>6, <1>7, <1>8, <1>9, <1>10, GoWrites

LEMMA LinkKeeps ==
  ASSUME IInv, NEW s \in Sessions, chmod(s) \/ replace_wrapper(s)
  PROVE  IInv'
<1>1. TypeOK /\ live \in Files
  BY DEF IInv, TypeOK
<1>2. sess[s].pc \in {"chmod", "bin", "schemas"} /\ Working(s)
  BY DEF chmod, replace_wrapper, At, Working
<1>3. /\ journal /\ guard = "none" /\ Undecided
      /\ live.settings = [keys |-> "kept", pruned |-> TRUE]
  BY <1>2 DEF IInv, Places_hold, Place, Converging, Opened, Undecided
<1>4. UNCHANGED <<pending, tree, legacy, job, intent, bounds>>
  BY DEF chmod, replace_wrapper
<1>5. live.registry \in Versions /\ live.registry \in Nat /\ live.registry \in 0 .. MaxVersion
  BY <1>1, CutoverAssumption DEF Files, Versions
<1>6. /\ live' \in Files /\ live'.registry = live.registry
      /\ live.execs \subseteq live'.execs /\ live'.settings = live.settings
      /\ live.registry \in live'.execs
      /\ \E p \in {"bin", "schemas", "in.validate"} :
           /\ Go(s, p)
           /\ p \in {"schemas", "in.validate"} => live'.bin = live.registry
           /\ p = "in.validate" => live'.schemas = live.registry
  <2>1. CASE chmod(s)
    BY <1>1, <1>5, <2>1 DEF chmod, Files
  <2>2. CASE replace_wrapper(s)
    <3>1. live.registry \in live.execs
      BY <2>2 DEF replace_wrapper, At, IInv, Places_hold, Place, Converging
    <3>2. sess[s].pc = "schemas" => live.bin = live.registry
      BY <2>2 DEF IInv, Places_hold, Place, Converging
    <3> QED
      BY <1>1, <1>5, <2>2, <3>1, <3>2 DEF replace_wrapper, At, Files
  <2> QED
    BY <2>1, <2>2
<1>7. PICK p \in {"bin", "schemas", "in.validate"} :
        /\ Go(s, p)
        /\ p \in {"schemas", "in.validate"} => live'.bin = live.registry
        /\ p = "in.validate" => live'.schemas = live.registry
  BY <1>6
<1>8. p \in Places
  BY SomePlaces DEF Shell, Install
<1>9. ASSUME sess'[s].pc = p, Locals(s) PROVE Place(s)'
  BY <1>3, <1>4, <1>6, <1>7, <1>9
  DEF Locals, Place, Preparing, Converging, Promoting, Committing, RollingBack, Opened, Begin,
      Claude, Install, Undo, Commit, Rollback, Whole, intent, IInv, Places_hold
<1>10. pending' \in Plists /\ job' \in Plists /\ tree' \in BOOLEAN
  BY <1>1, <1>4 DEF TypeOK
<1> QED
  BY <1>2, <1>3, <1>4, <1>5, <1>6, <1>7, <1>8, <1>9, <1>10, GoWrites

LEMMA RemoveLegacyKeeps ==
  ASSUME IInv, NEW s \in Sessions, RemoveLegacy(s)
  PROVE  IInv'
<1>1. TypeOK /\ sess[s].pc = "legacy" /\ Working(s)
  BY DEF RemoveLegacy, At, Working, IInv
<1>2. ~Undecided /\ live.bin # 0
  BY <1>1 DEF IInv, Places_hold, Place, RollingBack
<1>3. UNCHANGED <<live, pending, tree, job, intent, bounds>> /\ End(s) /\ legacy' = FALSE
  BY DEF RemoveLegacy
<1>4. FilesOK'
  BY <1>1, <1>3 DEF TypeOK, FilesOK, intent, bounds
<1>5. Shape'
  BY <1>3 DEF IInv, Shape, BackupIsGood, Undecided, intent
<1>6. LegacyGoesLast'
  BY <1>2, <1>3 DEF LegacyGoesLast, Shown, Undecided, intent
<1> QED
  BY <1>1, <1>3, <1>4, <1>5, <1>6, EndMoves, Compose

-----------------------------------------------------------------------------
(* Steps that write the intent and leave the deployment alone.             *)

LEMMA GoDecides ==
  ASSUME IInv, NEW s \in Sessions, Working(s), NEW p \in Places, Go(s, p),
         UNCHANGED <<disk, job, bounds>>,
         journal' \in BOOLEAN, guard' \in {"none", "link", "committed"},
         backup' = None \/ backup' \in Backups,
         Shape', LegacyGoesLast',
         sess'[s].pc = p /\ Locals(s) => Place(s)'
  PROVE  IInv'
<1>1. TypeOK
  BY DEF IInv
<1>2. FilesOK'
  BY <1>1 DEF TypeOK, FilesOK, disk, bounds
<1> QED
  BY <1>1, <1>2, GoMoves, Compose DEF Others, Rests

LEMMA BeginKeeps ==
  ASSUME IInv, NEW s \in Sessions, begin(s) \/ BeginState(s)
  PROVE  IInv'
<1>1. TypeOK /\ sess[s].pc \in {"begin", "begin.state"} /\ Working(s)
  BY DEF begin, BeginState, At, Working, IInv
<1>2. UNCHANGED <<disk, job, journal, guard, bounds>>
  BY DEF begin, BeginState
<1>3. ~Undecided /\ sess[s].keys = "kept"
  BY <1>1 DEF IInv, Places_hold, Place, Preparing, Converging, Begin, Undecided
<1>4. CASE begin(s) /\ (journal \/ guard # "none")
  BY <1>1, <1>2, <1>4, EndMoves, Walks DEF begin, intent, bounds, TypeOK
<1>5. ASSUME ~journal, guard = "none", NEW p \in {"begin.state", "begin.journal"}, Go(s, p),
             backup' \in Backups, backup'.files = live, backup'.modes = <<>>,
             backup'.loaded = (job # None), backup'.loaded => live.plist # None,
             p = "begin.journal" => backup'.state
      PROVE  IInv'
  <2>1. p \in Places
    BY SomePlaces DEF Begin
  <2>2. Shape' /\ LegacyGoesLast'
    BY <1>2, <1>3, <1>5 DEF IInv, Shape, LegacyGoesLast, Shown, Undecided, disk
  <2>3. backup' # None
    BY <1>5, BackupAssumption
  <2>4. ASSUME sess'[s].pc = p, Locals(s) PROVE Place(s)'
    BY <1>2, <1>3, <1>5, <2>3, <2>4
    DEF Locals, Place, Preparing, Converging, Promoting, Committing, RollingBack, Opened, Begin,
        Claude, Install, Undo, Commit, Rollback, disk, IInv, Places_hold
  <2> QED
    BY <1>1, <1>2, <1>5, <2>1, <2>2, <2>4, GoDecides DEF TypeOK
<1>6. CASE begin(s) /\ ~(journal \/ guard # "none")
  <2> DEFINE b == [files |-> live, loaded |-> sess[s].loaded, state |-> FALSE, modes |-> <<>>]
  <2>1. backup' = b /\ Go(s, "begin.state")
    BY <1>6 DEF begin
  <2>2. sess[s].loaded = (job # None) /\ (sess[s].loaded => live.plist # None)
    BY <1>6 DEF begin, At, IInv, Places_hold, Place, Preparing
  <2>3. b \in Backups
    BY <1>1, <2>2 DEF Backups, TypeOK
  <2> QED
    BY <1>5, <1>6, <2>1, <2>2, <2>3
<1>7. CASE BeginState(s)
  <2>1. /\ ~journal /\ guard = "none" /\ backup # None /\ backup.files = live
        /\ backup.modes = <<>> /\ backup.loaded = (job # None)
        /\ backup.loaded => live.plist # None
    BY <1>1, <1>7 DEF BeginState, At, IInv, Places_hold, Place, Preparing
  <2>2. backup \in Backups
    BY <1>1, <2>1 DEF TypeOK
  <2>3. /\ backup' \in Backups /\ backup'.files = live /\ backup'.modes = <<>>
        /\ backup'.loaded = backup.loaded /\ backup'.state
    BY <1>7, <2>1, <2>2 DEF BeginState, Backups
  <2> QED
    BY <1>5, <1>7, <2>1, <2>3 DEF BeginState
<1> QED
  BY <1>4, <1>6, <1>7

LEMMA BeginJournalKeeps ==
  ASSUME IInv, NEW s \in Sessions, BeginJournal(s)
  PROVE  IInv'
<1>1. TypeOK /\ sess[s].pc = "begin.journal" /\ Working(s)
  BY DEF BeginJournal, At, Working, IInv
<1>2. UNCHANGED <<disk, job, guard, backup, bounds>> /\ journal' = TRUE /\ Go(s, "begin.return")
  BY DEF BeginJournal
<1>3. /\ ~journal /\ guard = "none" /\ backup # None /\ backup.files = live
      /\ backup.modes = <<>> /\ backup.state
      /\ backup.loaded = (job # None) /\ (backup.loaded => live.plist # None)
      /\ sess[s].keys = "kept"
  BY <1>1 DEF IInv, Places_hold, Place, Preparing, Converging, Begin
<1>4. ~Undecided /\ live.settings.keys = "kept" /\ (live.bin # 0 => live.bin \in live.execs)
  BY <1>3 DEF IInv, Shape, Undecided
<1>5. live.registry <= live.registry
  BY DEF IInv, TypeOK, Files, Versions
<1>6. BackupIsGood'
  BY <1>2, <1>3, <1>4, <1>5 DEF BackupIsGood, disk
<1>7. Shape' /\ LegacyGoesLast'
  BY <1>2, <1>3, <1>4, <1>6 DEF IInv, Shape, LegacyGoesLast, Shown, Undecided, disk
<1>8. "begin.return" \in Places
  BY SomePlaces DEF Begin
<1>9. ASSUME sess'[s].pc = "begin.return", Locals(s) PROVE Place(s)'
  BY <1>2, <1>3, <1>9
  DEF Locals, Place, Preparing, Converging, Promoting, Committing, RollingBack, Opened, Begin,
      Claude, Install, Undo, Commit, Rollback, IInv, Places_hold
<1> QED
  BY <1>1, <1>2, <1>7, <1>8, <1>9, GoDecides DEF TypeOK

LEMMA BeginReturnKeeps ==
  ASSUME IInv, NEW s \in Sessions, BeginReturn(s)
  PROVE  IInv'
<1>1. TypeOK /\ sess[s].pc = "begin.return" /\ Working(s)
  BY DEF BeginReturn, At, Working, IInv
<1>2. UNCHANGED <<disk, job, intent, bounds>> /\ Go(s, "claude")
  BY DEF BeginReturn
<1>3. journal /\ guard = "none" /\ sess[s].keys = "kept"
  BY <1>1 DEF IInv, Places_hold, Place, Converging, Opened, Begin
<1>4. "claude" \in Places
  BY SomePlaces DEF Claude
<1>5. ASSUME sess'[s].pc = "claude", Locals(s) PROVE Place(s)'
  BY <1>2, <1>3, <1>5
  DEF Locals, Place, Preparing, Converging, Promoting, Committing, RollingBack, Opened, Begin,
      Claude, Install, Undo, Commit, Rollback, intent, IInv, Places_hold
<1> QED
  BY <1>1, <1>2, <1>4, <1>5, GoMoves, Walks DEF Others, Rests, TypeOK, bounds

LEMMA RecordModesKeeps ==
  ASSUME IInv, NEW s \in Sessions, record_modes(s)
  PROVE  IInv'
<1>1. TypeOK /\ sess[s].pc = "modes" /\ Working(s)
  BY DEF record_modes, At, Working, IInv
<1>2. UNCHANGED <<disk, job, journal, guard, bounds>> /\ Go(s, "chmod")
  BY DEF record_modes
<1>3. /\ journal /\ guard = "none" /\ Undecided
      /\ live.settings = [keys |-> "kept", pruned |-> TRUE]
  BY <1>1 DEF IInv, Places_hold, Place, Converging, Opened, Undecided
<1>4. BackupIsGood /\ backup \in Backups
  BY <1>1, <1>3 DEF IInv, Shape, BackupIsGood, TypeOK
<1> DEFINE e == live.registry \in live.execs
           m == <<live.registry, e>>
<1>5. e \in BOOLEAN /\ e = (live.registry \in live.execs)
  OBVIOUS
<1>6. backup' = [backup EXCEPT !.modes = m]
  BY DEF record_modes
<1> HIDE DEF e
<1>7. m \in Versions \X BOOLEAN /\ m[1] = live.registry /\ m[2] = e
  BY <1>1, <1>5 DEF TypeOK, Files
<1> HIDE DEF m
<1>8. /\ backup' \in Backups /\ backup'.files = backup.files /\ backup'.state = backup.state
      /\ backup'.loaded = backup.loaded /\ backup'.modes = m
  BY <1>4, <1>7, <1>6 DEF Backups
<1>9. backup' # None
  BY <1>8, BackupAssumption
<1>10. BackupIsGood'
  BY <1>2, <1>4, <1>5, <1>7, <1>8, <1>9 DEF BackupIsGood, disk
<1>11. Shape' /\ LegacyGoesLast'
  BY <1>2, <1>3, <1>8, <1>10 DEF IInv, Shape, LegacyGoesLast, Shown, Undecided, disk
<1>12. "chmod" \in Places
  BY SomePlaces DEF Shell
<1>13. ASSUME sess'[s].pc = "chmod", Locals(s) PROVE Place(s)'
  BY <1>2, <1>3, <1>13
  DEF Locals, Place, Preparing, Converging, Promoting, Committing, RollingBack, Opened, Begin,
      Claude, Install, Undo, Commit, Rollback, disk, IInv, Places_hold
<1> QED
  BY <1>1, <1>2, <1>8, <1>11, <1>12, <1>13, GoDecides DEF TypeOK

LEMMA CommitKeeps ==
  ASSUME IInv, NEW s \in Sessions, CommitLink(s) \/ CommitUnlink(s) \/ CommitMark(s)
  PROVE  IInv'
<1>1. TypeOK /\ sess[s].pc \in {"commit", "commit.unlink", "commit.mark"} /\ Working(s)
  BY DEF CommitLink, CommitUnlink, CommitMark, At, Working, IInv
<1>2. UNCHANGED <<disk, job, backup, bounds>>
  BY DEF CommitLink, CommitUnlink, CommitMark
<1>3. Whole /\ Supervised /\ Undecided
  BY <1>1 DEF IInv, Places_hold, Place, Converging, Opened, Committing, Commit, Undecided
<1>4. BackupIsGood'
  BY <1>2, <1>3 DEF IInv, Shape, BackupIsGood, disk
<1>5. live.registry \in Versions /\ live.registry # 0
  BY <1>1 DEF TypeOK, Files, Versions
<1>6. PICK p \in {"commit.unlink", "commit.mark", "commit.return"} :
        /\ Go(s, p)
        /\ p = "commit.unlink" => journal' /\ guard' = "link"
        /\ p = "commit.mark" => ~journal' /\ guard' = "link"
        /\ p = "commit.return" => ~journal' /\ guard' = "committed"
        /\ journal' \in BOOLEAN
  <2>1. sess[s].pc = "commit.unlink" => guard = "link"
    BY DEF IInv, Places_hold, Place, Committing
  <2>2. sess[s].pc = "commit.mark" => ~journal
    BY DEF IInv, Places_hold, Place, Committing
  <2>3. CASE CommitLink(s)
    BY <1>1, <2>3 DEF CommitLink, TypeOK
  <2>4. CASE CommitUnlink(s)
    BY <2>1, <2>4 DEF CommitUnlink, At
  <2>5. CASE CommitMark(s)
    BY <1>1, <2>2, <2>5 DEF CommitMark, At, TypeOK
  <2> QED
    BY <2>3, <2>4, <2>5
<1>7. guard' \in {"none", "link", "committed"}
  BY <1>6
<1>8. Shape'
  BY <1>2, <1>3, <1>4, <1>6 DEF Shape, Undecided, Whole, disk
<1>9. LegacyGoesLast'
  BY <1>2, <1>3, <1>5, <1>6 DEF IInv, LegacyGoesLast, Shown, Undecided, Whole, disk
<1>10. p \in Places
  BY SomePlaces DEF Commit
<1>11. ASSUME sess'[s].pc = p, Locals(s) PROVE Place(s)'
  BY <1>2, <1>3, <1>6, <1>11
  DEF Locals, Place, Preparing, Converging, Promoting, Committing, RollingBack, Opened, Begin,
      Claude, Install, Undo, Commit, Rollback, Whole, Supervised, disk, IInv, Places_hold
<1> QED
  BY <1>1, <1>2, <1>6, <1>7, <1>8, <1>9, <1>10, <1>11, GoDecides DEF TypeOK

LEMMA CommitReturnKeeps ==
  ASSUME IInv, NEW s \in Sessions, CommitReturn(s)
  PROVE  IInv'
<1>1. TypeOK /\ sess[s].pc = "commit.return" /\ Working(s)
  BY DEF CommitReturn, At, Working, IInv
<1>2. UNCHANGED <<disk, job, intent, bounds>> /\ RollBack(s, "cleanup")
  BY DEF CommitReturn
<1>3. ~journal /\ guard = "committed" /\ Whole /\ live.registry # 0
  BY <1>1 DEF IInv, Places_hold, Place, Committing, Commit, TypeOK, Files, Versions
<1>4. (~Undecided /\ live.bin # 0)'
  BY <1>2, <1>3 DEF Undecided, Whole, disk, intent
<1> QED
  BY <1>1, <1>2, <1>4, RollBackMoves, AtRollback, Walks DEF Others, Rests, TypeOK, bounds

LEMMA PrepareRollbackKeeps ==
  ASSUME IInv, NEW s \in Sessions, PrepareRollback(s)
  PROVE  IInv'
<1>1. TypeOK /\ sess[s].pc = "rb.prepare" /\ Working(s)
  BY DEF PrepareRollback, At, Working, IInv
<1>2. /\ UNCHANGED <<disk, job, backup, bounds>> /\ Go(s, "rb.quiesce")
      /\ journal' = TRUE /\ guard' = "none"
  BY DEF PrepareRollback
<1>3. Undecided
  BY DEF PrepareRollback, Undecided
<1>4. Shape' /\ LegacyGoesLast'
  BY <1>2, <1>3 DEF IInv, Shape, BackupIsGood, LegacyGoesLast, Shown, Undecided, disk
<1>5. sess[s].reason # "cleanup" /\ sess[s].next = 1
  BY <1>1, <1>3 DEF IInv, Places_hold, Place, RollingBack, Rollback
<1>6. "rb.quiesce" \in Places
  BY SomePlaces DEF Rollback
<1>7. ASSUME sess'[s].pc = "rb.quiesce", Locals(s) PROVE Place(s)'
  BY <1>2, <1>5, <1>7
  DEF Locals, Place, Preparing, Converging, Promoting, Committing, RollingBack, Opened, Begin,
      Claude, Install, Undo, Commit, Rollback, disk, IInv, Places_hold
<1> QED
  BY <1>1, <1>2, <1>4, <1>6, <1>7, GoDecides DEF TypeOK

\* A session that finds the outcome decided, or has decided it.
LEMMA AtDecided ==
  ASSUME IInv, NEW s \in Sessions, sess[s].pc \in Rollback,
         sess'[s].pc \in {"rb.rmtree", "rb.return", "cl.rmtree", "cl.unlink", "cl.return",
                          "legacy", "validate"},
         Locals(s), ~Undecided',
         sess'[s].pc = "legacy" => sess[s].reason = "cleanup",
         sess[s].reason = "cleanup" => live'.bin # 0
  PROVE  Place(s)'
BY DEF Locals, Place, Preparing, Converging, Promoting, Committing, RollingBack, Opened, Begin,
      Claude, Install, Undo, Commit, Rollback, IInv, Places_hold

LEMMA FindCommittedKeeps ==
  ASSUME IInv, NEW s \in Sessions, FindCommitted(s)
  PROVE  IInv'
<1>1. TypeOK /\ sess[s].pc = "rb.prepare" /\ Working(s) /\ sess[s].pc \in Rollback
  BY DEF FindCommitted, At, Working, IInv, Rollback
<1>2. UNCHANGED <<disk, job, intent, bounds>> /\ ~Undecided
  BY DEF FindCommitted, Undecided
<1>3. ~Undecided' /\ (sess[s].reason = "cleanup" => live'.bin # 0)
  BY <1>1, <1>2 DEF Undecided, intent, disk, IInv, Places_hold, Place, RollingBack
<1>4. CASE End(s)
  BY <1>1, <1>2, <1>4, EndMoves, Walks DEF TypeOK, bounds
<1>5. CASE Go(s, "cl.rmtree")
  <2>1. "cl.rmtree" \in Places
    BY SomePlaces DEF Rollback
  <2> QED
    BY <1>1, <1>2, <1>3, <1>5, <2>1, GoMoves, AtDecided, Walks DEF Others, Rests, TypeOK, bounds
<1> QED
  BY <1>4, <1>5 DEF FindCommitted

LEMMA RollbackReturnKeeps ==
  ASSUME IInv, NEW s \in Sessions, RollbackReturn(s)
  PROVE  IInv'
<1>1. /\ TypeOK /\ sess[s].pc \in {"rb.return", "cl.return"} /\ Working(s)
      /\ sess[s].pc \in Rollback
  BY DEF RollbackReturn, At, Working, IInv, Rollback
<1>2. UNCHANGED <<disk, job, intent, bounds>>
  BY DEF RollbackReturn
<1>3. ~Undecided' /\ (sess[s].reason = "cleanup" => live'.bin # 0)
  BY <1>1, <1>2 DEF Undecided, intent, disk, IInv, Places_hold, Place, RollingBack
<1>4. CASE End(s)
  BY <1>1, <1>2, <1>4, EndMoves, Walks DEF TypeOK, bounds
<1>5. ASSUME NEW p \in {"legacy", "validate"}, Go(s, p),
             p = "legacy" => sess[s].reason = "cleanup"
      PROVE  IInv'
  <2>1. p \in Places
    BY SomePlaces DEF Shell
  <2> QED
    BY <1>1, <1>2, <1>3, <1>5, <2>1, GoMoves, AtDecided, Walks DEF Others, Rests, TypeOK, bounds
<1> QED
  BY <1>4, <1>5 DEF RollbackReturn

LEMMA QuiesceKeeps ==
  ASSUME IInv, NEW s \in Sessions, Quiesce(s)
  PROVE  IInv'
<1>1. TypeOK /\ sess[s].pc = "rb.quiesce" /\ Working(s)
  BY DEF Quiesce, At, Working, IInv
<1>2. UNCHANGED <<disk, intent, bounds>> /\ Go(s, "rb.restore") /\ job' = None
  BY DEF Quiesce
<1>3. /\ journal /\ guard = "none" /\ Undecided /\ sess[s].next = 1
      /\ sess[s].reason # "cleanup"
  BY <1>1 DEF IInv, Places_hold, Place, RollingBack, Rollback, Undecided
<1>4. "rb.restore" \in Places
  BY SomePlaces DEF Rollback
<1>5. ASSUME sess'[s].pc = "rb.restore", Locals(s) PROVE Place(s)'
  <2>1. Done(sess[s].next)'
    BY <1>3, <1>5 DEF Done, Locals
  <2>2. Preparing(s)' /\ Converging(s)' /\ Promoting(s)' /\ Committing(s)'
    BY <1>5
    DEF Locals, Place, Preparing, Converging, Promoting, Committing, Opened, Begin,
        Claude, Install, Undo, Commit, IInv, Places_hold
  <2>3. RollingBack(s)'
    BY <1>2, <1>3, <1>5, <2>1 DEF RollingBack, Rollback, Locals, intent
  <2> QED
    BY <2>2, <2>3 DEF Place
<1>6. live.registry <= live.registry /\ None \in Plists
  BY <1>1 DEF TypeOK, Files, Versions, Plists
<1> QED
  BY <1>1, <1>2, <1>3, <1>4, <1>5, <1>6, GoWrites DEF TypeOK, disk

Names == {"registry", "settings", "bin", "schemas", "execs", "plist", "marker"}

\* A restored surface is as it was backed up, and the others are as they were;
\* what the backed up wrapper needs stays executable.
LEMMA RestoredIs ==
  ASSUME live \in Files, backup \in Backups, BackupIsGood, NEW u \in Names
  PROVE  /\ Restored(u) \in Files
         /\ u # "execs" => Restored(u)[u] = backup.files[u]
         /\ \A v \in Names : v # u => Restored(u)[v] = live[v]
         /\ backup.files.registry <= Restored(u).registry
         /\ backup.files.bin # 0 => backup.files.bin \in Restored(u).execs
<1>1. backup.files \in Files /\ backup.modes \in {<<>>} \cup (Versions \X BOOLEAN)
  BY DEF Backups
<1>2. /\ backup.files.registry <= live.registry
      /\ backup.files.registry <= backup.files.registry
  BY <1>1 DEF BackupIsGood, Files, Versions
<1>3. CASE u = "execs" /\ backup.modes = <<>>
  BY <1>2, <1>3 DEF Restored, BackupIsGood
<1>4. CASE u = "execs" /\ backup.modes # <<>>
  <2>1. backup.modes[1] \in Versions
    BY <1>1, <1>4
  <2> DEFINE e == IF backup.modes[2] THEN live.execs \cup {backup.modes[1]}
                  ELSE live.execs \ {backup.modes[1]}
  <2>2. e \in SUBSET Versions
    BY <2>1 DEF Files
  <2>3. backup.files.bin # 0 => backup.files.bin \in e
    BY <1>4 DEF BackupIsGood
  <2>4. Restored(u) = [live EXCEPT !.execs = e]
    BY <1>4 DEF Restored
  <2> HIDE DEF e
  <2> QED
    BY <1>2, <1>4, <2>2, <2>3, <2>4 DEF Files, Names
<1>5. CASE u = "registry"
  BY <1>1, <1>2, <1>5 DEF Restored, BackupIsGood, Files, Names
<1>6. CASE u = "settings"
  BY <1>1, <1>2, <1>6 DEF Restored, BackupIsGood, Files, Names
<1>7. CASE u = "bin"
  BY <1>1, <1>2, <1>7 DEF Restored, BackupIsGood, Files, Names
<1>8. CASE u = "schemas"
  BY <1>1, <1>2, <1>8 DEF Restored, BackupIsGood, Files, Names
<1>9. CASE u = "plist"
  BY <1>1, <1>2, <1>9 DEF Restored, BackupIsGood, Files, Names
<1>10. CASE u = "marker"
  BY <1>1, <1>2, <1>10 DEF Restored, BackupIsGood, Files, Names
<1> QED
  BY <1>3, <1>4, <1>5, <1>6, <1>7, <1>8, <1>9, <1>10 DEF Names

LEMMA SurfacesAreNames ==
  /\ Len(Surfaces) = 7
  /\ \A i \in 1 .. Len(Surfaces) : Surfaces[i] \in Names
  /\ \A i, j \in 1 .. Len(Surfaces) : Surfaces[i] = Surfaces[j] => i = j
BY DEF Surfaces, Names

LEMMA RestoreKeeps ==
  ASSUME IInv, NEW s \in Sessions, Restore(s)
  PROVE  IInv'
<1>1. TypeOK /\ sess[s].pc = "rb.restore" /\ Working(s)
  BY DEF Restore, At, Working, IInv
<1>2. UNCHANGED <<pending, tree, legacy, job, intent, lock, bounds>>
  BY DEF Restore
<1>3. /\ journal /\ guard = "none" /\ Undecided /\ job = None
      /\ Done(sess[s].next) /\ sess[s].reason # "cleanup"
  BY <1>1 DEF IInv, Places_hold, Place, RollingBack, Rollback, Undecided
<1>4. BackupIsGood /\ backup \in Backups
  BY <1>1, <1>3 DEF IInv, Shape, BackupIsGood, TypeOK
<1>5. sess[s] \in Sess
  BY <1>1 DEF TypeOK
<1> PICK n \in 1 .. Len(Surfaces) : n = sess[s].next
  BY <1>5 DEF Sess
<1> DEFINE u == Surfaces[n]
<1>6. u \in Names /\ live' = Restored(u)
  BY <1>5, SurfacesAreNames DEF Restore
<1>7. /\ live' \in Files
      /\ u # "execs" => live'[u] = backup.files[u]
      /\ \A v \in Names : v # u => live'[v] = live[v]
      /\ backup.files.registry <= live'.registry
      /\ backup.files.bin # 0 => backup.files.bin \in live'.execs
  BY <1>1, <1>4, <1>6, RestoredIs DEF TypeOK
<1>8. BackupIsGood'
  BY <1>2, <1>4, <1>7 DEF BackupIsGood, intent
<1>9. Done(n + 1)'
  <2>1. SUFFICES ASSUME NEW i \in 1 .. Len(Surfaces), i < n + 1 PROVE Same(Surfaces[i])'
    BY DEF Done
  <2>2. CASE i = n
    BY <1>2, <1>7, <2>2 DEF Same, intent
  <2>3. CASE i # n
    <3>1. i < n
      BY <1>5, <2>1, <2>3, SurfacesAreNames
    <3>2. Same(Surfaces[i]) /\ Surfaces[i] \in Names /\ Surfaces[i] # u
      BY <1>3, <1>5, <2>3, <3>1, SurfacesAreNames DEF Done
    <3> QED
      BY <1>2, <1>7, <3>2 DEF Same, intent
  <2> QED
    BY <2>2, <2>3
<1>10. Shape' /\ LegacyGoesLast'
  BY <1>2, <1>3, <1>8 DEF IInv, Shape, LegacyGoesLast, Shown, Undecided, intent
<1>11. FilesOK'
  BY <1>1, <1>2, <1>7 DEF TypeOK, FilesOK, intent, bounds
<1>12. \E r \in Sess :
         /\ sess' = [sess EXCEPT ![s] = r]
         /\ r.kind = sess[s].kind /\ r.waker = sess[s].waker /\ r.reason = sess[s].reason
         /\ \/ r.pc = "rb.runtime" /\ n = Len(Surfaces)
            \/ r.pc = "rb.restore" /\ r.next = n + 1
  <2>1. CASE n = Len(Surfaces)
    <3>1. "rb.runtime" \in Places
      BY SomePlaces DEF Rollback
    <3>2. sess' = [sess EXCEPT ![s] = [sess[s] EXCEPT !.pc = "rb.runtime"]]
      BY <1>1, <2>1 DEF Restore, TypeOK
    <3> QED
      BY <1>5, <2>1, <3>1, <3>2, Fields
  <2>2. CASE n # Len(Surfaces)
    <3>1. n + 1 \in 1 .. Len(Surfaces)
      BY <1>5, <2>2, SurfacesAreNames
    <3>2. sess' = [sess EXCEPT ![s] = [sess[s] EXCEPT !.next = n + 1]]
      BY <1>1, <2>2 DEF Restore, TypeOK
    <3> DEFINE r == [sess[s] EXCEPT !.next = n + 1]
    <3>3. /\ r \in Sess /\ r.kind = sess[s].kind /\ r.waker = sess[s].waker
          /\ r.reason = sess[s].reason /\ r.pc = sess[s].pc /\ r.next = n + 1
      BY <1>5, <3>1 DEF Sess
    <3> QED
      BY <1>1, <3>2, <3>3
  <2> QED
    BY <2>1, <2>2
<1>13. PICK r \in Sess :
         /\ sess' = [sess EXCEPT ![s] = r]
         /\ r.kind = sess[s].kind /\ r.waker = sess[s].waker /\ r.reason = sess[s].reason
         /\ \/ r.pc = "rb.runtime" /\ n = Len(Surfaces)
            \/ r.pc = "rb.restore" /\ r.next = n + 1
  BY <1>12
<1>14. Others(s) /\ sess'[s] = r
  BY <1>1, <1>13 DEF Others, TypeOK
<1>15. Place(s)'
  <2>1. Preparing(s)' /\ Converging(s)' /\ Promoting(s)' /\ Committing(s)'
    BY <1>13, <1>14
    DEF Place, Preparing, Converging, Promoting, Committing, Opened, Begin,
        Claude, Install, Undo, Commit, IInv, Places_hold
  <2>2. r.pc = "rb.runtime" => Done(Len(Surfaces) + 1)'
    BY <1>9, <1>13
  <2>3. r.pc = "rb.restore" => Done(r.next)'
    BY <1>9, <1>13
  <2>4. Done(sess[s].next)' <=> Done(r.next)'
    BY <1>14 DEF Done
  <2>5. RollingBack(s)'
    BY <1>2, <1>3, <1>13, <1>14, <2>2, <2>3, <2>4 DEF RollingBack, Rollback, intent
  <2> QED
    BY <2>1, <2>5 DEF Place
<1> QED
  BY <1>1, <1>2, <1>10, <1>11, <1>14, <1>15, Compose DEF Others

LEMMA RestoreRuntimeKeeps ==
  ASSUME IInv, NEW s \in Sessions, RestoreRuntime(s)
  PROVE  IInv'
<1>1. TypeOK /\ sess[s].pc = "rb.runtime" /\ Working(s) /\ live \in Files
  BY DEF RestoreRuntime, At, Working, IInv, TypeOK
<1>2. /\ UNCHANGED <<disk, intent, bounds>> /\ Go(s, "rb.unlink")
      /\ job' = IF ~backup.loaded THEN None ELSE IF live.plist # None THEN live.plist ELSE job
  BY DEF RestoreRuntime
<1>3. /\ journal /\ guard = "none" /\ Undecided /\ Done(Len(Surfaces) + 1)
      /\ sess[s].reason # "cleanup"
  BY <1>1 DEF IInv, Places_hold, Place, RollingBack, Rollback, Undecided
<1>4. BackupIsGood
  BY <1>3 DEF IInv, Shape
<1>5. live.plist = backup.files.plist
  <2>1. 7 \in 1 .. Len(Surfaces) /\ 7 < Len(Surfaces) + 1 /\ Surfaces[7] = "plist"
    BY DEF Surfaces
  <2> QED
    BY <1>3, <2>1 DEF Done, Same
<1>6. backup.loaded = (job' # None)
  <2>1. backup \in Backups
    BY <1>1, <1>4 DEF TypeOK, BackupIsGood
  <2>2. backup.loaded \in BOOLEAN
    BY <2>1 DEF Backups
  <2> QED
    BY <1>2, <1>4, <1>5, <2>2 DEF BackupIsGood
<1>7. "rb.unlink" \in Places
  BY SomePlaces DEF Rollback
<1>8. Done(Len(Surfaces) + 1)'
  BY <1>2, <1>3 DEF Done, Same, disk, intent
<1>9. ASSUME sess'[s].pc = "rb.unlink", Locals(s) PROVE Place(s)'
  <2>1. Preparing(s)' /\ Converging(s)' /\ Promoting(s)' /\ Committing(s)'
    BY <1>9
    DEF Locals, Place, Preparing, Converging, Promoting, Committing, Opened, Begin,
        Claude, Install, Undo, Commit, IInv, Places_hold
  <2>2. RollingBack(s)'
    BY <1>2, <1>3, <1>6, <1>8, <1>9 DEF RollingBack, Rollback, Locals, intent
  <2> QED
    BY <2>1, <2>2 DEF Place
<1>10. live.registry <= live.registry /\ job' \in Plists
  BY <1>1, <1>2 DEF TypeOK, Files, Versions, Plists
<1> QED
  BY <1>1, <1>2, <1>3, <1>7, <1>9, <1>10, GoWrites DEF TypeOK, disk

\* With every surface restored, what an observer sees is what lies there.
LEMMA UnlinkJournalKeeps ==
  ASSUME IInv, NEW s \in Sessions, UnlinkJournal(s)
  PROVE  IInv'
<1>1. /\ TypeOK /\ sess[s].pc = "rb.unlink" /\ Working(s) /\ sess[s].pc \in Rollback
  BY DEF UnlinkJournal, At, Working, IInv, Rollback
<1>2. UNCHANGED <<disk, job, guard, backup, bounds>> /\ journal' = FALSE /\ Go(s, "rb.rmtree")
  BY DEF UnlinkJournal
<1>3. /\ journal /\ guard = "none" /\ Undecided /\ Done(Len(Surfaces) + 1)
      /\ sess[s].reason # "cleanup"
  BY <1>1 DEF IInv, Places_hold, Place, RollingBack, Rollback, Undecided
<1>4. BackupIsGood
  BY <1>3 DEF IInv, Shape
<1>5. live.settings = backup.files.settings /\ live.bin = backup.files.bin
  <2>1. \A i \in 1 .. 7 : i \in 1 .. Len(Surfaces) /\ i < Len(Surfaces) + 1
    BY DEF Surfaces
  <2>2. Surfaces[1] = "settings" /\ Surfaces[3] = "bin"
    BY DEF Surfaces
  <2>3. Same(Surfaces[1]) /\ Same(Surfaces[3])
    BY <1>3, <2>1 DEF Done
  <2> QED
    BY <2>2, <2>3 DEF Same
<1>6. ~Undecided'
  BY <1>2, <1>3 DEF Undecided
<1>7. Shape'
  BY <1>2, <1>4, <1>5, <1>6 DEF Shape, BackupIsGood, disk
<1>8. LegacyGoesLast'
  BY <1>2, <1>3, <1>5, <1>6 DEF IInv, LegacyGoesLast, Shown, disk
<1>9. "rb.rmtree" \in Places
  BY SomePlaces DEF Rollback
<1>10. ASSUME sess'[s].pc = "rb.rmtree", Locals(s) PROVE Place(s)'
  BY <1>1, <1>3, <1>6, <1>10, AtDecided
<1> QED
  BY <1>1, <1>2, <1>7, <1>8, <1>9, <1>10, GoDecides DEF TypeOK

LEMMA CleanupKeeps ==
  ASSUME IInv, NEW s \in Sessions, RemoveBackup(s) \/ UnlinkGuard(s)
  PROVE  IInv'
<1>1. /\ TypeOK /\ sess[s].pc \in {"rb.rmtree", "cl.rmtree", "cl.unlink"} /\ Working(s)
      /\ sess[s].pc \in Rollback
  BY DEF RemoveBackup, UnlinkGuard, At, Working, IInv, Rollback
<1>2. /\ UNCHANGED <<disk, job, journal, bounds>>
      /\ guard' \in {guard, "none"} /\ backup' \in {backup, None}
  BY DEF RemoveBackup, UnlinkGuard
<1>3. ~Undecided /\ (sess[s].reason = "cleanup" => live.bin # 0)
  BY <1>1 DEF IInv, Places_hold, Place, RollingBack
<1>4. /\ ~Undecided' /\ guard' \in {"none", "link", "committed"}
      /\ backup' = None \/ backup' \in Backups
      /\ guard' = "committed" => guard = "committed"
  BY <1>1, <1>2, <1>3 DEF Undecided, RemoveBackup, UnlinkGuard, TypeOK
<1>5. Shape' /\ LegacyGoesLast'
  BY <1>2, <1>3, <1>4 DEF IInv, Shape, LegacyGoesLast, Shown, disk
<1>6. PICK p \in {"rb.return", "cl.unlink", "cl.return"} : Go(s, p)
  BY DEF RemoveBackup, UnlinkGuard
<1>7. p \in Places
  BY SomePlaces DEF Rollback
<1>8. ASSUME sess'[s].pc = p, Locals(s) PROVE Place(s)'
  BY <1>1, <1>2, <1>3, <1>4, <1>6, <1>8, AtDecided DEF disk
<1> QED
  BY <1>1, <1>2, <1>4, <1>5, <1>6, <1>7, <1>8, GoDecides DEF TypeOK

-----------------------------------------------------------------------------
(* The installer.                                                          *)

\* What the installer leaves alone.
Kept(new) ==
  /\ new \in Files
  /\ new.registry = live.registry /\ new.settings = live.settings
  /\ new.bin = live.bin /\ new.schemas = live.schemas /\ new.execs = live.execs

LEMMA PlistAndMarker ==
  ASSUME live \in Files
  PROVE  /\ Kept(live)
         /\ \A p \in Plists :
              Kept([live EXCEPT !.plist = p]) /\ [live EXCEPT !.plist = p].plist = p
         /\ \A m \in BOOLEAN :
              /\ Kept([live EXCEPT !.marker = m]) /\ [live EXCEPT !.marker = m].marker = m
              /\ [live EXCEPT !.marker = m].plist = live.plist
BY DEF Kept, Files

LEMMA InstallerWrites ==
  ASSUME IInv, NEW s \in Sessions, Working(s), UNCHANGED <<intent, bounds, legacy>>,
         Kept(live'), pending' \in Plists, job' \in Plists, tree' \in BOOLEAN,
         Others(s), Rests(s) \/ (Place(s)' /\ lock' = lock)
  PROVE  IInv'
<1>1. live.registry \in Nat
  BY DEF IInv, TypeOK, Files, Versions
<1> QED
  BY <1>1, Writes DEF Kept, IInv, Shape

LEMMA AtInstall ==
  ASSUME IInv, NEW s \in Sessions, sess[s].pc \in Install, UNCHANGED intent, Kept(live'),
         sess'[s].pc \in Install, sess'[s].kind = sess[s].kind, Promoting(s)'
  PROVE  Place(s)'
<1>1. sess'[s].kind = "update" => journal /\ guard = "none" /\ Whole
  BY DEF IInv, Places_hold, Place, Converging
<1>2. sess'[s].kind = "update" => (journal /\ guard = "none" /\ Whole)'
  BY <1>1 DEF Kept, Whole, intent
<1> QED
  BY <1>2
  DEF Place, Preparing, Converging, Committing, RollingBack, Opened, Begin, Claude, Install,
      Undo, Commit, Rollback

LEMMA AtUndo ==
  ASSUME IInv, NEW s \in Sessions, sess[s].pc \in Install \cup Undo, UNCHANGED intent,
         sess'[s].pc \in Undo, sess'[s].kind = sess[s].kind, sess'[s].waker = sess[s].waker
  PROVE  Place(s)'
<1>1. sess'[s].kind = "update" => journal' /\ guard' = "none"
  BY DEF IInv, Places_hold, Place, Converging, intent
<1> QED
  BY <1>1
  DEF Place, Preparing, Converging, Promoting, Committing, RollingBack, Opened, Begin, Claude,
      Install, Undo, Commit, Rollback, IInv, Places_hold

LEMMA InstallFailsMoves ==
  ASSUME IInv, NEW s \in Sessions, InstallFails(s)
  PROVE  Others(s) /\ (Rests(s) \/ (Place(s)' /\ lock' = lock))
<1>1. TypeOK
  BY DEF IInv
<1>2. CASE End(s)
  BY <1>1, <1>2, EndMoves DEF Others, Rests
<1>3. CASE RollBack(s, "failure")
  BY <1>1, <1>3, RollBackMoves, AtRollback
<1> QED
  BY <1>2, <1>3 DEF InstallFails

LEMMA ValidateStateKeeps ==
  ASSUME IInv, NEW s \in Sessions, ValidateState(s)
  PROVE  IInv'
<1>1. TypeOK /\ sess[s].pc = "in.validate" /\ Working(s) /\ sess[s].pc \in Install
  BY DEF ValidateState, At, Working, IInv, Install
<1>2. UNCHANGED <<disk, job, intent, bounds>> /\ Go(s, "in.snapshot") /\ Kept(live')
  BY <1>1, PlistAndMarker DEF ValidateState, TypeOK, disk
<1>3. "in.snapshot" \in Places /\ "in.snapshot" \in Install
  BY SomePlaces DEF Install
<1>4. ASSUME sess'[s].pc = "in.snapshot", Locals(s) PROVE Place(s)'
  <2>1. Promoting(s)'
    BY <1>4 DEF Promoting, Locals, IInv, Places_hold, Place
  <2> QED
    BY <1>1, <1>2, <1>3, <1>4, <2>1, AtInstall DEF Locals, intent
<1> QED
  BY <1>1, <1>2, <1>3, <1>4, GoMoves, Walks DEF Others, Rests, TypeOK, bounds

LEMMA SnapshotKeeps ==
  ASSUME IInv, NEW s \in Sessions, Snapshot(s)
  PROVE  IInv'
<1>1. TypeOK /\ sess[s].pc = "in.snapshot" /\ Working(s) /\ sess[s].pc \in Install
  BY DEF Snapshot, At, Working, IInv, Install
<1>2. UNCHANGED <<disk, job, intent, bounds>> /\ Kept(live')
  BY <1>1, PlistAndMarker DEF Snapshot, TypeOK, disk
<1>3. errands' \in 0 .. MaxErrands /\ faults' \in 0 .. MaxFaults
  BY <1>1, <1>2 DEF TypeOK, bounds
<1>4. CASE job # None /\ live.plist = None
  BY <1>1, <1>2, <1>3, <1>4, InstallFailsMoves, Walks DEF Snapshot, Others, Rests
<1>5. CASE ~(job # None /\ live.plist = None)
  <2> DEFINE f == IF sess[s].kind = "install" THEN <<live, job>> ELSE sess[s].found
             r == [sess[s] EXCEPT !.pc = "in.quiesce", !.plist = live.plist,
                     !.marker = live.marker, !.was = (job # None), !.found = f]
  <2>1. /\ sess[s] \in Sess /\ "in.quiesce" \in Places /\ live.plist \in Plists
        /\ live.marker \in BOOLEAN
    BY <1>1, SomePlaces DEF TypeOK, Files, Install
  <2>2. f \in {<<>>} \cup (Files \X Plists)
    BY <1>1, <2>1 DEF TypeOK, Sess
  <2>3. Proceed(s, r)
    BY <1>5, <2>1 DEF Snapshot, Sess
  <2> HIDE DEF f
  <2>4. r \in Sess /\ r.pc = "in.quiesce" /\ r.kind = sess[s].kind /\ r.waker = sess[s].waker
    BY <2>1, <2>2 DEF Sess
  <2> HIDE DEF r
  <2>5. Others(s) /\ (Rests(s) \/ (sess'[s] = r /\ lock' = lock))
    BY <1>1, <2>3, <2>4, ProceedMoves DEF Others, Rests
  <2>6. ASSUME sess'[s] = r PROVE Place(s)'
    <3>1. Promoting(s)' /\ sess'[s].pc \in Install
      BY <2>4, <2>6 DEF Promoting, IInv, Places_hold, Place, Install
    <3> QED
      BY <1>1, <1>2, <2>4, <2>6, <3>1, AtInstall
  <2> QED
    BY <1>1, <1>2, <1>3, <2>5, <2>6, Walks DEF Others, Rests
<1> QED
  BY <1>4, <1>5

\* Whether another job may run, and the candidate with it, is settled before the
\* file is promoted.
LEMMA QuiesceFirstKeeps ==
  ASSUME IInv, NEW s \in Sessions, QuiesceFirst(s) \/ Probe(s)
  PROVE  IInv'
<1>1. /\ TypeOK /\ sess[s].pc \in {"in.quiesce", "in.probe"} /\ Working(s)
      /\ sess[s].pc \in Install
  BY DEF QuiesceFirst, Probe, At, Working, IInv, Install
<1>2. UNCHANGED <<disk, intent, bounds>> /\ Kept(live')
  BY <1>1, PlistAndMarker DEF QuiesceFirst, Probe, TypeOK, disk
<1>3. sess[s].pc = "in.probe" => pending = sess[s].waker
  BY DEF IInv, Places_hold, Place, Promoting
<1>4. job' \in Plists
  BY <1>1 DEF QuiesceFirst, Probe, TypeOK, Plists
<1>5. PICK p \in {"in.migrate", "in.promote"}, q \in BOOLEAN :
        /\ Proceed(s, [sess[s] EXCEPT !.pc = p, !.quiet = q])
        /\ p = "in.promote" => pending = sess[s].waker /\ (~q => job' = sess[s].waker)
  <2>1. CASE QuiesceFirst(s)
    BY <1>1, <2>1 DEF QuiesceFirst, TypeOK
  <2>2. CASE Probe(s)
    <3>1. sess[s].pc = "in.probe" /\ (job # None) \in BOOLEAN
      BY <2>2 DEF Probe, At
    <3> QED
      BY <1>3, <2>2, <3>1 DEF Probe
  <2> QED
    BY <2>1, <2>2
<1> DEFINE r == [sess[s] EXCEPT !.pc = p, !.quiet = q]
<1>6. sess[s] \in Sess /\ p \in Places /\ p \in Install
  BY <1>1, SomePlaces DEF TypeOK, Install
<1>7. /\ r \in Sess /\ r.pc = p /\ r.kind = sess[s].kind /\ r.waker = sess[s].waker
      /\ r.quiet = q
  BY <1>6 DEF Sess
<1>8. Proceed(s, r)
  BY <1>5
<1> HIDE DEF r
<1>9. Others(s) /\ (Rests(s) \/ (sess'[s] = r /\ lock' = lock))
  BY <1>1, <1>7, <1>8, ProceedMoves DEF Others, Rests
<1>10. ASSUME sess'[s] = r PROVE Place(s)'
  <2>1. Promoting(s)'
    BY <1>2, <1>5, <1>7, <1>10 DEF Promoting, IInv, Places_hold, Place, disk
  <2> QED
    BY <1>1, <1>2, <1>6, <1>7, <1>10, <2>1, AtInstall
<1> QED
  BY <1>1, <1>2, <1>4, <1>9, <1>10, InstallerWrites DEF disk, TypeOK

LEMMA MigrateKeeps ==
  ASSUME IInv, NEW s \in Sessions, Migrate(s) \/ write_plist(s)
  PROVE  IInv'
<1>1. /\ TypeOK /\ sess[s].pc \in {"in.migrate", "in.pending"} /\ Working(s)
      /\ sess[s].pc \in Install /\ sess[s] \in Sess
  BY DEF Migrate, write_plist, At, Working, IInv, Install, TypeOK
<1>2. UNCHANGED <<live, legacy, job, intent, bounds>> /\ Kept(live')
  BY <1>1, PlistAndMarker DEF Migrate, write_plist, TypeOK
<1>3. pending' \in Plists /\ tree' \in BOOLEAN
  BY <1>1 DEF Migrate, write_plist, TypeOK, Plists, Sess
<1>4. PICK p \in {"in.pending", "in.probe", "in.promote"} :
        /\ Go(s, p)
        /\ p # "in.pending" => pending' = sess[s].waker
        /\ p = "in.promote" => sess[s].quiet
  BY DEF Migrate, write_plist
<1>5. p \in Places /\ p \in Install
  BY SomePlaces DEF Install
<1>6. ASSUME sess'[s].pc = p, Locals(s) PROVE Place(s)'
  <2>1. Promoting(s)'
    BY <1>4, <1>6 DEF Promoting, Locals, IInv, Places_hold, Place
  <2> QED
    BY <1>1, <1>2, <1>5, <1>6, <2>1, AtInstall DEF Locals
<1> QED
  BY <1>1, <1>2, <1>3, <1>4, <1>5, <1>6, GoMoves, InstallerWrites DEF TypeOK

LEMMA PromoteKeeps ==
  ASSUME IInv, NEW s \in Sessions, promote(s) \/ Bootstrap(s) \/ WriteMarker(s)
  PROVE  IInv'
<1>1. /\ TypeOK /\ sess[s].pc \in {"in.promote", "in.bootstrap", "in.marker"} /\ Working(s)
      /\ sess[s].pc \in Install /\ live \in Files
  BY DEF promote, Bootstrap, WriteMarker, At, Working, IInv, Install, TypeOK
<1>2. UNCHANGED <<tree, legacy, intent, bounds>>
  BY DEF promote, Bootstrap, WriteMarker, disk
<1>3. /\ sess[s].pc = "in.promote" =>
           pending = sess[s].waker /\ (~sess[s].quiet => job = sess[s].waker)
      /\ sess[s].pc \in {"in.bootstrap", "in.marker"} => live.plist = sess[s].waker
      /\ sess[s].pc = "in.marker" => job = sess[s].waker
  BY DEF IInv, Places_hold, Place, Promoting
<1>4. /\ Kept(live') /\ pending' \in Plists /\ job' \in Plists
      /\ live'.plist = sess[s].waker
      /\ \E p \in {"in.bootstrap", "in.marker", "in.return"} :
           /\ Go(s, p)
           /\ p \in {"in.marker", "in.return"} => job' = sess[s].waker
           /\ p = "in.return" => live'.marker
  <2>1. CASE promote(s)
    <3>1. pending \in Plists /\ None \in Plists
      BY <1>1 DEF TypeOK, Plists
    <3>2. /\ live' = [live EXCEPT !.plist = pending] /\ pending' = None /\ job' = job
          /\ sess[s].pc = "in.promote"
          /\ Go(s, IF sess[s].quiet THEN "in.bootstrap" ELSE "in.marker")
      BY <2>1 DEF promote, At
    <3> QED
      BY <1>1, <1>3, <3>1, <3>2, PlistAndMarker DEF TypeOK
  <2>2. CASE Bootstrap(s)
    BY <1>1, <1>3, <2>2, PlistAndMarker DEF Bootstrap, At, disk, TypeOK, Files
  <2>3. CASE WriteMarker(s)
    <3>1. /\ live' = [live EXCEPT !.marker = TRUE] /\ UNCHANGED <<pending, job>>
          /\ sess[s].pc = "in.marker" /\ Go(s, "in.return")
      BY <2>3 DEF WriteMarker, At
    <3> QED
      BY <1>1, <1>3, <3>1, PlistAndMarker DEF TypeOK
  <2> QED
    BY <2>1, <2>2, <2>3
<1>5. PICK p \in {"in.bootstrap", "in.marker", "in.return"} :
        /\ Go(s, p)
        /\ p \in {"in.marker", "in.return"} => job' = sess[s].waker
        /\ p = "in.return" => live'.marker
  BY <1>4
<1>6. p \in Places /\ p \in Install
  BY SomePlaces DEF Install
<1>7. ASSUME sess'[s].pc = p, Locals(s) PROVE Place(s)'
  <2>1. Promoting(s)'
    BY <1>4, <1>5, <1>7 DEF Promoting, Locals, IInv, Places_hold, Place
  <2> QED
    BY <1>1, <1>2, <1>4, <1>6, <1>7, <2>1, AtInstall DEF Locals
<1> QED
  BY <1>1, <1>2, <1>4, <1>5, <1>6, <1>7, GoMoves, InstallerWrites DEF TypeOK

\* An update goes on to its commit with everything in place.
LEMMA InstallReturnKeeps ==
  ASSUME IInv, NEW s \in Sessions, InstallReturn(s)
  PROVE  IInv'
<1>1. TypeOK /\ sess[s].pc = "in.return" /\ Working(s)
  BY DEF InstallReturn, At, Working, IInv
<1>2. UNCHANGED <<disk, job, intent, bounds>>
  BY DEF InstallReturn
<1>3. CASE sess[s].kind # "update" /\ End(s)
  BY <1>1, <1>2, <1>3, EndMoves, Walks DEF TypeOK, bounds
<1>4. CASE sess[s].kind = "update" /\ Go(s, "commit")
  <2>1. journal /\ guard = "none" /\ Whole
    BY <1>1, <1>4 DEF IInv, Places_hold, Place, Converging, Install
  <2>2. Supervised
    BY <1>1, <1>4 DEF IInv, Places_hold, Place, Promoting, Supervised
  <2>3. "commit" \in Places
    BY SomePlaces DEF Commit
  <2>4. (journal /\ guard = "none" /\ Whole /\ Supervised)'
    BY <1>2, <2>1, <2>2 DEF Whole, Supervised, disk, intent
  <2>5. ASSUME sess'[s].pc = "commit", Locals(s) PROVE Place(s)'
    BY <2>4, <2>5
    DEF Locals, Place, Preparing, Converging, Promoting, Committing, RollingBack, Opened, Begin,
        Claude, Install, Undo, Commit, Rollback, IInv, Places_hold
  <2> QED
    BY <1>1, <1>2, <1>4, <2>3, <2>5, GoMoves, Walks DEF Others, Rests, TypeOK, bounds
<1> QED
  BY <1>3, <1>4 DEF InstallReturn

LEMMA UndoKeeps ==
  ASSUME IInv, NEW s \in Sessions, UndoBootout(s) \/ UndoPlist(s) \/ UndoMarker(s)
  PROVE  IInv'
<1>1. /\ TypeOK /\ Working(s) /\ sess[s].pc \in Install \cup Undo /\ live \in Files
      /\ sess[s].plist \in Plists /\ sess[s].marker \in BOOLEAN
  BY DEF UndoBootout, UndoPlist, UndoMarker, At, Working, IInv, Undo, TypeOK, Sess
<1>2. /\ UNCHANGED <<tree, legacy, intent, bounds>>
      /\ Kept(live') /\ pending' \in Plists /\ job' \in Plists
  BY <1>1, PlistAndMarker DEF UndoBootout, UndoPlist, UndoMarker, TypeOK, disk, Plists
<1>3. PICK p \in {"un.plist", "un.marker", "un.bootstrap"} : Go(s, p)
  BY DEF UndoBootout, UndoPlist, UndoMarker
<1>4. p \in Places /\ p \in Undo
  BY SomePlaces DEF Undo
<1>5. ASSUME sess'[s].pc = p, Locals(s) PROVE Place(s)'
  BY <1>1, <1>2, <1>4, <1>5, AtUndo DEF Locals
<1> QED
  BY <1>1, <1>2, <1>3, <1>4, <1>5, GoMoves, InstallerWrites DEF TypeOK

LEMMA UndoBootstrapKeeps ==
  ASSUME IInv, NEW s \in Sessions, UndoBootstrap(s)
  PROVE  IInv'
<1>1. /\ TypeOK /\ Working(s) /\ live \in Files /\ live.plist \in Plists
  BY DEF UndoBootstrap, At, Working, IInv, TypeOK, Files
<1>2. /\ UNCHANGED <<disk, intent, bounds>> /\ InstallFails(s) /\ job' \in Plists
      /\ Kept(live')
  BY <1>1, PlistAndMarker DEF UndoBootstrap, TypeOK, disk
<1> QED
  BY <1>1, <1>2, InstallFailsMoves, InstallerWrites DEF TypeOK, disk

LEMMA UninstallingKeeps ==
  ASSUME IInv, NEW s \in Sessions, Uninstalling(s)
  PROVE  IInv'
<1>1. TypeOK /\ Working(s) /\ live \in Files /\ None \in Plists
  BY DEF Uninstalling, At, Working, IInv, TypeOK, Plists
<1>2. /\ UNCHANGED <<tree, legacy, intent, bounds>>
      /\ Kept(live') /\ pending' \in Plists /\ job' \in Plists
  BY <1>1, PlistAndMarker DEF Uninstalling, TypeOK
<1>3. CASE End(s)
  BY <1>1, <1>2, <1>3, EndMoves, InstallerWrites DEF Others, Rests, TypeOK
<1>4. ASSUME NEW p \in {"off.plist", "off.marker"}, Go(s, p) PROVE IInv'
  <2>1. p \in Places
    BY SomePlaces DEF Uninstall
  <2>2. ASSUME sess'[s].pc = p, Locals(s) PROVE Place(s)'
    BY <2>2
    DEF Locals, Place, Preparing, Converging, Promoting, Committing, RollingBack, Opened, Begin,
        Claude, Install, Undo, Commit, Rollback, IInv, Places_hold
  <2> QED
    BY <1>1, <1>2, <1>4, <2>1, <2>2, GoMoves, InstallerWrites DEF TypeOK
<1> QED
  BY <1>3, <1>4 DEF Uninstalling

-----------------------------------------------------------------------------
(* Faults, and the invariant as a whole.                                   *)

LEMMA StepFailsKeeps ==
  ASSUME IInv, NEW s \in Sessions, StepFails(s)
  PROVE  IInv'
<1>1. /\ TypeOK /\ Working(s) /\ UNCHANGED <<disk, job, intent>> /\ Kept(live')
      /\ errands' \in 0 .. MaxErrands /\ faults' \in 0 .. MaxFaults
  BY PlistAndMarker, CutoverAssumption DEF StepFails, Fault, IInv, TypeOK, disk
<1>2. CASE End(s)
  BY <1>1, <1>2, EndMoves, Walks
<1>3. CASE RollBack(s, "failure")
  BY <1>1, <1>3, RollBackMoves, AtRollback, Walks DEF Others, Rests
<1>4. CASE InstallFails(s)
  BY <1>1, <1>4, InstallFailsMoves, Walks DEF Others, Rests
<1>5. CASE sess[s].pc \in Armed /\ Go(s, "un.bootout")
  <2>1. "un.bootout" \in Places /\ "un.bootout" \in Undo /\ sess[s].pc \in Install \cup Undo
    BY <1>5, SomePlaces DEF Undo, Armed
  <2>2. ASSUME sess'[s].pc = "un.bootout", Locals(s) PROVE Place(s)'
    BY <1>1, <2>1, <2>2, AtUndo DEF Locals
  <2> QED
    BY <1>1, <1>5, <2>1, <2>2, GoMoves, Walks DEF Others, Rests
<1>6. CASE sess[s].pc \in Rollback /\ sess[s].reason = "cleanup" /\ Go(s, "legacy")
  <2>1. ~Undecided' /\ live'.bin # 0
    BY <1>1, <1>6 DEF IInv, Places_hold, Place, RollingBack, Undecided, disk, intent
  <2>2. "legacy" \in Places
    BY SomePlaces DEF Shell
  <2>3. ASSUME sess'[s].pc = "legacy", Locals(s) PROVE Place(s)'
    BY <1>6, <2>1, <2>3, AtDecided
  <2> QED
    BY <1>1, <1>6, <2>2, <2>3, GoMoves, Walks DEF Others, Rests
<1> QED
  BY <1>2, <1>3, <1>4, <1>5, <1>6 DEF StepFails

LEMMA KilledKeeps ==
  ASSUME IInv, NEW s \in Sessions, Killed(s)
  PROVE  IInv'
<1>1. /\ TypeOK /\ Working(s) /\ UNCHANGED <<disk, job, intent>>
      /\ errands' \in 0 .. MaxErrands /\ faults' \in 0 .. MaxFaults
  BY CutoverAssumption DEF Killed, Fault, IInv, TypeOK
<1>2. CASE End(s)
  BY <1>1, <1>2, EndMoves, Walks
<1>3. CASE sess' = [sess EXCEPT ![s].orphan = TRUE] /\ UNCHANGED lock
  <2> DEFINE r == [sess[s] EXCEPT !.orphan = TRUE]
  <2>1. sess[s] \in Sess
    BY <1>1 DEF TypeOK
  <2>2. /\ r \in Sess /\ r.pc = sess[s].pc /\ r.kind = sess[s].kind
        /\ r.waker = sess[s].waker /\ r.reason = sess[s].reason /\ r.keys = sess[s].keys
        /\ r.loaded = sess[s].loaded /\ r.next = sess[s].next /\ r.quiet = sess[s].quiet
    BY <2>1 DEF Sess
  <2>3. sess' = [sess EXCEPT ![s] = r]
    BY <1>1, <1>3 DEF TypeOK
  <2> HIDE DEF r
  <2>4. Others(s) /\ sess'[s].pc = sess[s].pc /\ Locals(s)
    BY <1>1, <2>2, <2>3 DEF Others, Locals, TypeOK
  <2>5. Done(sess[s].next)' = Done(sess[s].next)
    BY <1>1, <2>4 DEF Done, Same, Locals, disk, intent
  <2>6. Done(Len(Surfaces) + 1)' = Done(Len(Surfaces) + 1)
    BY <1>1 DEF Done, Same, disk, intent
  <2>7. Place(s)'
    <3>1. Place(s)
      BY DEF IInv, Places_hold
    <3>2. Preparing(s)' /\ Converging(s)' /\ Promoting(s)' /\ Committing(s)'
      BY <1>1, <2>4, <3>1
      DEF Locals, Place, Preparing, Converging, Promoting, Committing, Whole, Supervised,
          Undecided, disk, intent
    <3>3. RollingBack(s)'
      BY <1>1, <2>4, <2>5, <2>6, <3>1
      DEF Locals, Place, RollingBack, Undecided, disk, intent
    <3> QED
      BY <3>2, <3>3 DEF Place
  <2> QED
    BY <1>1, <1>3, <2>4, <2>7, Walks DEF Others
<1> QED
  BY <1>2, <1>3 DEF Killed

\* Every start of a cutover, and of nothing, is as the invariant says.
LEMMA InitIInv == Init => IInv
<1> SUFFICES ASSUME Init PROVE IInv
  OBVIOUS
<1>1. 1 \in Versions /\ 1 \in 0 .. MaxVersion /\ 0 \in 0 .. MaxVersion
  BY CutoverAssumption DEF Versions
<1>2. /\ [keys |-> "kept", pruned |-> FALSE] \in Settings
      /\ [keys |-> "kept", pruned |-> TRUE] \in Settings
  BY DEF Settings, Keys
<1>3. Shared \in Plists /\ None \in Plists
  BY CutoverAssumption DEF Plists
<1> DEFINE old == [ registry |-> 1, settings |-> [keys |-> "kept", pruned |-> FALSE],
                    bin |-> 0, schemas |-> 0, execs |-> {}, plist |-> None,
                    marker |-> FALSE ]
           new == [ registry |-> 1, settings |-> [keys |-> "kept", pruned |-> TRUE],
                    bin |-> 1, schemas |-> 1, execs |-> {1}, plist |-> Shared,
                    marker |-> TRUE ]
<1>4. /\ live \in Files /\ job \in Plists /\ tree \in BOOLEAN /\ legacy \in BOOLEAN
      /\ live.settings.keys = "kept" /\ (live.bin # 0 => live.bin \in live.execs)
      /\ ~legacy => live.bin # 0
  <2>1. old \in Files /\ old.settings.keys = "kept" /\ old.bin = 0
    BY <1>1, <1>2, <1>3 DEF Files
  <2>2. /\ new \in Files /\ new.settings.keys = "kept" /\ new.bin = 1
        /\ new.bin \in new.execs
    BY <1>1, <1>2, <1>3 DEF Files
  <2>3. \/ live = old /\ job = None /\ tree \in BOOLEAN /\ legacy = TRUE
        \/ live = new /\ job = Shared /\ tree = TRUE /\ legacy = FALSE
    BY DEF Init
  <2> HIDE DEF old, new
  <2>4. CASE live = old /\ job = None /\ tree \in BOOLEAN /\ legacy = TRUE
    BY <1>3, <2>1, <2>4
  <2>5. CASE live = new /\ job = Shared /\ tree = TRUE /\ legacy = FALSE
    <3>1. live \in Files /\ live.settings.keys = "kept" /\ live.bin = 1 /\ live.bin \in live.execs
      BY <2>2, <2>5
    <3>2. tree \in BOOLEAN /\ legacy \in BOOLEAN /\ job \in Plists
      BY <1>3, <2>5
    <3>3. live.bin # 0
      BY <3>1
    <3> QED
      BY <3>1, <3>2, <3>3
  <2> QED
    BY <2>3, <2>4, <2>5
<1>5. /\ pending = None /\ journal = FALSE /\ guard = "none" /\ backup = None
      /\ lock = None /\ sess = [s \in Sessions |-> Resting] /\ errands = 0 /\ faults = 0
  BY DEF Init
<1>6. TypeOK
  <2>1. sess \in [Sessions -> Sess]
    BY <1>5, SomePlaces
  <2>2. errands \in 0 .. MaxErrands /\ faults \in 0 .. MaxFaults
    BY <1>5, CutoverAssumption
  <2> QED
    BY <1>3, <1>4, <1>5, <2>1, <2>2 DEF TypeOK
<1>7. ~Undecided
  BY <1>5 DEF Undecided
<1>8. Exclusion /\ Shape /\ LegacyGoesLast
  BY <1>4, <1>5, <1>7 DEF Exclusion, Working, Resting, Shape, LegacyGoesLast, Shown
<1>9. ASSUME NEW s \in Sessions PROVE Place(s)
  <2>1. sess[s].pc = "idle" /\ sess[s].waker = Shared
    BY <1>5 DEF Resting
  <2> QED
    BY <2>1
    DEF Place, Preparing, Converging, Promoting, Committing, RollingBack, Opened, Begin, Claude,
        Install, Undo, Commit, Rollback
<1> QED
  BY <1>6, <1>8, <1>9 DEF IInv, Places_hold

LEMMA NextIInv == IInv /\ [Next]_vars => IInv'
<1> SUFFICES ASSUME IInv, [Next]_vars PROVE IInv'
  OBVIOUS
<1>1. CASE UNCHANGED vars
  BY <1>1
  DEF vars, disk, intent, bounds, IInv, TypeOK, Exclusion, Working, Shape, BackupIsGood,
      LegacyGoesLast, Shown, Undecided, Places_hold, Place, Preparing, Converging, Promoting,
      Committing, RollingBack, Whole, Supervised, Done, Same
<1>2. ASSUME NEW s \in Sessions, Updating(s) PROVE IInv'
  BY <1>2, CheckPendingKeeps, ValidateKeeps, ReadRuntimeKeeps, BeginKeeps, BeginJournalKeeps,
     BeginReturnKeeps, ClaudeKeeps, SettingsKeep, RecordModesKeeps, LinkKeeps, RemoveLegacyKeeps
  DEF Updating
<1>3. ASSUME NEW s \in Sessions, Deciding(s) PROVE IInv'
  BY <1>3, CommitKeeps, CommitReturnKeeps, PrepareRollbackKeeps, FindCommittedKeeps,
     QuiesceKeeps, RestoreKeeps, RestoreRuntimeKeeps, UnlinkJournalKeeps, CleanupKeeps,
     RollbackReturnKeeps
  DEF Deciding
<1>4. ASSUME NEW s \in Sessions, Installing(s) PROVE IInv'
  BY <1>4, ValidateStateKeeps, SnapshotKeeps, QuiesceFirstKeeps, MigrateKeeps, PromoteKeeps,
     InstallReturnKeeps, UndoKeeps, UndoBootstrapKeeps
  DEF Installing
<1>5. ASSUME NEW s \in Sessions, Step(s) PROVE IInv'
  BY <1>2, <1>3, <1>4, <1>5, AcquireKeeps, UninstallingKeeps DEF Step
<1> QED
  BY <1>1, <1>5, StartKeeps, StepFailsKeeps, KilledKeeps DEF Next

\* What is known of files and sessions, whatever fails or is killed when, in
\* plugin-update.sh, its transaction helper and the installer of the supervisor.
THEOREM Invariant == Spec => []IInv
<1>1. Init => IInv
  BY InitIInv
<1>2. IInv /\ [Next]_vars => IInv'
  BY NextIInv
<1> QED
  BY <1>1, <1>2, PTL DEF Spec

\* Every file, lock and session keeps its type.
THEOREM TypeCorrect == Spec => []TypeOK
<1>1. IInv => TypeOK
  BY DEF IInv
<1> QED
  BY <1>1, Invariant, PTL

\* While a cutover is undecided its journal or guard leads to a complete backup,
\* with a LaunchAgent for the job that has to be loaded again: recover never
\* refuses it.
THEOREM Recoverable == Spec => []RecoverableWhileOpen
<1>1. IInv => RecoverableWhileOpen
  BY DEF IInv, Shape, BackupIsGood, RecoverableWhileOpen, Loadable
<1> QED
  BY <1>1, Invariant, PTL

\* No job runs while a rollback restores files.
THEOREM Quiesced == Spec => []RestoresQuiesced
<1>1. IInv => RestoresQuiesced
  BY DEF IInv, Places_hold, Place, RollingBack, RestoresQuiesced, At
<1> QED
  BY <1>1, Invariant, PTL

\* The legacy links outlive every rollback to the pinned checkout.
THEOREM LegacyLast == Spec => []LegacyGoesLast
<1>1. IInv => LegacyGoesLast
  BY DEF IInv
<1> QED
  BY <1>1, Invariant, PTL

-----------------------------------------------------------------------------
(* The cutover implements the atomic deployment.                           *)

LEMMA Stutters ==
  ASSUME UNCHANGED <<Plugin, Supervisor, Undecided>>
  PROVE  [Deployment!Next]_(Deployment!vars)
BY DEF Deployment!vars

LEMMA Maintains ==
  ASSUME ~Undecided, Undecided' = Undecided, Plugin' = Plugin, Supervisor' \in Supervisors
  PROVE  [Deployment!Next]_(Deployment!vars)
BY DEF Deployment!Next, Deployment!Maintain

\* The wrapper an observer sees is executable, unless there is none yet.
LEMMA ShownRuns ==
  ASSUME IInv
  PROVE  (Shown.bin \in live.execs) = (Shown.bin # 0)
<1>1. live.execs \subseteq Versions /\ 0 \notin Versions
  BY DEF IInv, TypeOK, Files, Versions
<1>2. Shown.bin # 0 => Shown.bin \in live.execs
  BY DEF IInv, Shape, BackupIsGood, Shown
<1> QED
  BY <1>1, <1>2

\* A step that leaves the intent alone is maintenance between cutovers, and
\* nothing to see during one.
LEMMA OutsideIntent ==
  ASSUME IInv, IInv', UNCHANGED intent,
         ~Undecided => /\ live'.registry = live.registry /\ live'.settings = live.settings
                       /\ live'.bin = live.bin /\ live'.schemas = live.schemas
  PROVE  [Deployment!Next]_(Deployment!vars)
<1>1. Undecided' = Undecided /\ backup' = backup
  BY DEF Undecided, intent
<1>2. CASE Undecided
  <2>1. Shown' = Shown /\ Shown = backup.files
    BY <1>1, <1>2 DEF Shown
  <2>2. (Shown.bin \in live.execs)' = (Shown.bin \in live.execs)
    BY <2>1, ShownRuns, IInv, IInv' DEF BackupIsGood, Shape, IInv, TypeOK, Files, Versions, Shown
  <2>3. Plugin' = Plugin /\ Supervisor' = Supervisor
    BY <1>1, <1>2, <2>1, <2>2 DEF Plugin, Supervisor
  <2> QED
    BY <1>1, <2>3, Stutters
<1>3. CASE ~Undecided
  <2>1. Shown = live /\ Shown' = live'
    BY <1>1, <1>3 DEF Shown
  <2>2. (Shown.bin \in live.execs)' = (Shown.bin \in live.execs)
    <3>1. live.execs \subseteq Versions /\ live'.execs \subseteq Versions /\ 0 \notin Versions
      BY DEF IInv, TypeOK, Files, Versions
    <3>2. /\ live.bin # 0 => live.bin \in live.execs
          /\ live'.bin # 0 => live'.bin \in live'.execs
      BY <1>1, <1>3 DEF IInv, Shape
    <3> QED
      BY <1>3, <2>1, <3>1, <3>2
  <2>3. Plugin' = Plugin
    BY <1>3, <2>1, <2>2 DEF Plugin
  <2>4. Supervisor' \in Supervisors
    <3>1. live' \in Files /\ (job' # None) \in BOOLEAN
      BY DEF IInv, TypeOK
    <3>2. Supervisor' = [plist |-> live'.plist, marker |-> live'.marker, running |-> (job' # None)]
      BY <1>1, <1>3, <2>1 DEF Supervisor
    <3> QED
      BY <3>1, <3>2 DEF Supervisors, Files
  <2> QED
    BY <1>1, <1>3, <2>3, <2>4, Maintains
<1> QED
  BY <1>2, <1>3

\* A step that writes the intent and decides nothing.
LEMMA InsideIntent ==
  ASSUME UNCHANGED <<live, job>>, Undecided' = Undecided,
         Undecided => backup'.files = backup.files /\ backup'.loaded = backup.loaded
  PROVE  [Deployment!Next]_(Deployment!vars)
<1>1. Shown' = Shown
  BY DEF Shown
<1>2. Plugin' = Plugin /\ Supervisor' = Supervisor
  BY <1>1 DEF Plugin, Supervisor
<1> QED
  BY <1>2, Stutters

LEMMA Opens ==
  ASSUME IInv, NEW s \in Sessions, BeginJournal(s)
  PROVE  [Deployment!Next]_(Deployment!vars)
<1>1. UNCHANGED <<disk, job, guard, backup>> /\ journal' = TRUE /\ sess[s].pc = "begin.journal"
  BY DEF BeginJournal, At
<1>2. ~journal /\ guard = "none" /\ backup.files = live /\ backup.loaded = (job # None)
  BY <1>1 DEF IInv, Places_hold, Place, Preparing
<1>3. ~Undecided /\ Undecided' = TRUE
  BY <1>1, <1>2 DEF Undecided
<1>4. Shown' = Shown
  BY <1>1, <1>2, <1>3 DEF Shown
<1>5. Plugin' = Plugin /\ Supervisor' = Supervisor
  BY <1>1, <1>2, <1>3, <1>4 DEF Plugin, Supervisor, disk
<1>6. Deployment!Open
  BY <1>3, <1>5 DEF Deployment!Open
<1> QED
  BY <1>6 DEF Deployment!Next

LEMMA Commits ==
  ASSUME IInv, NEW s \in Sessions, CommitMark(s)
  PROVE  [Deployment!Next]_(Deployment!vars)
<1>1. UNCHANGED <<disk, job, journal, backup>> /\ guard' = "committed"
      /\ sess[s].pc = "commit.mark"
  BY DEF CommitMark, At
<1>2. ~journal /\ guard = "link" /\ Whole /\ Supervised
  BY <1>1 DEF IInv, Places_hold, Place, Committing, Commit
<1>3. Undecided /\ ~Undecided' /\ Undecided' = FALSE
  BY <1>1, <1>2 DEF Undecided
<1>4. BackupIsGood /\ live \in Files /\ Shared # None
  BY <1>3, CutoverAssumption DEF IInv, Shape, TypeOK
<1>5. Shown = backup.files /\ Shown' = live
  BY <1>1, <1>3 DEF Shown, disk
<1>6. Plugin' = [ registry |-> live.registry, keys |-> "kept", pruned |-> TRUE,
                  bin |-> live.registry, schemas |-> live.registry, runnable |-> TRUE ]
  <2>1. live.settings.keys = "kept" /\ live.settings.pruned = TRUE
    BY <1>2 DEF Whole
  <2>2. (live.bin \in live.execs) = TRUE /\ live' = live
    BY <1>1, <1>2 DEF Whole, disk
  <2> QED
    BY <1>2, <1>5, <2>1, <2>2 DEF Plugin, Whole
<1>7. Supervisor' = [plist |-> Shared, marker |-> TRUE, running |-> TRUE]
  <2>1. live.plist = Shared /\ live.marker = TRUE /\ (job' # None) = TRUE
    BY <1>1, <1>2, <1>4 DEF Supervised, Files
  <2> QED
    BY <1>3, <1>5, <2>1 DEF Supervisor
<1>8. live.registry \in Versions /\ live.registry >= Plugin.registry
  <2>1. backup \in Backups
    BY <1>4 DEF IInv, TypeOK, BackupIsGood
  <2>2. backup.files.registry \in Nat /\ live.registry \in Versions /\ live.registry \in Nat
    BY <1>4, <2>1 DEF Backups, Files, Versions
  <2> QED
    BY <1>4, <1>5, <2>2 DEF BackupIsGood, Plugin
<1>9. Deployment!Commit
  BY <1>3, <1>6, <1>7, <1>8 DEF Deployment!Commit, Deployment!Converged
<1> QED
  BY <1>9 DEF Deployment!Next

LEMMA Abandons ==
  ASSUME IInv, NEW s \in Sessions, UnlinkJournal(s)
  PROVE  [Deployment!Next]_(Deployment!vars)
<1>1. UNCHANGED <<disk, job, guard, backup>> /\ journal' = FALSE /\ sess[s].pc = "rb.unlink"
  BY DEF UnlinkJournal, At
<1>2. /\ journal /\ guard = "none" /\ Done(Len(Surfaces) + 1)
      /\ backup.loaded = (job # None)
  BY <1>1 DEF IInv, Places_hold, Place, RollingBack
<1>3. Undecided /\ ~Undecided' /\ Undecided' = FALSE
  BY <1>1, <1>2 DEF Undecided
<1>4. /\ live.settings = backup.files.settings /\ live.registry = backup.files.registry
      /\ live.bin = backup.files.bin /\ live.schemas = backup.files.schemas
      /\ live.marker = backup.files.marker /\ live.plist = backup.files.plist
  <2>1. \A i \in 1 .. 7 : i \in 1 .. Len(Surfaces) /\ i < Len(Surfaces) + 1
    BY DEF Surfaces
  <2>2. /\ Surfaces[1] = "settings" /\ Surfaces[2] = "registry" /\ Surfaces[3] = "bin"
        /\ Surfaces[4] = "schemas" /\ Surfaces[6] = "marker" /\ Surfaces[7] = "plist"
    BY DEF Surfaces
  <2>3. \A i \in 1 .. 7 : Same(Surfaces[i])
    BY <1>2, <2>1 DEF Done
  <2> QED
    BY <2>2, <2>3 DEF Same
<1>5. Shown = backup.files /\ Shown' = live
  BY <1>1, <1>3 DEF Shown, disk
<1>6. Plugin' = Plugin /\ Supervisor' = Supervisor
  BY <1>1, <1>2, <1>3, <1>4, <1>5 DEF Plugin, Supervisor, disk
<1>7. Deployment!Abandon
  BY <1>3, <1>6 DEF Deployment!Abandon
<1> QED
  BY <1>7 DEF Deployment!Next

LEMMA UpdatingRefines ==
  ASSUME IInv, IInv', NEW s \in Sessions, Updating(s)
  PROVE  [Deployment!Next]_(Deployment!vars)
<1>1. CASE \/ CheckPending(s) \/ Validate(s) \/ ReadRuntime(s) \/ BeginReturn(s)
           \/ RemoveLegacy(s)
  <2>1. UNCHANGED <<live, intent>>
    BY <1>1 DEF CheckPending, Validate, ReadRuntime, BeginReturn, RemoveLegacy, disk
  <2> QED
    BY <2>1, OutsideIntent
<1>2. CASE begin(s) \/ BeginState(s)
  <2>1. UNCHANGED <<live, job, journal, guard>> /\ sess[s].pc \in {"begin", "begin.state"}
    BY <1>2 DEF begin, BeginState, At, disk
  <2>2. ~Undecided /\ Undecided' = Undecided
    BY <2>1 DEF IInv, Places_hold, Place, Preparing, Undecided
  <2> QED
    BY <2>1, <2>2, InsideIntent
<1>3. CASE BeginJournal(s)
  BY <1>3, Opens
<1>4. CASE \/ ClaudeUpdate(s) \/ ClaudeSettings(s) \/ RestoreKeys(s) \/ prune_hooks(s)
           \/ WriteSettings(s) \/ chmod(s) \/ replace_wrapper(s)
  <2>1. UNCHANGED intent
    BY <1>4
    DEF ClaudeUpdate, ClaudeSettings, RestoreKeys, prune_hooks, WriteSettings, chmod,
        replace_wrapper
  <2>2. sess[s].pc \in Opened
    BY <1>4
    DEF ClaudeUpdate, ClaudeSettings, RestoreKeys, prune_hooks, WriteSettings, chmod,
        replace_wrapper, At, Opened
  <2>3. Undecided
    BY <2>2 DEF IInv, Places_hold, Place, Converging, Undecided
  <2> QED
    BY <2>1, <2>3, OutsideIntent
<1>5. CASE record_modes(s)
  <2>1. UNCHANGED <<live, job, journal, guard>> /\ sess[s].pc = "modes"
    BY <1>5 DEF record_modes, At, disk
  <2>2. Undecided /\ Undecided' = Undecided
    BY <2>1 DEF IInv, Places_hold, Place, Converging, Opened, Undecided
  <2>3. backup \in Backups
    BY <2>2 DEF IInv, Shape, BackupIsGood, TypeOK
  <2>4. backup'.files = backup.files /\ backup'.loaded = backup.loaded
    BY <1>5, <2>3 DEF record_modes, Backups
  <2> QED
    BY <2>1, <2>2, <2>4, InsideIntent
<1> QED
  BY <1>1, <1>2, <1>3, <1>4, <1>5 DEF Updating

LEMMA DecidingRefines ==
  ASSUME IInv, IInv', NEW s \in Sessions, Deciding(s)
  PROVE  [Deployment!Next]_(Deployment!vars)
<1>1. CASE CommitLink(s) \/ CommitUnlink(s) \/ PrepareRollback(s)
  <2>1. UNCHANGED <<live, job, backup>>
    BY <1>1 DEF CommitLink, CommitUnlink, PrepareRollback, disk
  <2>2. Undecided = TRUE
    <3>1. sess[s].pc = "commit.unlink" => guard = "link"
      BY DEF IInv, Places_hold, Place, Committing
    <3> QED
      BY <1>1, <3>1 DEF CommitLink, CommitUnlink, PrepareRollback, At, Undecided
  <2>3. Undecided' = TRUE
    <3>1. sess[s].pc = "commit.unlink" => guard = "link"
      BY DEF IInv, Places_hold, Place, Committing
    <3> QED
      BY <1>1, <3>1 DEF CommitLink, CommitUnlink, PrepareRollback, At, Undecided
  <2> QED
    BY <2>1, <2>2, <2>3, InsideIntent
<1>2. CASE CommitMark(s)
  BY <1>2, Commits
<1>3. CASE UnlinkJournal(s)
  BY <1>3, Abandons
<1>4. CASE RemoveBackup(s) \/ UnlinkGuard(s)
  <2>1. /\ UNCHANGED <<live, job, journal>> /\ guard' \in {guard, "none"}
        /\ sess[s].pc \in {"rb.rmtree", "cl.rmtree", "cl.unlink"}
    BY <1>4 DEF RemoveBackup, UnlinkGuard, At, disk
  <2>2. Undecided = FALSE
    BY <2>1 DEF IInv, Places_hold, Place, RollingBack, Undecided
  <2>3. Undecided' = FALSE
    BY <2>1, <2>2 DEF Undecided
  <2> QED
    BY <2>1, <2>2, <2>3, InsideIntent
<1>5. CASE \/ CommitReturn(s) \/ FindCommitted(s) \/ Quiesce(s) \/ RestoreRuntime(s)
           \/ RollbackReturn(s)
  <2>1. UNCHANGED <<live, intent>>
    BY <1>5 DEF CommitReturn, FindCommitted, Quiesce, RestoreRuntime, RollbackReturn, disk
  <2> QED
    BY <2>1, OutsideIntent
<1>6. CASE Restore(s)
  <2>1. UNCHANGED intent /\ sess[s].pc = "rb.restore"
    BY <1>6 DEF Restore, At
  <2>2. Undecided
    BY <2>1 DEF IInv, Places_hold, Place, RollingBack, Undecided
  <2> QED
    BY <2>1, <2>2, OutsideIntent
<1> QED
  BY <1>1, <1>2, <1>3, <1>4, <1>5, <1>6 DEF Deciding

LEMMA InstallingRefines ==
  ASSUME IInv, IInv', NEW s \in Sessions, Installing(s) \/ Uninstalling(s)
  PROVE  [Deployment!Next]_(Deployment!vars)
<1>1. live \in Files /\ pending \in Plists /\ None \in Plists /\ sess[s] \in Sess
  BY DEF IInv, TypeOK, Plists
<1>2. sess[s].plist \in Plists /\ sess[s].marker \in BOOLEAN
  BY <1>1 DEF Sess
<1>3. UNCHANGED intent
  BY DEF Installing, Uninstalling, ValidateState, Snapshot, QuiesceFirst, Migrate, write_plist,
      Probe, promote, Bootstrap, WriteMarker, InstallReturn, UndoBootout, UndoPlist, UndoMarker,
      UndoBootstrap
<1>4. Kept(live')
  <2>1. CASE Uninstalling(s)
    BY <1>1, <2>1, PlistAndMarker DEF Uninstalling
  <2>2. CASE promote(s) \/ UndoPlist(s)
    BY <1>1, <1>2, <2>2, PlistAndMarker DEF promote, UndoPlist
  <2>3. CASE WriteMarker(s) \/ UndoMarker(s)
    BY <1>1, <1>2, <2>3, PlistAndMarker DEF WriteMarker, UndoMarker
  <2>4. CASE live' = live
    <3>1. Kept(live)
      BY <1>1, PlistAndMarker
    <3> QED
      BY <2>4, <3>1
  <2> QED
    BY <2>1, <2>2, <2>3, <2>4
    DEF Installing, ValidateState, Snapshot, QuiesceFirst, Migrate, write_plist, Probe,
        Bootstrap, InstallReturn, UndoBootout, UndoBootstrap, disk
<1> QED
  BY <1>3, <1>4, OutsideIntent DEF Kept

LEMMA NextRefines ==
  ASSUME IInv, IInv', [Next]_vars
  PROVE  [Deployment!Next]_(Deployment!vars)
<1>1. CASE UNCHANGED <<live, intent>>
  BY <1>1, OutsideIntent
<1>2. ASSUME NEW s \in Sessions, StartAny(s) \/ Acquire(s) \/ StepFails(s) \/ Killed(s)
      PROVE  UNCHANGED <<live, intent>>
  BY <1>2 DEF StartAny, Start, Acquire, StepFails, Killed, Fault, disk
<1>3. ASSUME UNCHANGED vars PROVE UNCHANGED <<live, intent>>
  BY <1>3 DEF vars, disk
<1> QED
  BY <1>1, <1>2, <1>3, UpdatingRefines, DecidingRefines, InstallingRefines DEF Next, Step

LEMMA InitRefines ==
  ASSUME Init
  PROVE  Deployment!Init
<1>1. 1 \in Versions /\ journal = FALSE /\ guard = "none"
  BY CutoverAssumption DEF Init, Versions
<1>2. Undecided = FALSE /\ ~Undecided
  BY <1>1 DEF Undecided
<1>3. Shown = live /\ IInv
  BY <1>2, InitIInv DEF Shown
<1>4. Supervisor \in Supervisors
  <2>1. live \in Files /\ (job # None) \in BOOLEAN
    BY <1>3 DEF IInv, TypeOK
  <2>2. Supervisor = [plist |-> live.plist, marker |-> live.marker, running |-> (job # None)]
    BY <1>2, <1>3 DEF Supervisor
  <2> QED
    BY <2>1, <2>2 DEF Supervisors, Files
<1>5. Plugin \in {Deployment!Converged(1), Deployment!Pinned(1)}
  <2>1. CASE live = [ registry |-> 1, settings |-> [keys |-> "kept", pruned |-> FALSE],
                      bin |-> 0, schemas |-> 0, execs |-> {}, plist |-> None,
                      marker |-> FALSE ]
    <3>1. (live.bin \in live.execs) = FALSE
      BY <2>1
    <3> QED
      BY <1>3, <2>1, <3>1 DEF Plugin, Deployment!Pinned
  <2>2. CASE live = [ registry |-> 1, settings |-> [keys |-> "kept", pruned |-> TRUE],
                      bin |-> 1, schemas |-> 1, execs |-> {1}, plist |-> Shared,
                      marker |-> TRUE ]
    <3>1. (live.bin \in live.execs) = TRUE
      BY <2>2
    <3> QED
      BY <1>3, <2>2, <3>1 DEF Plugin, Deployment!Converged
  <2> QED
    BY <2>1, <2>2 DEF Init
<1> QED
  BY <1>1, <1>2, <1>4, <1>5 DEF Deployment!Init

\* All surfaces of a deployment change when commit marks its guard, or not at all,
\* for any number of sessions, errands, failures and kills: the cutover implements
\* the atomic deployment.
THEOREM Atomic == Spec => AtomicCutover
<1>1. Init => Deployment!Init
  BY InitRefines
<1>2. IInv /\ IInv' /\ [Next]_vars => [Deployment!Next]_(Deployment!vars)
  BY NextRefines
<1> QED
  BY <1>1, <1>2, Invariant, PTL DEF Spec, AtomicCutover, Deployment!Spec

-----------------------------------------------------------------------------
(* What the scripts say when they end.                                     *)

\* What a rollback makes of the executable bits.
Executables ==
  IF backup.modes = <<>> THEN live.execs
  ELSE IF backup.modes[2] THEN live.execs \cup {backup.modes[1]}
  ELSE live.execs \ {backup.modes[1]}

\* The backup holds what the session found, and the recorded modes lead from the
\* executable bits there are back to those it found.
Backed(s) ==
  /\ sess[s].found \in Files \X Plists
  /\ backup \in Backups /\ backup.files = sess[s].found[1]
  /\ backup.loaded = (sess[s].found[2] # None)
  /\ Executables = sess[s].found[1].execs

\* From the backup to the recording of modes.
Unrecorded ==
  (Begin \ {"begin"}) \cup Claude \cup Modes \cup {"keys", "keys.write", "prune", "prune.write"}

\* A rollback on its way, after a failure.
Failing(s) == sess[s].pc \in Rollback /\ sess[s].reason = "failure"

BackedPlace(s) ==
  /\ sess[s].pc = "begin" => sess[s].found = <<live, job>>
  /\ \/ sess[s].pc \in Unrecorded \cup {"chmod", "bin", "schemas"} \cup Commit
     \/ sess[s].pc \in Install \cup Undo /\ sess[s].kind = "update"
     \/ /\ Failing(s)
        /\ sess[s].pc \in {"rb.prepare", "rb.quiesce", "rb.restore", "rb.runtime", "rb.unlink"}
     => Backed(s)
  /\ sess[s].pc \in Unrecorded => backup.modes = <<>>
  /\ sess[s].pc = "chmod" =>
       backup.modes = <<live.registry, live.registry \in live.execs>>

RestoredPlace(s) ==
  Failing(s) =>
    /\ sess[s].pc = "rb.restore" /\ sess[s].next > 5 => live.execs = sess[s].found[1].execs
    /\ sess[s].pc \in {"rb.runtime", "rb.unlink", "rb.rmtree", "rb.return"} =>
         live = sess[s].found[1]
    /\ sess[s].pc \in {"rb.unlink", "rb.rmtree", "rb.return"} =>
         job = IF sess[s].found[2] = None THEN None ELSE live.plist

CommittedPlace(s) ==
  \/ Failing(s) /\ sess[s].pc = "rb.prepare" /\ guard = "committed"
  \/ sess[s].pc \in Rollback /\ sess[s].reason = "cleanup"
  \/ sess[s].pc = "legacy"
  => Whole /\ Supervised

\* An install on its own changes the LaunchAgent and the marker, and remembers both.
UndonePlace(s) ==
  sess[s].kind = "install" /\ sess[s].pc \in (Install \cup Undo) \ {"in.validate", "in.snapshot"} =>
    /\ sess[s].found \in Files \X Plists
    /\ LET f == sess[s].found[1]
       IN  /\ live.registry = f.registry /\ live.settings = f.settings /\ live.bin = f.bin
           /\ live.schemas = f.schemas /\ live.execs = f.execs
    /\ sess[s].plist = sess[s].found[1].plist /\ sess[s].marker = sess[s].found[1].marker
    /\ sess[s].was = (sess[s].found[2] # None)
    /\ sess[s].pc \in Undo \ {"un.bootout"} => job = None
    /\ sess[s].pc \in {"un.marker", "un.bootstrap"} => live.plist = sess[s].plist
    /\ sess[s].pc = "un.bootstrap" => live.marker = sess[s].marker

Told(s) == BackedPlace(s) /\ RestoredPlace(s) /\ CommittedPlace(s) /\ UndonePlace(s)

\* A report is about the whole run, so it needs more than IInv: what a session found
\* at its start, and where that is kept until the end.
RInv == \A s \in Sessions : Told(s)

\* What a session that goes on takes along, its memories included.
Carried(s) ==
  /\ Locals(s)
  /\ sess'[s].found = sess[s].found /\ sess'[s].plist = sess[s].plist
  /\ sess'[s].marker = sess[s].marker /\ sess'[s].was = sess[s].was

LEMMA GoCarries ==
  ASSUME TypeOK, NEW s \in Sessions, NEW p \in Places, Go(s, p)
  PROVE  /\ Others(s)
         /\ Rests(s) \/ (sess'[s].pc = p /\ Carried(s))
<1>1. sess[s] \in Sess /\ [sess[s] EXCEPT !.pc = p] \in Sess
  BY Fields DEF TypeOK
<1>2. Proceed(s, [sess[s] EXCEPT !.pc = p])
  BY DEF Go
<1>3. Others(s)
  BY <1>1, <1>2, ProceedMoves DEF Others
<1>4. CASE sess'[s] = Resting /\ lock' = None
  BY <1>3, <1>4 DEF Rests
<1>5. CASE sess'[s] = [sess[s] EXCEPT !.pc = p]
  BY <1>1, <1>3, <1>5, Fields DEF Carried, Locals
<1> QED
  BY <1>1, <1>2, <1>4, <1>5, ProceedMoves

LEMMA RollBackCarries ==
  ASSUME TypeOK, NEW s \in Sessions, NEW why \in {"first", "failure", "cleanup"},
         RollBack(s, why)
  PROVE  /\ Others(s)
         /\ \/ Rests(s)
            \/ /\ sess'[s].pc = "rb.prepare" /\ sess'[s].reason = why
               /\ sess'[s].next = 1
               /\ sess'[s].kind = sess[s].kind /\ sess'[s].found = sess[s].found
<1> DEFINE r == [sess[s] EXCEPT !.pc = "rb.prepare", !.reason = why, !.next = 1]
<1>1. sess[s] \in Sess
  BY DEF TypeOK
<1>2. "rb.prepare" \in Places
  BY SomePlaces DEF Rollback
<1>3. 1 \in 1 .. Len(Surfaces)
  BY DEF Surfaces
<1>4. /\ r \in Sess /\ r.pc = "rb.prepare" /\ r.reason = why /\ r.next = 1
      /\ r.kind = sess[s].kind /\ r.found = sess[s].found
  BY <1>1, <1>2, <1>3 DEF Sess
<1>5. Proceed(s, r)
  BY DEF RollBack
<1> HIDE DEF r
<1> QED
  BY <1>4, <1>5, ProceedMoves DEF Others, Rests

\* Places of which nothing is told.
Silent == {"idle", "waiting", "pending", "validate", "runtime"} \cup Uninstall

LEMMA SilentTold ==
  ASSUME NEW q \in Sessions,
         \/ sess'[q].pc \in Silent
         \/ sess'[q].pc \in {"in.validate", "in.snapshot"} /\ sess'[q].kind # "update"
  PROVE  Told(q)'
BY DEF Told, BackedPlace, RestoredPlace, CommittedPlace, UndonePlace, Failing, Silent,
       Uninstall, Unrecorded, Begin, Claude, Modes, Commit, Install, Undo, Rollback

LEMMA ReportsCompose ==
  ASSUME IInv, NEW s \in Sessions, Working(s), Others(s), Rests(s) \/ Told(s)'
  PROVE  RInv'
<1>1. ASSUME NEW q \in Sessions, q # s PROVE Told(q)'
  <2>1. lock = s /\ ~Working(q)
    BY <1>1 DEF IInv, Exclusion
  <2>2. sess'[q].pc \in Silent
    BY <1>1, <2>1 DEF Others, Working, Silent
  <2> QED
    BY <2>2, SilentTold
<1>2. Rests(s) => Told(s)'
  BY SilentTold DEF Rests, Resting, Silent
<1> QED
  BY <1>1, <1>2 DEF RInv

LEMMA StaysBacked ==
  ASSUME NEW s \in Sessions, Backed(s), sess'[s].found = sess[s].found,
         backup' = backup, live'.execs = live.execs
  PROVE  Backed(s)'
BY DEF Backed, Executables

\* Of a cutover that goes on, only the backup matters.
LEMMA ToldOpen ==
  ASSUME NEW s \in Sessions, Backed(s)',
         sess'[s].pc \in Unrecorded \cup {"chmod", "bin", "schemas"} \cup Commit,
         sess'[s].pc \in Unrecorded => backup'.modes = <<>>,
         sess'[s].pc = "chmod" => (backup.modes = <<live.registry, live.registry \in live.execs>>)'
  PROVE  Told(s)'
<1>1. sess'[s].pc # "begin" /\ sess'[s].pc \notin Rollback \cup Install \cup Undo \cup {"legacy"}
  BY DEF Unrecorded, Begin, Claude, Modes, Commit, Install, Undo, Rollback
<1>2. BackedPlace(s)'
  BY <1>1 DEF BackedPlace
<1> QED
  BY <1>1, <1>2 DEF Told, RestoredPlace, CommittedPlace, UndonePlace, Failing

LEMMA ToldFailing ==
  ASSUME NEW s \in Sessions, Backed(s)', sess'[s].pc = "rb.prepare",
         sess'[s].reason = "failure",
         guard' = "committed" => (Whole /\ Supervised)'
  PROVE  Told(s)'
BY DEF Told, BackedPlace, RestoredPlace, CommittedPlace, UndonePlace, Failing,
       Unrecorded, Begin, Claude, Modes, Commit, Install, Undo, Rollback

LEMMA GoReports ==
  ASSUME IInv, NEW s \in Sessions, Working(s), NEW p \in Places, Go(s, p),
         sess'[s].pc = p /\ Carried(s) => Told(s)'
  PROVE  RInv'
<1>1. TypeOK
  BY DEF IInv
<1>2. Others(s) /\ (Rests(s) \/ (sess'[s].pc = p /\ Carried(s)))
  BY <1>1, GoCarries
<1> QED
  BY <1>2, ReportsCompose

\* A failure that the updater answers with a rollback.
LEMMA FailureReports ==
  ASSUME IInv, NEW s \in Sessions, Working(s), RollBack(s, "failure"), Backed(s),
         backup' = backup, live' = live, guard' = guard,
         guard = "committed" => (Whole /\ Supervised)'
  PROVE  RInv'
<1>1. TypeOK
  BY DEF IInv
<1>2. /\ Others(s)
      /\ \/ Rests(s)
         \/ /\ sess'[s].pc = "rb.prepare" /\ sess'[s].reason = "failure"
            /\ sess'[s].next = 1
            /\ sess'[s].kind = sess[s].kind /\ sess'[s].found = sess[s].found
  BY <1>1, RollBackCarries
<1>3. ASSUME sess'[s].pc = "rb.prepare", sess'[s].reason = "failure",
             sess'[s].found = sess[s].found
      PROVE  Told(s)'
  BY <1>3, StaysBacked, ToldFailing
<1> QED
  BY <1>2, <1>3, ReportsCompose

LEMMA EndReports ==
  ASSUME IInv, NEW s \in Sessions, Working(s), End(s)
  PROVE  RInv'
BY EndMoves, ReportsCompose DEF IInv, Others, Rests

LEMMA BeginReports ==
  ASSUME IInv, RInv, NEW s \in Sessions,
         begin(s) \/ BeginState(s) \/ BeginJournal(s) \/ BeginReturn(s)
  PROVE  RInv'
<1>1. TypeOK /\ live \in Files /\ job \in Plists /\ Working(s) /\ Told(s)
  BY DEF IInv, TypeOK, RInv, begin, BeginState, BeginJournal, BeginReturn, At, Working
<1>2. UNCHANGED <<disk, job>>
  BY DEF begin, BeginState, BeginJournal, BeginReturn
<1>3. CASE begin(s) /\ End(s)
  BY <1>1, <1>3, EndReports
<1>4. CASE begin(s) /\ ~(journal \/ guard # "none")
  <2>1. /\ sess[s].pc = "begin" /\ sess[s].found = <<live, job>> /\ sess[s].loaded = (job # None)
        /\ Go(s, "begin.state")
    BY <1>1, <1>4 DEF begin, At, Told, BackedPlace, IInv, Places_hold, Place, Preparing
  <2>2. backup' = [files |-> live, loaded |-> (job # None), state |-> FALSE, modes |-> <<>>]
    BY <1>4, <2>1 DEF begin
  <2>3. backup' \in Backups
    BY <1>1, <2>2 DEF Backups
  <2>4. ASSUME sess'[s].pc = "begin.state", Carried(s) PROVE Told(s)'
    <3>1. sess'[s].found = <<live, job>> /\ <<live, job>> \in Files \X Plists
      BY <1>1, <2>1, <2>4 DEF Carried
    <3>2. Backed(s)'
      BY <1>2, <2>2, <2>3, <3>1 DEF Backed, Executables, disk
    <3> QED
      BY <2>2, <2>4, <3>2, ToldOpen DEF Unrecorded, Begin
  <2> QED
    BY <1>1, <2>1, <2>4, GoReports, SomePlaces DEF Begin
<1>5. CASE BeginState(s) \/ BeginJournal(s) \/ BeginReturn(s)
  <2>1. sess[s].pc \in Begin \ {"begin"} /\ Backed(s) /\ backup.modes = <<>>
    BY <1>1, <1>5
    DEF BeginState, BeginJournal, BeginReturn, At, Told, BackedPlace, Unrecorded, Begin
  <2>2. backup' \in {backup, [backup EXCEPT !.state = TRUE]}
    BY <1>5 DEF BeginState, BeginJournal, BeginReturn, intent
  <2>3. /\ backup' \in Backups /\ backup'.files = backup.files
        /\ backup'.loaded = backup.loaded /\ backup'.modes = backup.modes
    BY <2>1, <2>2 DEF Backed, Backups
  <2>4. PICK p \in {"begin.journal", "begin.return", "claude"} : Go(s, p)
    BY <1>5 DEF BeginState, BeginJournal, BeginReturn
  <2>5. ASSUME sess'[s].pc = p, Carried(s) PROVE Told(s)'
    <3>1. Backed(s)'
      BY <1>2, <2>1, <2>3, <2>5 DEF Backed, Executables, Carried, disk
    <3> QED
      BY <2>1, <2>3, <2>5, <3>1, ToldOpen DEF Unrecorded, Begin, Claude
  <2> QED
    BY <1>1, <2>4, <2>5, GoReports, SomePlaces DEF Begin, Claude
<1> QED
  BY <1>3, <1>4, <1>5 DEF begin

LEMMA ConvergingReports ==
  ASSUME IInv, RInv, NEW s \in Sessions,
         ClaudeUpdate(s) \/ ClaudeSettings(s) \/ RestoreKeys(s) \/ prune_hooks(s)
           \/ WriteSettings(s)
  PROVE  RInv'
<1>1. TypeOK /\ live \in Files /\ Working(s) /\ Told(s)
  BY DEF IInv, TypeOK, RInv, ClaudeUpdate, ClaudeSettings, RestoreKeys, prune_hooks,
         WriteSettings, At, Working
<1>2. sess[s].pc \in Claude \cup {"keys", "keys.write", "prune", "prune.write"}
  BY DEF ClaudeUpdate, ClaudeSettings, RestoreKeys, prune_hooks, WriteSettings, At, Claude
<1>3. Backed(s) /\ backup.modes = <<>>
  BY <1>1, <1>2 DEF Told, BackedPlace, Unrecorded
<1>4. backup' = backup /\ live'.execs = live.execs
  BY <1>1
  DEF ClaudeUpdate, ClaudeSettings, RestoreKeys, prune_hooks, WriteSettings, Files, intent
<1>5. PICK p \in {"claude.settings", "keys", "keys.write", "prune", "prune.write", "modes"} :
        Go(s, p)
  BY DEF ClaudeUpdate, ClaudeSettings, RestoreKeys, prune_hooks, WriteSettings
<1>6. ASSUME sess'[s].pc = p, Carried(s) PROVE Told(s)'
  <2>1. Backed(s)'
    BY <1>3, <1>4, <1>6, StaysBacked DEF Carried
  <2> QED
    BY <1>3, <1>4, <1>6, <2>1, ToldOpen DEF Unrecorded, Claude, Modes
<1> QED
  BY <1>1, <1>5, <1>6, GoReports, SomePlaces DEF Claude, Shell, Modes

LEMMA ModesReports ==
  ASSUME IInv, RInv, NEW s \in Sessions, record_modes(s) \/ chmod(s)
  PROVE  RInv'
<1>1. TypeOK /\ live \in Files /\ Working(s) /\ Told(s)
  BY DEF IInv, TypeOK, RInv, record_modes, chmod, At, Working
<1>2. Backed(s) /\ live.execs \in SUBSET Versions /\ live.registry \in Versions
  BY <1>1 DEF Told, BackedPlace, Unrecorded, Modes, record_modes, chmod, At, Files
<1> DEFINE m == <<live.registry, live.registry \in live.execs>>
<1>3. CASE record_modes(s)
  <2>1. backup.modes = <<>> /\ Go(s, "chmod") /\ live' = live
    BY <1>1, <1>3
    DEF Told, BackedPlace, Unrecorded, Modes, record_modes, At, disk
  <2>2. backup' = [backup EXCEPT !.modes = m]
    BY <1>3 DEF record_modes
  <2>3. m # <<>> /\ m[1] = live.registry /\ m[2] = (live.registry \in live.execs)
    OBVIOUS
  <2>4. m \in Versions \X BOOLEAN
    <3>1. (live.registry \in live.execs) \in BOOLEAN
      OBVIOUS
    <3> QED
      BY <1>2, <3>1
  <2>5. /\ backup' \in Backups /\ backup'.files = backup.files
        /\ backup'.loaded = backup.loaded /\ backup'.modes = m
    BY <1>2, <2>2, <2>4 DEF Backed, Backups
  <2>6. Executables' = live.execs /\ Executables = live.execs
    BY <2>1, <2>3, <2>5 DEF Executables
  <2>7. ASSUME sess'[s].pc = "chmod", Carried(s) PROVE Told(s)'
    <3>1. Backed(s)'
      BY <1>2, <2>5, <2>6, <2>7 DEF Backed, Carried
    <3> QED
      BY <2>1, <2>5, <2>7, <3>1, ToldOpen DEF Unrecorded, Begin, Claude, Modes
  <2> QED
    BY <1>1, <2>1, <2>7, GoReports, SomePlaces DEF Shell
<1>4. CASE chmod(s)
  <2>1. backup.modes = m /\ Go(s, "bin") /\ backup' = backup
    BY <1>1, <1>4 DEF Told, BackedPlace, chmod, At, intent
  <2>2. live'.execs = live.execs \cup {live.registry}
    BY <1>1, <1>4 DEF chmod, Files
  <2>3. m # <<>> /\ m[1] = live.registry /\ m[2] = (live.registry \in live.execs)
    OBVIOUS
  <2>4. Executables' = Executables
    BY <2>1, <2>2, <2>3 DEF Executables
  <2>5. ASSUME sess'[s].pc = "bin", Carried(s) PROVE Told(s)'
    <3>1. Backed(s)'
      BY <1>2, <2>1, <2>4, <2>5 DEF Backed, Carried
    <3> QED
      BY <2>5, <3>1, ToldOpen DEF Unrecorded, Begin, Claude, Modes
  <2> QED
    BY <1>1, <2>1, <2>5, GoReports, SomePlaces DEF Shell
<1> QED
  BY <1>3, <1>4

LEMMA LinkReports ==
  ASSUME IInv, RInv, NEW s \in Sessions, replace_wrapper(s)
  PROVE  RInv'
<1>1. TypeOK /\ live \in Files /\ Working(s) /\ Told(s) /\ sess[s] \in Sess
  BY DEF IInv, TypeOK, RInv, replace_wrapper, At, Working
<1>2. Backed(s) /\ sess[s].pc \in {"bin", "schemas"}
  BY <1>1 DEF Told, BackedPlace, replace_wrapper, At
<1>3. backup' = backup /\ live'.execs = live.execs
  BY <1>1 DEF replace_wrapper, Files, intent
<1>4. sess[s].pc = "schemas" => journal
  BY DEF IInv, Places_hold, Place, Converging, Opened
<1>5. PICK p \in {"schemas", "in.validate"} : Go(s, p)
  BY DEF replace_wrapper
<1>6. ASSUME sess'[s].pc = p, Carried(s) PROVE Told(s)'
  <2>1. Backed(s)'
    BY <1>2, <1>3, <1>6, StaysBacked DEF Carried
  <2>2. CASE p = "schemas"
    BY <1>6, <2>1, <2>2, ToldOpen DEF Unrecorded, Begin, Claude, Modes
  <2>3. CASE p = "in.validate"
    BY <1>6, <2>1, <2>3
    DEF Told, BackedPlace, RestoredPlace, CommittedPlace, UndonePlace, Failing, Unrecorded,
        Begin, Claude, Modes, Commit, Rollback
  <2> QED
    BY <2>2, <2>3
<1> QED
  BY <1>1, <1>5, <1>6, GoReports, SomePlaces DEF Shell, Install

\* The installer leaves the backup to the updater that called it.
LEMMA ToldInstaller ==
  ASSUME NEW s \in Sessions, Told(s), sess[s].pc \in Install \cup Undo,
         backup' = backup, live'.execs = live.execs,
         sess'[s].pc \in Install \cup Undo, sess'[s].kind = sess[s].kind,
         sess'[s].kind = "update" => sess'[s].found = sess[s].found, UndonePlace(s)'
  PROVE  Told(s)'
<1>1. sess'[s].pc \notin {"begin", "chmod", "legacy"} \cup Unrecorded \cup Rollback \cup Commit
                          \cup {"bin", "schemas"}
  BY DEF Unrecorded, Begin, Claude, Modes, Commit, Install, Undo, Rollback
<1>2. sess'[s].kind = "update" => Backed(s)'
  BY StaysBacked DEF Told, BackedPlace
<1>3. BackedPlace(s)'
  BY <1>1, <1>2 DEF BackedPlace, Failing
<1> QED
  BY <1>1, <1>3 DEF Told, RestoredPlace, CommittedPlace, Failing

\* What the installer leaves alone.
LEMMA InstallerKeeps ==
  ASSUME IInv, NEW s \in Sessions, Installing(s)
  PROVE  /\ Working(s) /\ sess[s].pc \in Install \cup Undo
         /\ UNCHANGED <<intent, legacy>>
         /\ live'.registry = live.registry /\ live'.settings = live.settings
         /\ live'.bin = live.bin /\ live'.schemas = live.schemas /\ live'.execs = live.execs
<1>1. live \in Files
  BY DEF IInv, TypeOK
<1>2. sess[s].pc \in Install \cup Undo
  BY DEF Installing, ValidateState, Snapshot, QuiesceFirst, Migrate, write_plist, Probe, promote,
         Bootstrap, WriteMarker, InstallReturn, UndoBootout, UndoPlist, UndoMarker,
         UndoBootstrap, At, Install, Undo
<1>3. Working(s)
  BY <1>2 DEF Working, Install, Undo
<1>4. UNCHANGED <<intent, legacy>>
  BY DEF Installing, ValidateState, Snapshot, QuiesceFirst, Migrate, write_plist, Probe, promote,
         Bootstrap, WriteMarker, InstallReturn, UndoBootout, UndoPlist, UndoMarker,
         UndoBootstrap, disk
<1>5. \/ live' = live
      \/ \E x : live' = [live EXCEPT !.plist = x]
      \/ \E x : live' = [live EXCEPT !.marker = x]
  BY DEF Installing, ValidateState, Snapshot, QuiesceFirst, Migrate, write_plist, Probe, promote,
         Bootstrap, WriteMarker, InstallReturn, UndoBootout, UndoPlist, UndoMarker,
         UndoBootstrap, disk
<1>6. /\ live'.registry = live.registry /\ live'.settings = live.settings
      /\ live'.bin = live.bin /\ live'.schemas = live.schemas /\ live'.execs = live.execs
  BY <1>1, <1>5 DEF Files
<1> QED
  BY <1>2, <1>3, <1>4, <1>6

LEMMA InstallFailsReports ==
  ASSUME IInv, RInv, NEW s \in Sessions, Working(s), sess[s].pc \in Install \cup Undo,
         InstallFails(s), UNCHANGED <<intent, live>>
  PROVE  RInv'
<1>1. CASE sess[s].kind = "update"
  <2>1. Backed(s)
    BY <1>1 DEF RInv, Told, BackedPlace
  <2>2. guard = "none"
    BY <1>1 DEF IInv, Places_hold, Place, Converging
  <2> QED
    BY <1>1, <2>1, <2>2, FailureReports DEF InstallFails, intent
<1>2. CASE sess[s].kind # "update"
  BY <1>2, EndReports DEF InstallFails
<1> QED
  BY <1>1, <1>2

\* An install that is past its snapshot.
LEMMA Remembered ==
  ASSUME NEW s \in Sessions, UndonePlace(s), Carried(s),
         sess[s].pc \in (Install \cup Undo) \ {"in.validate", "in.snapshot"},
         live'.registry = live.registry, live'.settings = live.settings,
         live'.bin = live.bin, live'.schemas = live.schemas, live'.execs = live.execs,
         sess[s].kind = "install" =>
           /\ sess'[s].pc \in Undo \ {"un.bootout"} => job' = None
           /\ sess'[s].pc \in {"un.marker", "un.bootstrap"} => live'.plist = sess[s].plist
           /\ sess'[s].pc = "un.bootstrap" => live'.marker = sess[s].marker
  PROVE  UndonePlace(s)'
BY DEF UndonePlace, Carried, Locals

LEMMA InstallingReports ==
  ASSUME IInv, RInv, NEW s \in Sessions, Installing(s)
  PROVE  RInv'
<1>1. TypeOK /\ live \in Files /\ job \in Plists /\ Told(s) /\ sess[s] \in Sess
  BY DEF IInv, TypeOK, RInv
<1>2. /\ Working(s) /\ sess[s].pc \in Install \cup Undo
      /\ UNCHANGED <<intent, legacy>>
      /\ live'.registry = live.registry /\ live'.settings = live.settings
      /\ live'.bin = live.bin /\ live'.schemas = live.schemas /\ live'.execs = live.execs
  BY InstallerKeeps
<1>3. backup' = backup
  BY <1>2 DEF intent
<1>4. ASSUME NEW p \in Install \cup Undo, Go(s, p),
             sess[s].pc \notin {"in.validate", "in.snapshot"},
             sess[s].kind = "install" =>
               /\ p \in Undo \ {"un.bootout"} => job' = None
               /\ p \in {"un.marker", "un.bootstrap"} => live'.plist = sess[s].plist
               /\ p = "un.bootstrap" => live'.marker = sess[s].marker
      PROVE  RInv'
  <2>1. p \in Places
    BY SomePlaces
  <2>2. ASSUME sess'[s].pc = p, Carried(s) PROVE Told(s)'
    <3>1. UndonePlace(s)'
      BY <1>1, <1>2, <1>4, <2>2, Remembered DEF Told
    <3> QED
      BY <1>1, <1>2, <1>3, <2>2, <3>1, ToldInstaller DEF Carried, Locals
  <2> QED
    BY <1>2, <1>4, <2>1, <2>2, GoReports
<1>5. CASE ValidateState(s)
  <2>1. Go(s, "in.snapshot") /\ "in.snapshot" \in Places
    BY <1>5, SomePlaces DEF ValidateState, Install
  <2>2. ASSUME sess'[s].pc = "in.snapshot", Carried(s) PROVE Told(s)'
    <3>1. UndonePlace(s)'
      BY <2>2 DEF UndonePlace
    <3> QED
      BY <1>1, <1>2, <1>3, <2>2, <3>1, ToldInstaller DEF Carried, Locals, Install
  <2> QED
    BY <1>2, <2>1, <2>2, GoReports
<1>6. CASE Snapshot(s)
  <2>1. CASE job # None /\ live.plist = None
    BY <1>2, <1>6, <2>1, InstallFailsReports DEF Snapshot, disk
  <2>2. CASE ~(job # None /\ live.plist = None)
    <3> DEFINE f == IF sess[s].kind = "install" THEN <<live, job>> ELSE sess[s].found
               r == [sess[s] EXCEPT !.pc = "in.quiesce", !.plist = live.plist,
                       !.marker = live.marker, !.was = (job # None), !.found = f]
    <3>1. Proceed(s, r)
      BY <1>6, <2>2 DEF Snapshot
    <3>2. f \in {<<>>} \cup (Files \X Plists)
      BY <1>1 DEF Sess
    <3>3. live.plist \in Plists /\ live.marker \in BOOLEAN /\ (job # None) \in BOOLEAN
      BY <1>1 DEF Files
    <3>4. "in.quiesce" \in Places
      BY SomePlaces DEF Install
    <3> HIDE DEF f
    <3>5. /\ r \in Sess /\ r.pc = "in.quiesce" /\ r.plist = live.plist
          /\ r.marker = live.marker /\ r.was = (job # None) /\ r.found = f
          /\ r.kind = sess[s].kind
      BY <1>1, <3>2, <3>3, <3>4 DEF Sess
    <3> HIDE DEF r
    <3>6. Others(s) /\ (Rests(s) \/ sess'[s] = r)
      BY <1>1, <3>1, <3>5, ProceedMoves DEF Others, Rests
    <3>7. ASSUME sess'[s] = r PROVE Told(s)'
      <4>1. live' = live /\ job' = job
        BY <1>6 DEF Snapshot, disk
      <4>2. sess[s].kind = "install" =>
              f \in Files \X Plists /\ f[1] = live /\ f[2] = job
        BY <1>1 DEF f
      <4>3. UndonePlace(s)'
        BY <3>5, <3>7, <4>1, <4>2 DEF UndonePlace, Undo
      <4>4. sess[s].kind = "update" => f = sess[s].found
        BY DEF f
      <4> QED
        BY <1>1, <1>2, <1>3, <3>5, <3>7, <4>3, <4>4, ToldInstaller DEF Install
    <3> QED
      BY <1>2, <3>6, <3>7, ReportsCompose
  <2> QED
    BY <2>1, <2>2
<1>7. CASE QuiesceFirst(s)
  <2> DEFINE r == [sess[s] EXCEPT !.pc = "in.migrate", !.quiet = tree]
  <2>1. Proceed(s, r) /\ sess[s].pc = "in.quiesce" /\ live' = live
    BY <1>7 DEF QuiesceFirst, At, disk
  <2>2. "in.migrate" \in Places /\ tree \in BOOLEAN
    BY <1>1, SomePlaces DEF Install, TypeOK
  <2>3. /\ r \in Sess /\ r.pc = "in.migrate" /\ r.plist = sess[s].plist
        /\ r.marker = sess[s].marker /\ r.was = sess[s].was /\ r.found = sess[s].found
        /\ r.kind = sess[s].kind
    BY <1>1, <2>2 DEF Sess
  <2> HIDE DEF r
  <2>4. Others(s) /\ (Rests(s) \/ sess'[s] = r)
    BY <1>1, <2>1, <2>3, ProceedMoves DEF Others, Rests
  <2>5. ASSUME sess'[s] = r PROVE Told(s)'
    <3>1. UndonePlace(s)'
      BY <1>1, <1>2, <2>1, <2>3, <2>5 DEF Told, UndonePlace, Undo, Install
    <3> QED
      BY <1>1, <1>2, <1>3, <2>3, <2>5, <3>1, ToldInstaller DEF Install
  <2> QED
    BY <1>2, <2>4, <2>5, ReportsCompose
<1>8. CASE Migrate(s) \/ write_plist(s) \/ promote(s) \/ Bootstrap(s) \/ WriteMarker(s)
  <2>1. sess[s].pc \notin {"in.validate", "in.snapshot"}
    BY <1>8 DEF Migrate, write_plist, promote, Bootstrap, WriteMarker, At
  <2>2. PICK p \in {"in.pending", "in.probe", "in.promote", "in.bootstrap", "in.marker",
                    "in.return"} : Go(s, p)
    BY <1>8 DEF Migrate, write_plist, promote, Bootstrap, WriteMarker
  <2>3. p \in Install /\ p \notin Undo /\ p \notin {"un.marker", "un.bootstrap"}
    BY DEF Install, Undo
  <2> QED
    BY <1>4, <2>1, <2>2, <2>3
<1>9. CASE Probe(s)
  <2> DEFINE r == [sess[s] EXCEPT !.pc = "in.promote", !.quiet = (job # None)]
  <2>1. Proceed(s, r) /\ sess[s].pc = "in.probe" /\ live' = live
    BY <1>9 DEF Probe, At, disk
  <2>2. "in.promote" \in Places /\ (job # None) \in BOOLEAN
    BY <1>1, SomePlaces DEF Install, TypeOK
  <2>3. /\ r \in Sess /\ r.pc = "in.promote" /\ r.plist = sess[s].plist
        /\ r.marker = sess[s].marker /\ r.was = sess[s].was /\ r.found = sess[s].found
        /\ r.kind = sess[s].kind
    BY <1>1, <2>2 DEF Sess
  <2> HIDE DEF r
  <2>4. Others(s) /\ (Rests(s) \/ sess'[s] = r)
    BY <1>1, <2>1, <2>3, ProceedMoves DEF Others, Rests
  <2>5. ASSUME sess'[s] = r PROVE Told(s)'
    <3>1. UndonePlace(s)'
      BY <1>1, <1>2, <2>1, <2>3, <2>5 DEF Told, UndonePlace, Undo, Install
    <3> QED
      BY <1>1, <1>2, <1>3, <2>3, <2>5, <3>1, ToldInstaller DEF Install
  <2> QED
    BY <1>2, <2>4, <2>5, ReportsCompose
<1>10. CASE InstallReturn(s)
  <2>1. CASE sess[s].kind = "update"
    <3>1. Go(s, "commit") /\ "commit" \in Places /\ live' = live
      BY <1>10, <2>1, SomePlaces DEF InstallReturn, Commit, disk
    <3>2. Backed(s)
      BY <1>1, <1>2, <2>1 DEF Told, BackedPlace
    <3>3. ASSUME sess'[s].pc = "commit", Carried(s) PROVE Told(s)'
      BY <1>3, <3>1, <3>2, <3>3, StaysBacked, ToldOpen
      DEF Carried, Unrecorded, Begin, Claude, Modes, Commit
    <3> QED
      BY <1>2, <3>1, <3>3, GoReports
  <2>2. CASE sess[s].kind # "update"
    BY <1>2, <1>10, <2>2, EndReports DEF InstallReturn
  <2> QED
    BY <2>1, <2>2
<1>11. CASE UndoBootout(s) \/ UndoPlist(s) \/ UndoMarker(s)
  <2>1. sess[s].pc \in Undo /\ sess[s].pc \notin {"in.validate", "in.snapshot"}
    BY <1>11 DEF UndoBootout, UndoPlist, UndoMarker, At, Undo
  <2>2. CASE UndoBootout(s)
    <3>1. Go(s, "un.plist") /\ job' = None /\ "un.plist" \in Undo
      BY <2>2 DEF UndoBootout, Undo
    <3> QED
      BY <1>4, <2>1, <3>1
  <2>3. CASE UndoPlist(s)
    <3>1. /\ Go(s, "un.marker") /\ job' = job /\ "un.marker" \in Undo
          /\ sess[s].pc \in Undo \ {"un.bootout"} /\ live'.plist = sess[s].plist
      BY <1>1, <2>3 DEF UndoPlist, Undo, At, Files
    <3>2. sess[s].kind = "install" => job' = None
      BY <1>1, <2>1, <3>1 DEF Told, UndonePlace
    <3> QED
      BY <1>4, <2>1, <3>1, <3>2
  <2>4. CASE UndoMarker(s)
    <3>1. /\ Go(s, "un.bootstrap") /\ job' = job /\ "un.bootstrap" \in Undo
          /\ sess[s].pc \in Undo \ {"un.bootout"} /\ sess[s].pc = "un.marker"
          /\ live'.marker = sess[s].marker /\ live'.plist = live.plist
      BY <1>1, <2>4 DEF UndoMarker, Undo, At, Files
    <3>2. sess[s].kind = "install" => job' = None /\ live'.plist = sess[s].plist
      BY <1>1, <2>1, <3>1 DEF Told, UndonePlace
    <3> QED
      BY <1>4, <2>1, <3>1, <3>2
  <2> QED
    BY <1>11, <2>2, <2>3, <2>4
<1>12. CASE UndoBootstrap(s)
  BY <1>2, <1>12, InstallFailsReports DEF UndoBootstrap, disk
<1> QED
  BY <1>5, <1>6, <1>7, <1>8, <1>9, <1>10, <1>11, <1>12 DEF Installing

LEMMA SilentReports ==
  ASSUME IInv, NEW s \in Sessions, Working(s), NEW p \in Silent, p \in Places, Go(s, p)
  PROVE  RInv'
BY SilentTold, GoReports

LEMMA PreparingReports ==
  ASSUME IInv, RInv, NEW s \in Sessions, CheckPending(s) \/ Validate(s) \/ ReadRuntime(s)
  PROVE  RInv'
<1>1. TypeOK /\ live \in Files /\ job \in Plists /\ Working(s) /\ sess[s] \in Sess
  BY DEF IInv, TypeOK, CheckPending, Validate, ReadRuntime, At, Working
<1>2. CASE CheckPending(s)
  <2>1. CASE RollBack(s, "first")
    <3>1. Others(s) /\ (Rests(s) \/ (sess'[s].pc = "rb.prepare" /\ sess'[s].reason = "first"))
      BY <1>1, <2>1, RollBackCarries
    <3>2. ASSUME sess'[s].pc = "rb.prepare", sess'[s].reason = "first" PROVE Told(s)'
      BY <3>2 DEF Told, BackedPlace, RestoredPlace, CommittedPlace, UndonePlace, Failing,
                  Unrecorded, Begin, Claude, Modes, Commit, Install, Undo
    <3> QED
      BY <1>1, <3>1, <3>2, ReportsCompose
  <2>2. CASE Go(s, "validate")
    BY <1>1, <2>2, SilentReports, SomePlaces DEF Silent, Shell
  <2> QED
    BY <1>2, <2>1, <2>2 DEF CheckPending
<1>3. CASE Validate(s)
  <2>1. CASE End(s)
    BY <1>1, <2>1, EndReports
  <2>2. CASE Proceed(s, [sess[s] EXCEPT !.pc = "runtime", !.keys = live.settings.keys])
    <3> DEFINE r == [sess[s] EXCEPT !.pc = "runtime", !.keys = live.settings.keys]
    <3>1. live.settings.keys \in Keys /\ "runtime" \in Places
      BY <1>1, SomePlaces DEF Shell, Files, Settings
    <3>2. r \in Sess /\ r.pc = "runtime"
      BY <1>1, <3>1 DEF Sess
    <3> HIDE DEF r
    <3>3. Others(s) /\ (Rests(s) \/ sess'[s] = r)
      BY <1>1, <2>2, <3>2, ProceedMoves DEF Others, Rests, r
    <3> QED
      BY <1>1, <3>2, <3>3, SilentTold, ReportsCompose DEF Silent
  <2> QED
    BY <1>3, <2>1, <2>2 DEF Validate
<1>4. CASE ReadRuntime(s)
  <2>1. CASE End(s)
    BY <1>1, <2>1, EndReports
  <2>2. CASE Proceed(s, [sess[s] EXCEPT !.pc = "begin", !.loaded = (job # None),
                                        !.found = <<live, job>>])
    <3> DEFINE r == [sess[s] EXCEPT !.pc = "begin", !.loaded = (job # None),
                                    !.found = <<live, job>>]
    <3>1. <<live, job>> \in Files \X Plists /\ "begin" \in Places /\ (job # None) \in BOOLEAN
      BY <1>1, SomePlaces DEF Begin
    <3>2. r \in Sess /\ r.pc = "begin" /\ r.found = <<live, job>>
      BY <1>1, <3>1 DEF Sess
    <3> HIDE DEF r
    <3>3. Others(s) /\ (Rests(s) \/ sess'[s] = r)
      BY <1>1, <2>2, <3>2, ProceedMoves DEF Others, Rests, r
    <3>4. live' = live /\ job' = job
      BY <1>4 DEF ReadRuntime, disk
    <3>5. sess'[s] = r => Told(s)'
      BY <3>2, <3>4 DEF Told, BackedPlace, RestoredPlace, CommittedPlace, UndonePlace, Failing,
                  Unrecorded, Begin, Claude, Modes, Commit, Install, Undo, Rollback
    <3> QED
      BY <1>1, <3>3, <3>5, ReportsCompose
  <2> QED
    BY <1>4, <2>1, <2>2 DEF ReadRuntime
<1> QED
  BY <1>2, <1>3, <1>4

LEMMA CommitReports ==
  ASSUME IInv, RInv, NEW s \in Sessions,
         CommitLink(s) \/ CommitUnlink(s) \/ CommitMark(s) \/ CommitReturn(s)
  PROVE  RInv'
<1>1. TypeOK /\ Working(s) /\ Told(s) /\ sess[s].pc \in Commit
  BY DEF IInv, RInv, CommitLink, CommitUnlink, CommitMark, CommitReturn, At, Working, Commit
<1>2. Backed(s) /\ Whole /\ Supervised
  BY <1>1 DEF Told, BackedPlace, IInv, Places_hold, Place, Committing
<1>3. UNCHANGED <<live, job, backup>>
  BY DEF CommitLink, CommitUnlink, CommitMark, CommitReturn, disk, intent
<1>4. CASE CommitLink(s) \/ CommitUnlink(s) \/ CommitMark(s)
  <2>1. PICK p \in {"commit.unlink", "commit.mark", "commit.return"} : Go(s, p)
    BY <1>4 DEF CommitLink, CommitUnlink, CommitMark
  <2>2. ASSUME sess'[s].pc = p, Carried(s) PROVE Told(s)'
    BY <1>2, <1>3, <2>2, StaysBacked, ToldOpen
    DEF Carried, Unrecorded, Begin, Claude, Modes, Commit
  <2> QED
    BY <1>1, <2>1, <2>2, GoReports, SomePlaces DEF Commit
<1>5. CASE CommitReturn(s)
  <2>1. Others(s) /\ (Rests(s) \/ (sess'[s].pc = "rb.prepare" /\ sess'[s].reason = "cleanup"))
    BY <1>1, <1>5, RollBackCarries DEF CommitReturn
  <2>2. ASSUME sess'[s].pc = "rb.prepare", sess'[s].reason = "cleanup" PROVE Told(s)'
    <3>1. (Whole /\ Supervised)'
      BY <1>2, <1>3 DEF Whole, Supervised
    <3> QED
      BY <2>2, <3>1 DEF Told, BackedPlace, RestoredPlace, CommittedPlace, UndonePlace, Failing,
                  Unrecorded, Begin, Claude, Modes, Commit, Install, Undo
  <2> QED
    BY <1>1, <2>1, <2>2, ReportsCompose
<1> QED
  BY <1>4, <1>5

\* A rollback that goes on, with what it has restored so far.
LEMMA ToldRollingBack ==
  ASSUME NEW s \in Sessions, sess'[s].pc \in Rollback,
         Failing(s)' /\ sess'[s].pc \in {"rb.prepare", "rb.quiesce", "rb.restore", "rb.runtime",
                                         "rb.unlink"} => Backed(s)',
         RestoredPlace(s)', CommittedPlace(s)'
  PROVE  Told(s)'
<1>1. sess'[s].pc \notin {"begin", "chmod", "bin", "schemas"} \cup Unrecorded \cup Commit
                         \cup Install \cup Undo
  BY DEF Unrecorded, Begin, Claude, Modes, Commit, Install, Undo, Rollback
<1> QED
  BY <1>1 DEF Told, BackedPlace, UndonePlace

\* The cleanup after a commit finds the cutover decided.
LEMMA CleanupIsDecided ==
  ASSUME IInv, NEW s \in Sessions, sess[s].pc \in Rollback, sess[s].reason = "cleanup"
  PROVE  ~Undecided
BY DEF IInv, Places_hold, Place, RollingBack

LEMMA RollbackReports ==
  ASSUME IInv, RInv, NEW s \in Sessions,
         PrepareRollback(s) \/ Quiesce(s) \/ UnlinkJournal(s) \/ RestoreRuntime(s)
  PROVE  RInv'
<1>1. TypeOK /\ Working(s) /\ Told(s) /\ sess[s].pc \in Rollback
  BY DEF IInv, RInv, PrepareRollback, Quiesce, UnlinkJournal, RestoreRuntime, At, Working, Rollback
<1>2. Undecided
  BY DEF IInv, Places_hold, Place, RollingBack, PrepareRollback, Quiesce, UnlinkJournal,
         RestoreRuntime, At, Undecided
<1>3. sess[s].reason # "cleanup"
  BY <1>1, <1>2, CleanupIsDecided
<1>4. Failing(s) => Backed(s)
  BY <1>1 DEF Told, BackedPlace, PrepareRollback, Quiesce, UnlinkJournal, RestoreRuntime, At
<1>5. live' = live /\ backup' = backup
  BY DEF PrepareRollback, Quiesce, UnlinkJournal, RestoreRuntime, disk, intent
<1>6. ASSUME NEW p \in {"rb.quiesce", "rb.restore", "rb.unlink", "rb.rmtree"}, Go(s, p),
             sess'[s].pc = p /\ Carried(s) => RestoredPlace(s)'
      PROVE  RInv'
  <2>1. p \in Places /\ p \in Rollback
    BY SomePlaces DEF Rollback
  <2>2. ASSUME sess'[s].pc = p, Carried(s) PROVE Told(s)'
    <3>1. Failing(s)' <=> Failing(s)
      BY <1>1, <2>1, <2>2 DEF Failing, Carried, Locals
    <3>2. Failing(s)' => Backed(s)'
      BY <1>4, <1>5, <2>2, <3>1, StaysBacked DEF Carried
    <3>3. CommittedPlace(s)'
      BY <1>3, <1>6, <2>1, <2>2 DEF CommittedPlace, Carried, Locals
    <3> QED
      BY <1>6, <2>1, <2>2, <3>2, <3>3, ToldRollingBack
  <2> QED
    BY <1>1, <1>6, <2>1, <2>2, GoReports
<1>7. CASE PrepareRollback(s)
  <2>1. Go(s, "rb.quiesce")
    BY <1>7 DEF PrepareRollback
  <2>2. sess'[s].pc = "rb.quiesce" => RestoredPlace(s)'
    BY DEF RestoredPlace
  <2> QED
    BY <1>6, <2>1, <2>2
<1>8. CASE Quiesce(s)
  <2>1. Go(s, "rb.restore") /\ sess[s].next = 1
    BY <1>8 DEF Quiesce, At, IInv, Places_hold, Place, RollingBack
  <2>2. sess'[s].pc = "rb.restore" /\ Carried(s) => RestoredPlace(s)'
    BY <2>1 DEF RestoredPlace, Carried, Locals
  <2> QED
    BY <1>6, <2>1, <2>2
<1>9. CASE RestoreRuntime(s)
  <2>1. Go(s, "rb.unlink") /\ sess[s].pc = "rb.runtime"
    BY <1>9 DEF RestoreRuntime, At
  <2>2. Failing(s) => live = sess[s].found[1]
    BY <1>1, <2>1 DEF Told, RestoredPlace
  <2>3. backup.loaded => live.plist # None
    <3>1. Same("plist")
      <4>1. Done(Len(Surfaces) + 1)
        BY <2>1 DEF IInv, Places_hold, Place, RollingBack
      <4> QED
        BY <4>1 DEF Done, Surfaces
    <3>2. BackupIsGood
      BY <1>2 DEF IInv, Shape
    <3> QED
      BY <3>1, <3>2 DEF Same, BackupIsGood
  <2>4. Failing(s) => job' = IF sess[s].found[2] = None THEN None ELSE live.plist
    BY <1>4, <1>9, <2>3 DEF RestoreRuntime, Backed
  <2>5. sess'[s].pc = "rb.unlink" /\ Carried(s) => RestoredPlace(s)'
    BY <1>1, <1>5, <2>2, <2>4 DEF RestoredPlace, Failing, Carried, Locals
  <2> QED
    BY <1>6, <2>1, <2>5
<1>10. CASE UnlinkJournal(s)
  <2>1. Go(s, "rb.rmtree") /\ sess[s].pc = "rb.unlink" /\ job' = job
    BY <1>10 DEF UnlinkJournal, At
  <2>2. sess'[s].pc = "rb.rmtree" /\ Carried(s) => RestoredPlace(s)'
    BY <1>1, <1>5, <2>1 DEF Told, RestoredPlace, Failing, Carried, Locals
  <2> QED
    BY <1>6, <2>1, <2>2
<1> QED
  BY <1>7, <1>8, <1>9, <1>10

\* The surfaces come back one by one, the executable bits fifth.
LEMMA RestoreReports ==
  ASSUME IInv, RInv, NEW s \in Sessions, Restore(s)
  PROVE  RInv'
<1>1. TypeOK /\ sess[s].pc = "rb.restore" /\ Working(s) /\ Told(s) /\ live \in Files
      /\ sess[s] \in Sess
  BY DEF Restore, At, Working, IInv, RInv, TypeOK
<1>2. journal /\ Undecided /\ Done(sess[s].next)
  BY <1>1 DEF IInv, Places_hold, Place, RollingBack, Undecided
<1>3. sess[s].reason # "cleanup"
  BY <1>1, <1>2, CleanupIsDecided DEF Rollback
<1>4. BackupIsGood /\ backup \in Backups /\ backup' = backup
  BY <1>1, <1>2 DEF IInv, Shape, BackupIsGood, TypeOK, Restore, intent
<1> PICK n \in 1 .. Len(Surfaces) : n = sess[s].next
  BY <1>1 DEF Sess
<1> DEFINE u == Surfaces[n]
<1>5. u \in Names /\ live' = Restored(u)
  BY <1>1, SurfacesAreNames DEF Restore
<1>6. /\ live' \in Files
      /\ u # "execs" => live'[u] = backup.files[u]
      /\ \A v \in Names : v # u => live'[v] = live[v]
  BY <1>1, <1>4, <1>5, RestoredIs
<1>7. live'.execs \in {live.execs, Executables} /\ (n = 5 => live'.execs = Executables)
  <2>1. n = 5 <=> u = "execs"
    BY DEF Surfaces
  <2>2. u # "execs" => live'.execs = live.execs
    BY <1>6 DEF Names
  <2>3. u = "execs" => live'.execs = Executables
    BY <1>1, <1>5 DEF Restored, Executables, Files
  <2> QED
    BY <2>1, <2>2, <2>3
<1>8. Executables' = Executables
  BY <1>4, <1>7 DEF Executables
<1>9. Failing(s) => Backed(s) /\ Executables = sess[s].found[1].execs
  BY <1>1 DEF Told, BackedPlace, Backed
<1>10. Failing(s) /\ n + 1 > 5 => live'.execs = sess[s].found[1].execs
  <2>1. CASE n = 5
    BY <1>7, <1>9, <2>1
  <2>2. CASE n > 5
    BY <1>1, <1>7, <1>9, <2>2 DEF Told, RestoredPlace
  <2> QED
    BY <2>1, <2>2, SurfacesAreNames
<1>11. Failing(s) /\ n = Len(Surfaces) => live' = sess[s].found[1]
  <2>1. SUFFICES ASSUME Failing(s), n = Len(Surfaces) PROVE live' = sess[s].found[1]
    OBVIOUS
  <2>2. backup.files = sess[s].found[1] /\ sess[s].found[1] \in Files
    BY <1>9, <2>1 DEF Backed, Backups
  <2>3. ASSUME NEW v \in Names, v # "execs" PROVE live'[v] = sess[s].found[1][v]
    <3>1. CASE v = u
      BY <1>6, <2>2, <2>3, <3>1
    <3>2. CASE v # u
      <4>1. PICK i \in 1 .. Len(Surfaces) : Surfaces[i] = v
        BY DEF Surfaces, Names
      <4>2. i < n
        BY <2>1, <3>2, <4>1, SurfacesAreNames
      <4>3. live[v] = backup.files[v]
        BY <1>2, <2>3, <4>1, <4>2 DEF Done, Same
      <4> QED
        BY <1>6, <2>2, <3>2, <4>3
    <3> QED
      BY <3>1, <3>2
  <2>4. live'.execs = sess[s].found[1].execs
    BY <1>10, <2>1, SurfacesAreNames
  <2> QED
    BY <1>6, <2>2, <2>3, <2>4 DEF Files, Names
<1>12. PICK r \in Sess :
         /\ sess' = [sess EXCEPT ![s] = r]
         /\ r.reason = sess[s].reason /\ r.found = sess[s].found
         /\ \/ r.pc = "rb.runtime" /\ n = Len(Surfaces)
            \/ r.pc = "rb.restore" /\ r.next = n + 1
  <2>1. CASE n = Len(Surfaces)
    <3>1. "rb.runtime" \in Places
      BY SomePlaces DEF Rollback
    <3>2. sess' = [sess EXCEPT ![s] = [sess[s] EXCEPT !.pc = "rb.runtime"]]
      BY <1>1, <2>1 DEF Restore, TypeOK
    <3> QED
      BY <1>1, <2>1, <3>1, <3>2, Fields
  <2>2. CASE n # Len(Surfaces)
    <3>1. n + 1 \in 1 .. Len(Surfaces)
      BY <2>2, SurfacesAreNames
    <3>2. sess' = [sess EXCEPT ![s] = [sess[s] EXCEPT !.next = n + 1]]
      BY <1>1, <2>2 DEF Restore, TypeOK
    <3> DEFINE r == [sess[s] EXCEPT !.next = n + 1]
    <3>3. /\ r \in Sess /\ r.reason = sess[s].reason /\ r.pc = sess[s].pc
          /\ r.found = sess[s].found /\ r.next = n + 1
      BY <1>1, <3>1 DEF Sess
    <3> QED
      BY <1>1, <3>2, <3>3
  <2> QED
    BY <2>1, <2>2
<1>13. Others(s) /\ sess'[s] = r
  BY <1>1, <1>12 DEF Others, TypeOK
<1>14. Failing(s)' <=> Failing(s)
  BY <1>1, <1>12, <1>13 DEF Failing, Rollback
<1>15. RestoredPlace(s)'
  BY <1>10, <1>11, <1>12, <1>13, <1>14 DEF RestoredPlace
<1>16. Failing(s)' => Backed(s)'
  BY <1>4, <1>8, <1>9, <1>12, <1>13, <1>14 DEF Backed
<1>17. CommittedPlace(s)'
  BY <1>3, <1>12, <1>13 DEF CommittedPlace
<1>18. Told(s)'
  BY <1>12, <1>13, <1>15, <1>16, <1>17, ToldRollingBack DEF Rollback
<1> QED
  BY <1>1, <1>13, <1>18, ReportsCompose

LEMMA CleanupReports ==
  ASSUME IInv, RInv, NEW s \in Sessions, FindCommitted(s) \/ RemoveBackup(s) \/ UnlinkGuard(s)
  PROVE  RInv'
<1>1. TypeOK /\ Working(s) /\ Told(s)
      /\ sess[s].pc \in {"rb.prepare", "rb.rmtree", "cl.rmtree", "cl.unlink"}
  BY DEF IInv, RInv, FindCommitted, RemoveBackup, UnlinkGuard, At, Working
<1>2. live' = live /\ job' = job
  BY DEF FindCommitted, RemoveBackup, UnlinkGuard, disk
<1>3. (sess[s].reason = "cleanup" => Whole /\ Supervised) /\ sess[s].pc \in Rollback
  BY <1>1 DEF Told, CommittedPlace, Rollback
<1>4. ASSUME NEW p \in {"rb.return", "cl.rmtree", "cl.unlink", "cl.return"}, Go(s, p),
             p = "rb.return" => sess[s].pc = "rb.rmtree"
      PROVE  RInv'
  <2>1. p \in Places /\ p \in Rollback
    BY SomePlaces DEF Rollback
  <2>2. ASSUME sess'[s].pc = p, Carried(s) PROVE Told(s)'
    <3>1. RestoredPlace(s)'
      BY <1>1, <1>2, <1>3, <1>4, <2>1, <2>2 DEF Told, RestoredPlace, Failing, Carried, Locals
    <3>2. CommittedPlace(s)'
      BY <1>2, <1>3, <2>2 DEF CommittedPlace, Failing, Carried, Locals, Whole, Supervised
    <3> QED
      BY <2>1, <2>2, <3>1, <3>2, ToldRollingBack
  <2> QED
    BY <1>1, <1>4, <2>1, <2>2, GoReports
<1>5. CASE FindCommitted(s)
  <2>1. CASE End(s)
    BY <1>1, <2>1, EndReports
  <2>2. CASE Go(s, "cl.rmtree")
    BY <1>4, <2>2
  <2> QED
    BY <1>5, <2>1, <2>2 DEF FindCommitted
<1>6. CASE RemoveBackup(s)
  <2>1. \/ sess[s].pc = "rb.rmtree" /\ Go(s, "rb.return")
        \/ Go(s, "cl.unlink")
    BY <1>6 DEF RemoveBackup, At
  <2> QED
    BY <1>4, <2>1
<1>7. CASE UnlinkGuard(s)
  <2>1. Go(s, "cl.return")
    BY <1>7 DEF UnlinkGuard
  <2> QED
    BY <1>4, <2>1
<1> QED
  BY <1>5, <1>6, <1>7

LEMMA ToldLegacy ==
  ASSUME NEW s \in Sessions, sess'[s].pc = "legacy", (Whole /\ Supervised)'
  PROVE  Told(s)'
BY DEF Told, BackedPlace, RestoredPlace, CommittedPlace, UndonePlace, Failing,
       Unrecorded, Begin, Claude, Modes, Commit, Install, Undo, Rollback

LEMMA ReturnReports ==
  ASSUME IInv, RInv, NEW s \in Sessions, RollbackReturn(s)
  PROVE  RInv'
<1>1. TypeOK /\ Working(s) /\ Told(s) /\ sess[s].pc \in Rollback
  BY DEF IInv, RInv, RollbackReturn, At, Working, Rollback
<1>2. live' = live /\ job' = job
  BY DEF RollbackReturn, disk
<1>3. CASE End(s)
  BY <1>1, <1>3, EndReports
<1>4. CASE sess[s].reason = "cleanup" /\ Go(s, "legacy")
  <2>1. Whole /\ Supervised
    BY <1>1, <1>4 DEF Told, CommittedPlace
  <2>2. sess'[s].pc = "legacy" => Told(s)'
    BY <1>2, <2>1, ToldLegacy DEF Whole, Supervised
  <2> QED
    BY <1>1, <1>4, <2>2, GoReports, SomePlaces DEF Shell
<1>5. CASE Go(s, "validate")
  BY <1>1, <1>5, SilentReports, SomePlaces DEF Silent, Shell
<1> QED
  BY <1>3, <1>4, <1>5 DEF RollbackReturn

LEMMA StepFailsReports ==
  ASSUME IInv, RInv, NEW s \in Sessions, StepFails(s)
  PROVE  RInv'
<1>1. TypeOK /\ Working(s) /\ Told(s)
  BY DEF IInv, RInv, StepFails
<1>2. UNCHANGED <<disk, job, intent>> /\ live' = live /\ backup' = backup /\ guard' = guard
  BY DEF StepFails, Fault, disk, intent
<1>3. CASE End(s)
  BY <1>1, <1>3, EndReports
<1>4. CASE sess[s].pc \in Trapped /\ RollBack(s, "failure")
  <2>1. CASE sess[s].pc = "commit.return"
    <3>1. Backed(s) /\ Whole /\ Supervised
      BY <1>1, <2>1 DEF Told, BackedPlace, Commit, IInv, Places_hold, Place, Committing
    <3> QED
      BY <1>1, <1>2, <1>4, <3>1, FailureReports DEF Whole, Supervised
  <2>2. CASE sess[s].pc # "commit.return"
    <3>1. Backed(s)
      BY <1>1, <1>4 DEF Told, BackedPlace, Trapped, Unrecorded, Claude, Modes, Commit
    <3>2. guard # "committed"
      <4>1. sess[s].pc \in Opened \cup {"commit.unlink", "commit.mark"}
        BY <1>4, <2>2 DEF Trapped, Claude, Modes, Commit, Opened
      <4> QED
        BY <4>1 DEF IInv, Places_hold, Place, Converging, Committing
    <3> QED
      BY <1>1, <1>2, <1>4, <3>1, <3>2, FailureReports
  <2> QED
    BY <2>1, <2>2
<1>5. CASE sess[s].pc \in Armed /\ Go(s, "un.bootout")
  <2>1. /\ sess[s].pc \in Install \ {"in.validate", "in.snapshot"} /\ "un.bootout" \in Undo
        /\ "un.bootout" \in Places
    BY <1>5, SomePlaces DEF Armed, Undo
  <2>2. ASSUME sess'[s].pc = "un.bootout", Carried(s) PROVE Told(s)'
    <3>1. UndonePlace(s)'
      BY <1>1, <1>2, <2>1, <2>2, Remembered DEF Told
    <3> QED
      BY <1>1, <1>2, <2>1, <2>2, <3>1, ToldInstaller DEF Carried, Locals
  <2> QED
    BY <1>1, <1>5, <2>1, <2>2, GoReports
<1>6. CASE sess[s].pc \in Install \cup Undo /\ InstallFails(s)
  BY <1>1, <1>2, <1>6, InstallFailsReports DEF intent
<1>7. CASE sess[s].pc \in Armed /\ sess[s].kind = "update" /\ RollBack(s, "failure")
  <2>1. sess[s].pc \in Install /\ InstallFails(s)
    BY <1>7 DEF Armed, InstallFails
  <2> QED
    BY <1>6, <2>1
<1>8. CASE sess[s].pc \in Rollback /\ sess[s].reason = "cleanup" /\ Go(s, "legacy")
  <2>1. Whole /\ Supervised
    BY <1>1, <1>8 DEF Told, CommittedPlace
  <2>2. sess'[s].pc = "legacy" => Told(s)'
    BY <1>2, <2>1, ToldLegacy DEF Whole, Supervised
  <2> QED
    BY <1>1, <1>8, <2>2, GoReports, SomePlaces DEF Shell
<1> QED
  BY <1>3, <1>4, <1>5, <1>6, <1>7, <1>8 DEF StepFails

LEMMA KilledReports ==
  ASSUME IInv, RInv, NEW s \in Sessions, Killed(s)
  PROVE  RInv'
<1>1. TypeOK /\ Working(s) /\ Told(s) /\ sess[s] \in Sess
  BY DEF IInv, RInv, Killed, TypeOK
<1>2. UNCHANGED <<disk, job, intent>>
  BY DEF Killed, Fault
<1>3. CASE End(s)
  BY <1>1, <1>3, EndReports
<1>4. CASE sess' = [sess EXCEPT ![s].orphan = TRUE]
  <2> DEFINE r == [sess[s] EXCEPT !.orphan = TRUE]
  <2>1. /\ r \in Sess /\ r.pc = sess[s].pc /\ r.kind = sess[s].kind /\ r.reason = sess[s].reason
        /\ r.next = sess[s].next /\ r.plist = sess[s].plist /\ r.marker = sess[s].marker
        /\ r.was = sess[s].was /\ r.found = sess[s].found
    BY <1>1 DEF Sess
  <2>2. sess' = [sess EXCEPT ![s] = r]
    BY <1>1, <1>4 DEF TypeOK
  <2> HIDE DEF r
  <2>3. Others(s) /\ sess'[s] = r
    BY <1>1, <2>1, <2>2 DEF Others, TypeOK
  <2>4. /\ Backed(s)' <=> Backed(s)
        /\ Failing(s)' <=> Failing(s)
        /\ (Whole /\ Supervised)' <=> (Whole /\ Supervised)
    BY <1>2, <2>1, <2>3
    DEF Backed, Executables, Failing, Whole, Supervised, disk, intent
  <2>5. BackedPlace(s)' /\ CommittedPlace(s)'
    BY <1>1, <1>2, <2>1, <2>3, <2>4 DEF Told, BackedPlace, CommittedPlace, disk, intent
  <2>6. RestoredPlace(s)' /\ UndonePlace(s)'
    BY <1>1, <1>2, <2>1, <2>3, <2>4 DEF Told, RestoredPlace, UndonePlace, disk, intent
  <2> QED
    BY <1>1, <2>3, <2>5, <2>6, ReportsCompose DEF Told
<1> QED
  BY <1>3, <1>4 DEF Killed

LEMMA UnmovedTold ==
  ASSUME NEW q \in Sessions, Told(q), sess'[q] = sess[q], UNCHANGED <<disk, job, intent>>
  PROVE  Told(q)'
<1>1. /\ Backed(q)' <=> Backed(q)
      /\ Failing(q)' <=> Failing(q)
      /\ (Whole /\ Supervised)' <=> (Whole /\ Supervised)
  BY DEF Backed, Executables, Failing, Whole, Supervised, disk, intent
<1>2. BackedPlace(q)' /\ CommittedPlace(q)'
  BY <1>1 DEF Told, BackedPlace, CommittedPlace, disk, intent
<1>3. RestoredPlace(q)' /\ UndonePlace(q)'
  BY <1>1 DEF Told, RestoredPlace, UndonePlace, disk, intent
<1> QED
  BY <1>2, <1>3 DEF Told

\* Sessions that wait, and those that begin.
LEMMA BeginningReports ==
  ASSUME IInv, RInv, NEW s \in Sessions, StartAny(s) \/ Acquire(s)
  PROVE  RInv'
<1>1. TypeOK /\ UNCHANGED <<disk, job, intent>>
  BY DEF IInv, StartAny, Start, Acquire
<1>2. Others(s) /\ Told(s)'
  <2>1. CASE StartAny(s)
    <3>1. PICK kind \in {"update", "install", "uninstall"}, w \in Wakers : Start(s, kind, w)
      BY <2>1 DEF StartAny
    <3> DEFINE r == [Resting EXCEPT !.pc = "waiting", !.kind = kind, !.waker = w]
    <3>2. r \in Sess /\ r.pc = "waiting"
      BY SomePlaces DEF Sess
    <3>3. sess' = [sess EXCEPT ![s] = r]
      BY <3>1 DEF Start
    <3> HIDE DEF r
    <3>4. Others(s) /\ sess'[s] = r
      BY <1>1, <3>2, <3>3 DEF Others, TypeOK
    <3> QED
      BY <3>2, <3>4, SilentTold DEF Silent
  <2>2. CASE Acquire(s)
    <3>1. sess[s] \in Sess
      BY <1>1 DEF TypeOK
    <3>2. PICK p \in {"pending", "in.validate", "off.bootout"} :
            /\ sess' = [sess EXCEPT ![s].pc = p]
            /\ p = "in.validate" => sess[s].kind # "update"
      <4>1. sess[s].kind \in {"update", "install", "uninstall"}
        BY <3>1 DEF Sess
      <4> QED
        BY <2>2, <4>1 DEF Acquire
    <3>3. p \in Places
      BY SomePlaces DEF Shell, Install, Uninstall
    <3>4. Others(s) /\ sess'[s].pc = p /\ sess'[s].kind = sess[s].kind
      BY <1>1, <3>1, <3>2, <3>3, Fields DEF Others, TypeOK
    <3> QED
      BY <3>2, <3>4, SilentTold DEF Silent, Uninstall
  <2> QED
    BY <2>1, <2>2
<1>3. ASSUME NEW q \in Sessions, q # s PROVE Told(q)'
  BY <1>1, <1>2, <1>3, UnmovedTold DEF Others, RInv
<1> QED
  BY <1>2, <1>3 DEF RInv

LEMMA UninstallingReports ==
  ASSUME IInv, RInv, NEW s \in Sessions, Uninstalling(s) \/ RemoveLegacy(s)
  PROVE  RInv'
<1>1. Working(s)
  BY DEF Uninstalling, RemoveLegacy, At, Working
<1>2. CASE End(s)
  BY <1>1, <1>2, EndReports
<1>3. ASSUME NEW p \in {"off.plist", "off.marker"}, Go(s, p) PROVE RInv'
  BY <1>1, <1>3, SilentReports, SomePlaces DEF Silent, Uninstall
<1> QED
  BY <1>2, <1>3 DEF Uninstalling, RemoveLegacy

LEMMA NextRInv == IInv /\ RInv /\ [Next]_vars => RInv'
<1>1. SUFFICES ASSUME IInv, RInv, [Next]_vars PROVE RInv'
  OBVIOUS
<1>2. CASE UNCHANGED vars
  BY <1>1, <1>2, UnmovedTold DEF RInv, vars
<1>3. ASSUME NEW s \in Sessions, StartAny(s) \/ Acquire(s) PROVE RInv'
  BY <1>1, <1>3, BeginningReports
<1>4. ASSUME NEW s \in Sessions, Updating(s) PROVE RInv'
  BY <1>1, <1>4, PreparingReports, BeginReports, ConvergingReports, ModesReports, LinkReports,
     UninstallingReports DEF Updating
<1>5. ASSUME NEW s \in Sessions, Deciding(s) PROVE RInv'
  BY <1>1, <1>5, CommitReports, RollbackReports, RestoreReports, CleanupReports, ReturnReports
  DEF Deciding
<1>6. ASSUME NEW s \in Sessions, Installing(s) \/ Uninstalling(s) PROVE RInv'
  BY <1>1, <1>6, InstallingReports, UninstallingReports
<1>7. ASSUME NEW s \in Sessions, StepFails(s) \/ Killed(s) PROVE RInv'
  BY <1>1, <1>7, StepFailsReports, KilledReports
<1> QED
  BY <1>1, <1>2, <1>3, <1>4, <1>5, <1>6, <1>7 DEF Next, Step

LEMMA ReportInvariant == Spec => []RInv
<1>1. Init => RInv
  <2>1. SUFFICES ASSUME Init, NEW s \in Sessions PROVE Told(s)
    BY DEF RInv
  <2>2. sess[s].pc = "idle"
    BY <2>1 DEF Init, Resting
  <2> QED
    BY <2>2 DEF Told, BackedPlace, RestoredPlace, CommittedPlace, UndonePlace, Failing,
                Unrecorded, Begin, Claude, Modes, Commit, Install, Undo, Rollback
<1>2. IInv /\ RInv /\ [Next]_vars => RInv'
  BY NextRInv
<1> QED
  BY <1>1, <1>2, Invariant, PTL DEF Spec

\* What the scripts report is so, for any number of sessions, versions, failures and
\* kills: an update that exits 0 left everything at one version and running; one that
\* says it restored, and an install that fails, left what they had found.
THEOREM Reported == Spec => ReportIsTrue
<1> DEFINE Truth(s) ==
      /\ SaysUpdated(s) =>
           /\ ~Undecided' /\ job' = Shared
           /\ live'.bin = live'.registry /\ live'.schemas = live'.registry
           /\ live'.settings = [keys |-> "kept", pruned |-> TRUE]
      /\ SaysRestored(s) =>
           /\ sess[s].kind = "update" => ~Undecided'
           /\ live' = sess[s].found[1]
           /\ job' = IF sess[s].found[2] = None THEN None ELSE live'.plist
<1>1. ASSUME IInv, RInv, NEW s \in Sessions, SaysUpdated(s)
      PROVE  /\ ~Undecided' /\ job' = Shared
             /\ live'.bin = live'.registry /\ live'.schemas = live'.registry
             /\ live'.settings = [keys |-> "kept", pruned |-> TRUE]
  <2>1. UNCHANGED <<live, job, intent>>
    BY <1>1 DEF SaysUpdated, RemoveLegacy, FindCommitted, disk
  <2>2. Whole /\ Supervised
    BY <1>1
    DEF SaysUpdated, RemoveLegacy, FindCommitted, At, RInv, Told, CommittedPlace, Failing, Rollback
  <2>3. ~Undecided
    BY <1>1
    DEF SaysUpdated, RemoveLegacy, FindCommitted, At, IInv, Places_hold, Place, RollingBack,
        Undecided
  <2> QED
    BY <2>1, <2>2, <2>3 DEF Whole, Supervised, Undecided, intent
<1>2. ASSUME IInv, RInv, NEW s \in Sessions, SaysRestored(s)
      PROVE  /\ sess[s].kind = "update" => ~Undecided'
             /\ live' = sess[s].found[1]
             /\ job' = IF sess[s].found[2] = None THEN None ELSE live'.plist
  <2>1. Told(s) /\ live \in Files
    BY <1>2 DEF RInv, IInv, TypeOK
  <2>2. CASE RollbackReturn(s) /\ sess[s].reason = "failure"
    <3>1. sess[s].pc = "rb.return" /\ UNCHANGED <<live, job, intent>>
      BY <2>2 DEF RollbackReturn, At, disk
    <3>2. ~Undecided
      BY <1>2, <3>1 DEF IInv, Places_hold, Place, RollingBack
    <3> QED
      BY <2>1, <2>2, <3>1, <3>2 DEF Told, RestoredPlace, Failing, Rollback, Undecided, intent
  <2>3. CASE UndoBootstrap(s) /\ sess[s].kind = "install"
    <3>1. /\ sess[s].pc = "un.bootstrap" /\ live' = live
          /\ job' = IF sess[s].was THEN live.plist ELSE job
      BY <2>3 DEF UndoBootstrap, At, disk
    <3>2. /\ sess[s].found[1] \in Files /\ job = None
          /\ sess[s].was = (sess[s].found[2] # None)
          /\ live.plist = sess[s].found[1].plist /\ live.marker = sess[s].found[1].marker
      BY <2>1, <2>3, <3>1 DEF Told, UndonePlace, Install, Undo
    <3>3. LET f == sess[s].found[1]
          IN  /\ live.registry = f.registry /\ live.settings = f.settings
              /\ live.bin = f.bin /\ live.schemas = f.schemas /\ live.execs = f.execs
      BY <2>1, <2>3, <3>1 DEF Told, UndonePlace, Install, Undo
    <3>4. live = sess[s].found[1]
      BY <2>1, <3>2, <3>3 DEF Files
    <3> QED
      BY <2>3, <3>1, <3>2, <3>4
  <2> QED
    BY <1>2, <2>2, <2>3 DEF SaysRestored
<1>3. IInv /\ RInv /\ [Next]_vars => [\A s \in Sessions : Truth(s)]_vars
  BY <1>1, <1>2
<1> QED
  BY <1>3, Invariant, ReportInvariant, PTL DEF Spec, ReportIsTrue
=============================================================================
