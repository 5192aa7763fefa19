---------------------- MODULE WorktreeLifecycle_proofs ----------------------
(***************************************************************************)
(* Theorems about WorktreeLifecycle, for any sets of processes, lifecycles *)
(* and branches and for all bounds.  Two invariants carry them.            *)
(*                                                                         *)
(* IInv, who may write a receipt: a process past its start continues or    *)
(* leaves, one that starts enters a lifecycle (Continue, Leave and Enter   *)
(* below), and all three keep the locks, the phases and the receipts in    *)
(* step; what happens outside touches none of them.                        *)
(*                                                                         *)
(* KInv, what a process may rely on in the repository: it works there      *)
(* under the repository's lock, what it has read of the ref under git's    *)
(* lock file is still so, what its phase says has been done, and the       *)
(* commits it approved have landed (Good, Harmless and Blank below).       *)
(***************************************************************************)
EXTENDS WorktreeLifecycle, TLAPS

Making == ((CreatePcs \cup AbortPcs) \ {"c_lock"}) \cup {"r_lock"}
Finishing == FinishPcs \ {"f_lock"}
Held == Making \cup Finishing \cup {"c_lock"}

\* Every process but an idle one has a lifecycle, and one that is past its
\* start holds that lifecycle's lock.
LockDiscipline ==
  \A p \in Procs :
    /\ proc[p].pc # "idle" => proc[p].life \in Lifecycles
    /\ proc[p].pc \in Held => lifeLock[proc[p].life] = p

\* Creation and rollback run on a creation phase, finish on a finish phase.
PhaseDiscipline ==
  \A p \in Procs :
    /\ proc[p].pc \in Making => receipt[proc[p].life].phase \in CREATION_PHASES
    /\ proc[p].pc \in Finishing => receipt[proc[p].life].phase \in FinishPhases
    /\ proc[p].pc = "f_lock" => proc[p].seen.phase \in LIFECYCLE_PHASES

\* A receipt names its branch and a token that no other receipt has.
Named ==
  \A l \in Lifecycles :
    receipt[l].phase # "none"
      => receipt[l].branch \in Branches /\ receipt[l].token \in 1 .. attempts
Distinct ==
  \A l, m \in Lifecycles :
    /\ receipt[l].phase # "none" /\ receipt[m].phase # "none"
    /\ receipt[l].token = receipt[m].token
    => l = m

\* From the detach of the ref to its restore the detached ref file is there.
Detached == {"ref_recheck", "ref_restore"}
RestoreHasClaim ==
  \A p \in Procs : proc[p].pc \in Detached => refClaim[Token(p)] # NoClaim

Control ==
  LockDiscipline /\ PhaseDiscipline /\ Named /\ Distinct /\ RestoreHasClaim
IInv == TypeOK /\ Control

\* TypeOK by who changes what.
ControlTyped ==
  /\ receipt \in [Lifecycles -> Receipts]
  /\ proc \in [Procs -> ProcStates]
  /\ lifeLock \in [Lifecycles -> Procs \cup {NoProc}]
DiskTyped ==
  /\ ref \in [Branches -> Refs]
  /\ refLock \in [Branches -> Ids]
  /\ refClaim \in [Tokens -> Ids \cup {NoClaim}]
  /\ tree \in [Ids -> Trees]
  /\ landed \subseteq Shas
  /\ repoLock \in Procs \cup {NoProc}
  /\ attempts \in 0 .. MaxAttempts
  /\ crashes \in 0 .. MaxCrashes
  /\ meddles \in 0 .. MaxMeddles

-----------------------------------------------------------------------------
(* The two ways a process goes on.                                         *)

OnlyMine(p) ==
  /\ receipt' = [receipt EXCEPT ![proc[p].life] = receipt'[proc[p].life]]
  /\ proc' = [proc EXCEPT ![p] = proc'[p]]
  /\ attempts' = attempts
  /\ \A t \in Tokens : t # Token(p) => refClaim'[t] = refClaim[t]
SameName(p) ==
  /\ receipt'[proc[p].life].branch = Mine(p).branch
  /\ receipt'[proc[p].life].token = Mine(p).token

Continue(p) ==
  /\ OnlyMine(p) /\ SameName(p) /\ lifeLock' = lifeLock
  /\ receipt'[proc[p].life] \in Receipts
  /\ proc'[p] \in ProcStates
  /\ proc'[p] # proc[p] /\ proc'[p].life = proc[p].life
  /\ \/ /\ proc[p].pc \in Making /\ proc'[p].pc \in Making
        /\ receipt'[proc[p].life].phase \in CREATION_PHASES
     \/ /\ proc[p].pc \in Finishing /\ proc'[p].pc \in Finishing
        /\ receipt'[proc[p].life].phase \in FinishPhases
  /\ proc'[p].pc \in Detached => refClaim'[Token(p)] # NoClaim

Leave(p) ==
  /\ OnlyMine(p) /\ Exit(p)
  /\ proc[p].pc \in Held \cup {"f_lock"}
  /\ refClaim' = refClaim
  /\ \/ receipt' = receipt
     \/ proc[p].pc \in Making /\ receipt'[proc[p].life] = NoReceipt
     \/ /\ proc[p].pc \in Making /\ SameName(p)
        /\ receipt'[proc[p].life] \in Receipts
        /\ receipt'[proc[p].life].phase # "none"
     \/ proc[p].pc \in Finishing /\ receipt'[proc[p].life] = NoReceipt
     \/ /\ proc[p].pc \in Finishing /\ SameName(p)
        /\ receipt'[proc[p].life] \in Receipts
        /\ receipt'[proc[p].life].phase \in FinishPhases

Enter(p) ==
  LET l == proc'[p].life IN
  /\ proc[p].pc \in {"idle", "f_lock"}
  /\ l \in Lifecycles /\ lifeLock[l] = NoProc
  /\ lifeLock' = [lifeLock EXCEPT ![l] = p]
  /\ proc' = [proc EXCEPT ![p] = proc'[p]] /\ proc'[p] \in ProcStates
  /\ proc'[p].pc \in Held \ Detached
  /\ attempts' = attempts /\ refClaim' = refClaim
  /\ \/ receipt' = receipt
     \/ /\ receipt[l].phase \in FinishPhases
        /\ receipt' = [receipt EXCEPT ![l].phase = "requested"]
  /\ proc'[p].pc \in Making => receipt[l].phase \in CREATION_PHASES
  /\ proc'[p].pc \in Finishing => receipt[l].phase \in FinishPhases

\* Nothing but the repository changes.
Quiet == UNCHANGED <<receipt, proc, lifeLock, refClaim, attempts>>

-----------------------------------------------------------------------------
LEMMA TypeSplit == TypeOK <=> ControlTyped /\ DiskTyped
  BY DEF TypeOK, ControlTyped, DiskTyped

LEMMA IdleTyped == Idle \in ProcStates /\ NoReceipt \in Receipts
  BY DEF Idle, ProcStates, NoReceipt, Receipts, Pcs, Ids, Foreign, NoClaim, NoSha, Shas

\* The phases and program points tell a creation from a finish.
LEMMA Kinds ==
  /\ "idle" \notin Held /\ "f_lock" \notin Held
  /\ Making \cap Finishing = {} /\ CREATION_PHASES \cap FinishPhases = {}
  /\ "none" \notin CREATION_PHASES \cup FinishPhases
  /\ Making \cup Finishing \subseteq Held
  /\ Detached \subseteq Making /\ "idle" \notin Detached
  /\ "c_lock" \notin Making \cup Finishing
  BY DEF Held, Detached, Making, Finishing, CreatePcs, AbortPcs, FinishPcs,
         CREATION_PHASES, RollbackPhases, AfterTree, FinishPhases

LEMMA ContinueTyped ==
  ASSUME IInv, NEW p \in Procs, Continue(p)
  PROVE  ControlTyped'
  BY DEF IInv, TypeOK, ControlTyped, Continue, OnlyMine

LEMMA LeaveTyped ==
  ASSUME IInv, NEW p \in Procs, Leave(p)
  PROVE  ControlTyped'
  BY IdleTyped DEF IInv, TypeOK, ControlTyped, Leave, OnlyMine, Exit

\* A process that holds a lifecycle is alone with its receipt.
LEMMA Alone ==
  ASSUME IInv, NEW p \in Procs, NEW q \in Procs, p # q,
         proc[p].pc \in Held, proc[q].pc \in Held
  PROVE  proc[p].life # proc[q].life
  BY DEF IInv, Control, LockDiscipline

LEMMA ContinueControl ==
  ASSUME IInv, NEW p \in Procs, Continue(p)
  PROVE  Control'
<1> DEFINE l == proc[p].life
<1>h. /\ proc[p].pc \in Held /\ proc'[p].pc \in Held /\ proc[p].pc # "idle"
  BY Kinds DEF Continue
<1>l. l \in Lifecycles /\ lifeLock[l] = p
  BY <1>h DEF IInv, Control, LockDiscipline
<1>t. proc \in [Procs -> ProcStates] /\ receipt \in [Lifecycles -> Receipts]
  BY DEF IInv, TypeOK
<1>o. /\ \A q \in Procs : q # p => proc'[q] = proc[q]
      /\ \A m \in Lifecycles : m # l => receipt'[m] = receipt[m]
  BY <1>t DEF Continue, OnlyMine
<1>n. receipt[l].phase # "none" /\ receipt'[l].phase # "none"
  BY <1>l, Kinds DEF Continue, IInv, Control, PhaseDiscipline
<1>s. /\ receipt'[l].branch = receipt[l].branch
      /\ receipt'[l].token = receipt[l].token /\ attempts' = attempts
      /\ proc'[p].life = l
  BY DEF Continue, SameName, OnlyMine, Mine
<1>1. LockDiscipline'
  BY <1>h, <1>l, <1>o, <1>s DEF IInv, Control, LockDiscipline, Continue
<1>2. PhaseDiscipline'
  <2> SUFFICES ASSUME NEW q \in Procs
               PROVE  /\ proc'[q].pc \in Making
                           => receipt'[proc'[q].life].phase \in CREATION_PHASES
                      /\ proc'[q].pc \in Finishing
                           => receipt'[proc'[q].life].phase \in FinishPhases
                      /\ proc'[q].pc = "f_lock"
                           => proc'[q].seen.phase \in LIFECYCLE_PHASES
    BY DEF PhaseDiscipline
  <2>1. CASE q = p
    BY <2>1, <1>s, Kinds DEF Continue
  <2>2. CASE q # p /\ proc[q].pc \in Making \cup Finishing
    <3>1. proc'[q] = proc[q] /\ proc[q].life \in Lifecycles /\ proc[q].life # l
      BY <2>2, <1>o, <1>h, Alone, Kinds DEF IInv, Control, LockDiscipline
    <3> QED BY <3>1, <1>o DEF IInv, Control, PhaseDiscipline
  <2>3. CASE q # p /\ proc[q].pc \notin Making \cup Finishing
    BY <2>3, <1>o DEF IInv, Control, PhaseDiscipline
  <2> QED BY <2>1, <2>2, <2>3
<1>3. Named'
  BY <1>l, <1>o, <1>n, <1>s DEF IInv, Control, Named
<1>4. Distinct'
  BY <1>l, <1>o, <1>n, <1>s DEF IInv, Control, Distinct
<1>5. RestoreHasClaim'
  <2> SUFFICES ASSUME NEW q \in Procs, proc'[q].pc \in Detached
               PROVE  refClaim'[receipt'[proc'[q].life].token] # NoClaim
    BY DEF RestoreHasClaim, Token, Mine
  <2>1. CASE q = p
    BY <2>1, <1>s DEF Continue, Token, Mine
  <2>2. CASE q # p
    <3> DEFINE m == proc[q].life
    <3>1. proc'[q] = proc[q] /\ m \in Lifecycles /\ m # l
          /\ receipt[m].phase # "none"
      BY <2>2, <1>o, <1>h, Alone, Kinds DEF IInv, Control, LockDiscipline, PhaseDiscipline
    <3>2. receipt[m].token # receipt[l].token /\ receipt[m].token \in Tokens
      BY <3>1, <1>l, <1>n, BoundsAssumption DEF IInv, Control, Distinct, Named, TypeOK, Tokens
    <3> QED BY <3>1, <3>2, <1>o
            DEF IInv, Control, RestoreHasClaim, Continue, OnlyMine, Token, Mine
  <2> QED BY <2>1, <2>2
<1> QED BY <1>1, <1>2, <1>3, <1>4, <1>5 DEF Control

LEMMA LeaveControl ==
  ASSUME IInv, NEW p \in Procs, Leave(p)
  PROVE  Control'
<1> DEFINE l == proc[p].life
<1>i. proc'[p] = Idle /\ Idle.pc = "idle" /\ attempts' = attempts
      /\ refClaim' = refClaim
  BY DEF Leave, Exit, IInv, TypeOK, OnlyMine, Idle
<1>l. l \in Lifecycles /\ (proc[p].pc \in Held => lifeLock[l] = p)
  BY Kinds DEF IInv, Control, LockDiscipline, Leave
<1>o. /\ \A q \in Procs : q # p => proc'[q] = proc[q]
      /\ \A m \in Lifecycles : m # l => receipt'[m] = receipt[m]
      /\ receipt' = receipt \/ proc[p].pc \in Held
  BY Kinds DEF Leave, OnlyMine, IInv, TypeOK
<1>n. \/ receipt'[l] = receipt[l]
      \/ receipt'[l].phase = "none"
      \/ /\ receipt[l].phase # "none"
         /\ receipt'[l].branch = receipt[l].branch
         /\ receipt'[l].token = receipt[l].token
  BY <1>l, Kinds DEF Leave, SameName, Mine, NoReceipt, IInv, Control, PhaseDiscipline
<1>q. ASSUME NEW q \in Procs, proc'[q].pc \in Held
      PROVE  /\ q # p /\ proc'[q] = proc[q] /\ proc[q].life \in Lifecycles
             /\ receipt'[proc[q].life] = receipt[proc[q].life]
  <2>1. q # p /\ proc'[q] = proc[q]
    BY <1>q, <1>i, <1>o, Kinds
  <2>2. proc[q].life \in Lifecycles
    BY <2>1, <1>q, Kinds DEF IInv, Control, LockDiscipline
  <2>3. CASE proc[p].pc \in Held
    BY <2>1, <2>2, <2>3, <1>q, <1>o, Alone
  <2> QED BY <2>1, <2>2, <2>3, <1>o
<1>1. LockDiscipline'
  <2> SUFFICES ASSUME NEW q \in Procs
               PROVE  /\ proc'[q].pc # "idle" => proc'[q].life \in Lifecycles
                      /\ proc'[q].pc \in Held => lifeLock'[proc'[q].life] = q
    BY DEF LockDiscipline
  <2>1. CASE q = p
    BY <2>1, <1>i, Kinds
  <2>2. CASE q # p
    BY <2>2, <1>o, <1>q DEF IInv, Control, LockDiscipline, Leave, Exit, TypeOK
  <2> QED BY <2>1, <2>2
<1>2. PhaseDiscipline'
  BY <1>q, <1>i, <1>o, Kinds DEF IInv, Control, PhaseDiscipline
<1>3. Named'
  BY <1>l, <1>o, <1>n, <1>i DEF IInv, Control, Named
<1>4. Distinct'
  BY <1>l, <1>o, <1>n DEF IInv, Control, Distinct
<1>5. RestoreHasClaim'
  BY <1>q, <1>i, Kinds DEF IInv, Control, RestoreHasClaim, Token, Mine
<1> QED BY <1>1, <1>2, <1>3, <1>4, <1>5 DEF Control

LEMMA EnterTyped ==
  ASSUME IInv, NEW p \in Procs, Enter(p)
  PROVE  ControlTyped'
<1> DEFINE l == proc'[p].life
<1>1. receipt[l] \in Receipts => [receipt[l] EXCEPT !.phase = "requested"] \in Receipts
  BY DEF Receipts, LIFECYCLE_PHASES, FinishPhases
<1> QED BY <1>1 DEF IInv, TypeOK, ControlTyped, Enter

LEMMA EnterControl ==
  ASSUME IInv, NEW p \in Procs, Enter(p)
  PROVE  Control'
<1> DEFINE l == proc'[p].life
<1>l. l \in Lifecycles /\ lifeLock[l] = NoProc /\ lifeLock'[l] = p
      /\ proc'[p].pc \in Held \ Detached
  BY DEF Enter, IInv, TypeOK
<1>r. /\ receipt'[l].branch = receipt[l].branch
      /\ receipt'[l].token = receipt[l].token
      /\ receipt'[l].phase # "none" => receipt[l].phase # "none"
      /\ receipt[l].phase \in CREATION_PHASES => receipt' = receipt
      /\ receipt[l].phase \in FinishPhases => receipt'[l].phase \in FinishPhases
      /\ \A m \in Lifecycles : m # l => receipt'[m] = receipt[m]
      /\ attempts' = attempts /\ refClaim' = refClaim
  BY <1>l, Kinds DEF Enter, IInv, TypeOK, Receipts, FinishPhases
<1>q. ASSUME NEW q \in Procs, q # p
      PROVE  /\ proc'[q] = proc[q]
             /\ proc[q].pc \in Held => proc[q].life \in Lifecycles /\ proc[q].life # l
  BY <1>q, <1>l, NamesAssumption, Kinds DEF Enter, IInv, TypeOK, Control, LockDiscipline
<1>1. LockDiscipline'
  BY <1>l, <1>q DEF IInv, Control, LockDiscipline, Enter, TypeOK
<1>2. PhaseDiscipline'
  <2> SUFFICES ASSUME NEW q \in Procs
               PROVE  /\ proc'[q].pc \in Making
                           => receipt'[proc'[q].life].phase \in CREATION_PHASES
                      /\ proc'[q].pc \in Finishing
                           => receipt'[proc'[q].life].phase \in FinishPhases
                      /\ proc'[q].pc = "f_lock"
                           => proc'[q].seen.phase \in LIFECYCLE_PHASES
    BY DEF PhaseDiscipline
  <2>1. CASE q = p
    BY <2>1, <1>l, <1>r, Kinds DEF Enter
  <2>2. CASE q # p
    BY <2>2, <1>q, <1>r, Kinds DEF IInv, Control, PhaseDiscipline
  <2> QED BY <2>1, <2>2
<1>3. Named'
  BY <1>l, <1>r DEF IInv, Control, Named
<1>4. Distinct'
  BY <1>l, <1>r DEF IInv, Control, Distinct
<1>5. RestoreHasClaim'
  BY <1>l, <1>q, <1>r, Kinds DEF IInv, Control, RestoreHasClaim, Token, Mine
<1> QED BY <1>1, <1>2, <1>3, <1>4, <1>5 DEF Control

LEMMA QuietControl ==
  ASSUME IInv, Quiet
  PROVE  ControlTyped' /\ Control'
  BY DEF IInv, TypeOK, ControlTyped, Quiet, Control, LockDiscipline,
         PhaseDiscipline, Named, Distinct, RestoreHasClaim, Token, Mine

-----------------------------------------------------------------------------
(* Every step of a process that is past its start.                         *)

\* What a working process knows of its receipt.
LEMMA Mined ==
  ASSUME IInv, NEW p \in Procs, proc[p].pc \in Making \cup Finishing
  PROVE  /\ proc[p] \in ProcStates /\ proc[p].life \in Lifecycles
         /\ Mine(p) = receipt[proc[p].life] /\ Mine(p) \in Receipts
         /\ Mine(p).phase \in CREATION_PHASES \cup FinishPhases
         /\ Mine(p).branch \in Branches /\ Token(p) \in Tokens
         /\ Token(p) = Mine(p).token
         /\ receipt \in [Lifecycles -> Receipts] /\ proc \in [Procs -> ProcStates]
  BY Kinds, BoundsAssumption
  DEF IInv, TypeOK, Control, LockDiscipline, PhaseDiscipline, Named, Mine, Token, Tokens

LEMMA Values ==
  /\ Tokens \subseteq Ids /\ Foreign \in Ids /\ Free \in Ids
  /\ NoClaim \notin Ids /\ Source \in Shas /\ NoSha \notin Shas
  /\ NoRef \in Refs /\ NoTree \in Trees
  BY BoundsAssumption
  DEF Tokens, Ids, Foreign, Free, NoClaim, Source, Shas, NoSha, Refs, NoRef,
      Trees, NoTree

\* How a creation or a rollback may rewrite its receipt on the way.
Rewrites(p) ==
  \/ receipt' = receipt
  \/ \E f \in CREATION_PHASES : Write(p, f)
  \/ \E a \in {"prepared", "committed"} :
       receipt' = [receipt EXCEPT ![proc[p].life].alloc = a]
  \/ \E i \in Ids : receipt' = [receipt EXCEPT ![proc[p].life].refId = i]

LEMMA RewritesReceipt ==
  ASSUME IInv, NEW p \in Procs, proc[p].pc \in Making, Rewrites(p)
  PROVE  /\ receipt' = [receipt EXCEPT ![proc[p].life] = receipt'[proc[p].life]]
         /\ receipt'[proc[p].life] \in Receipts
         /\ receipt'[proc[p].life].phase \in CREATION_PHASES
         /\ SameName(p)
<1> DEFINE r == Mine(p)
<1>m. r \in Receipts /\ r = receipt[proc[p].life] /\ r.phase \in CREATION_PHASES
  BY Mined DEF IInv, Control, PhaseDiscipline
<1>1. \/ receipt'[proc[p].life] = r
      \/ \E f \in CREATION_PHASES : receipt'[proc[p].life] = [r EXCEPT !.phase = f]
      \/ \E a \in {"prepared", "committed"} :
           receipt'[proc[p].life] = [r EXCEPT !.alloc = a]
      \/ \E i \in Ids : receipt'[proc[p].life] = [r EXCEPT !.refId = i]
  BY <1>m, Mined DEF Rewrites, Write
<1>2. /\ receipt'[proc[p].life] \in Receipts
      /\ receipt'[proc[p].life].phase \in CREATION_PHASES
      /\ receipt'[proc[p].life].branch = r.branch
      /\ receipt'[proc[p].life].token = r.token
  BY <1>m, <1>1 DEF Receipts, LIFECYCLE_PHASES
<1>3. receipt' = [receipt EXCEPT ![proc[p].life] = receipt'[proc[p].life]]
  BY <1>m, Mined DEF Rewrites, Write
<1> QED BY <1>2, <1>3 DEF SameName

Identify(p, c) == proc' = [proc EXCEPT ![p].pc = c, ![p].ident = TRUE]

\* A step of a creation or a rollback that goes to another point of it.
LEMMA MakingContinues ==
  ASSUME IInv, NEW p \in Procs, proc[p].pc \in Making,
         NEW c \in Making, c # proc[p].pc,
         Goto(p, c) \/ Refuse(p, c) \/ Identify(p, c),
         Rewrites(p), lifeLock' = lifeLock, attempts' = attempts,
         \A t \in Tokens : t # Token(p) => refClaim'[t] = refClaim[t],
         c \in Detached => refClaim'[Token(p)] # NoClaim
  PROVE  Continue(p)
<1>1. /\ proc' = [proc EXCEPT ![p] = proc'[p]] /\ proc'[p] \in ProcStates
      /\ proc'[p] # proc[p] /\ proc'[p].life = proc[p].life /\ proc'[p].pc = c
  <2>1. c \in Pcs
    BY DEF Making, Pcs
  <2> QED BY <2>1, Mined DEF Goto, Refuse, Identify, ProcStates
<1> QED BY <1>1, RewritesReceipt DEF Continue, OnlyMine

\* The same for finish.
Approves(p) ==
  \E sha \in Shas :
    receipt' = [receipt EXCEPT ![proc[p].life].phase = "approved",
                               ![proc[p].life].approved = sha]
LEMMA FinishingContinues ==
  ASSUME IInv, NEW p \in Procs, proc[p].pc \in Finishing,
         NEW c \in Finishing, c # proc[p].pc, Goto(p, c),
         receipt' = receipt \/ (\E f \in FinishPhases : Write(p, f)) \/ Approves(p),
         lifeLock' = lifeLock, attempts' = attempts, refClaim' = refClaim
  PROVE  Continue(p)
<1>1. /\ proc' = [proc EXCEPT ![p] = proc'[p]] /\ proc'[p] \in ProcStates
      /\ proc'[p] # proc[p] /\ proc'[p].life = proc[p].life /\ proc'[p].pc = c
  <2>1. c \in Pcs
    BY DEF Finishing, Pcs
  <2> QED BY <2>1, Mined DEF Goto, ProcStates
<1> DEFINE r == Mine(p)
<1>m. r \in Receipts /\ r = receipt[proc[p].life] /\ r.phase \in FinishPhases
  BY Mined DEF IInv, Control, PhaseDiscipline
<1>2. /\ receipt' = [receipt EXCEPT ![proc[p].life] = receipt'[proc[p].life]]
      /\ \/ receipt'[proc[p].life] = r
         \/ \E f \in FinishPhases : receipt'[proc[p].life] = [r EXCEPT !.phase = f]
         \/ \E sha \in Shas :
              receipt'[proc[p].life] = [r EXCEPT !.phase = "approved", !.approved = sha]
  <2>1. CASE receipt' = receipt
    BY <2>1, <1>m, Mined
  <2>2. CASE \E f \in FinishPhases : Write(p, f)
    BY <2>2, <1>m, Mined DEF Write
  <2>3. CASE Approves(p)
    <3>1. PICK sha \in Shas :
            receipt' = [receipt EXCEPT ![proc[p].life].phase = "approved",
                                       ![proc[p].life].approved = sha]
      BY <2>3 DEF Approves
    <3>2. receipt' = [receipt EXCEPT ![proc[p].life] =
                        [r EXCEPT !.phase = "approved", !.approved = sha]]
      BY <3>1, <1>m, Mined
    <3> QED BY <3>2, Mined
  <2> QED BY <2>1, <2>2, <2>3
<1>3. /\ receipt'[proc[p].life] \in Receipts
      /\ receipt'[proc[p].life].phase \in FinishPhases
      /\ receipt'[proc[p].life].branch = r.branch
      /\ receipt'[proc[p].life].token = r.token
  BY <1>m, <1>2 DEF Receipts, LIFECYCLE_PHASES, FinishPhases
<1> QED BY <1>1, <1>2, <1>3, Kinds DEF Continue, OnlyMine, SameName

LEMMA RecoverLockMoves ==
  ASSUME IInv, NEW p \in Procs, RecoverLock(p)
  PROVE  Continue(p) /\ DiskTyped'
<1>m. proc[p].pc = "r_lock" /\ "r_lock" \in Making
  BY DEF RecoverLock, Making, AbortPcs
<1>g. Goto(p, "claim")
  BY DEF RecoverLock
<1>r. Rewrites(p)
  BY Mined, <1>m DEF RecoverLock, Rewrites, disk
<1>1. Continue(p)
  BY <1>m, <1>g, <1>r, MakingContinues
  DEF RecoverLock, Making, AbortPcs, Detached, locks, disk, Rest
<1>2. DiskTyped'
  BY <1>m, Mined, Values
  DEF RecoverLock, DiskTyped, IInv, TypeOK, Trees, Rest, locks, disk, TakeRepo
<1> QED BY <1>1, <1>2

LEMMA ClaimWorktreeMoves ==
  ASSUME IInv, NEW p \in Procs, ClaimWorktree(p)
  PROVE  Continue(p) /\ DiskTyped'
<1>m. proc[p].pc = "claim" /\ "claim" \in Making
  BY DEF ClaimWorktree, Making, AbortPcs
<1>g. \/ Goto(p, "branch") \/ Goto(p, "verify_claim") \/ Goto(p, "detach_tree")
      \/ Refuse(p, "branch") \/ Goto(p, "move") \/ Goto(p, "journal_removed")
  BY DEF ClaimWorktree
<1>r. Rewrites(p)
  BY Mined, <1>m DEF ClaimWorktree, Rewrites, disk
<1>1. Continue(p)
  BY <1>m, <1>g, <1>r, MakingContinues
  DEF ClaimWorktree, Making, AbortPcs, Detached, locks, disk, Rest
<1>2. DiskTyped'
  BY <1>m, Mined, Values
  DEF ClaimWorktree, DiskTyped, IInv, TypeOK, Trees, Rest, locks, disk
<1> QED BY <1>1, <1>2

LEMMA MoveToClaimMoves ==
  ASSUME IInv, NEW p \in Procs, MoveToClaim(p)
  PROVE  Continue(p) /\ DiskTyped'
<1>m. proc[p].pc = "move" /\ "move" \in Making
  BY DEF MoveToClaim, Making, AbortPcs
<1>g. Goto(p, "verify_claim") \/ Refuse(p, "branch")
  BY DEF MoveToClaim
<1>r. Rewrites(p)
  BY Mined, <1>m DEF MoveToClaim, Rewrites, disk
<1>1. Continue(p)
  BY <1>m, <1>g, <1>r, MakingContinues
  DEF MoveToClaim, Making, AbortPcs, Detached, locks, disk, Rest
<1>t. tree' \in [Ids -> Trees]
  <2>1. CASE UNCHANGED tree
    BY <2>1 DEF IInv, TypeOK
  <2>2. ASSUME NEW u \in Ids,
               tree' = [tree EXCEPT ![u].place = "claim", ![u].tok = Token(p)]
        PROVE  tree' \in [Ids -> Trees]
    <3>1. [tree[u] EXCEPT !.place = "claim", !.tok = Token(p)] \in Trees
      BY <1>m, Mined, Values DEF IInv, TypeOK, Trees
    <3> QED BY <2>2, <3>1 DEF IInv, TypeOK
  <2> QED BY <2>1, <2>2 DEF MoveToClaim, At
<1>2. DiskTyped'
  BY <1>m, Mined, Values, <1>t
  DEF MoveToClaim, DiskTyped, IInv, TypeOK, Trees, Rest, locks, disk, At
<1> QED BY <1>1, <1>2

LEMMA VerifyClaimMoves ==
  ASSUME IInv, NEW p \in Procs, VerifyClaim(p)
  PROVE  Continue(p) /\ DiskTyped'
<1>m. proc[p].pc = "verify_claim" /\ "verify_claim" \in Making
  BY DEF VerifyClaim, Making, AbortPcs
<1>g. Goto(p, "detach_tree") \/ Refuse(p, "branch")
  BY DEF VerifyClaim
<1>r. Rewrites(p)
  BY Mined, <1>m DEF VerifyClaim, Rewrites, CREATION_PHASES, RollbackPhases, AfterTree
<1>1. Continue(p)
  BY <1>m, <1>g, <1>r, MakingContinues
  DEF VerifyClaim, Making, AbortPcs, Detached, locks, disk, Rest
<1>t. tree' \in [Ids -> Trees]
  <2>1. ASSUME NEW u \in Ids
        PROVE  [tree[u] EXCEPT !.place = "target", !.life = proc[p].life,
                               !.tok = Foreign] \in Trees
    BY <1>m, Mined, Values DEF IInv, TypeOK, Trees
  <2> QED BY <2>1 DEF VerifyClaim, IInv, TypeOK
<1>2. DiskTyped'
  BY <1>m, Mined, Values, <1>t
  DEF VerifyClaim, DiskTyped, IInv, TypeOK, Trees, Rest, locks, disk, At, Claimed
<1> QED BY <1>1, <1>2

LEMMA DetachTreeMoves ==
  ASSUME IInv, NEW p \in Procs, DetachTree(p)
  PROVE  Continue(p) /\ DiskTyped'
<1>m. proc[p].pc = "detach_tree" /\ "detach_tree" \in Making
  BY DEF DetachTree, Making, AbortPcs
<1>g. Goto(p, "detach_admin") \/ Refuse(p, "branch")
  BY DEF DetachTree
<1>r. Rewrites(p)
  BY Mined, <1>m DEF DetachTree, Rewrites, disk
<1>1. Continue(p)
  BY <1>m, <1>g, <1>r, MakingContinues
  DEF DetachTree, Making, AbortPcs, Detached, locks, disk, Rest
<1>2. DiskTyped'
  BY <1>m, Mined, Values
  DEF DetachTree, DiskTyped, IInv, TypeOK, Trees, Rest, locks, disk, Claimed
<1> QED BY <1>1, <1>2

LEMMA DetachAdminMoves ==
  ASSUME IInv, NEW p \in Procs, DetachAdmin(p)
  PROVE  Continue(p) /\ DiskTyped'
<1>m. proc[p].pc = "detach_admin" /\ "detach_admin" \in Making
  BY DEF DetachAdmin, Making, AbortPcs
<1>g. Goto(p, "dispose") \/ Refuse(p, "branch")
  BY DEF DetachAdmin
<1>r. Rewrites(p)
  BY Mined, <1>m DEF DetachAdmin, Rewrites, disk
<1>1. Continue(p)
  BY <1>m, <1>g, <1>r, MakingContinues
  DEF DetachAdmin, Making, AbortPcs, Detached, locks, disk, Rest
<1>2. DiskTyped'
  BY <1>m, Mined, Values
  DEF DetachAdmin, DiskTyped, IInv, TypeOK, Trees, Rest, locks, disk
<1> QED BY <1>1, <1>2

LEMMA DisposeMoves ==
  ASSUME IInv, NEW p \in Procs, Dispose(p)
  PROVE  Continue(p) /\ DiskTyped'
<1>m. proc[p].pc = "dispose" /\ "dispose" \in Making
  BY DEF Dispose, Making, AbortPcs
<1>g. Goto(p, "journal_removed") \/ Refuse(p, "branch")
  BY DEF Dispose
<1>r. Rewrites(p)
  BY Mined, <1>m DEF Dispose, Rewrites, disk
<1>1. Continue(p)
  BY <1>m, <1>g, <1>r, MakingContinues
  DEF Dispose, Making, AbortPcs, Detached, locks, disk, Rest
<1>2. DiskTyped'
  BY <1>m, Mined, Values
  DEF Dispose, DiskTyped, IInv, TypeOK, Trees, Rest, locks, disk
<1> QED BY <1>1, <1>2

LEMMA JournalRemovedMoves ==
  ASSUME IInv, NEW p \in Procs, JournalRemoved(p)
  PROVE  Continue(p) /\ DiskTyped'
<1>m. proc[p].pc = "journal_removed" /\ "journal_removed" \in Making
  BY DEF JournalRemoved, Making, AbortPcs
<1>g. Goto(p, "branch")
  BY DEF JournalRemoved
<1>r. Rewrites(p)
  BY Mined, <1>m DEF JournalRemoved, Rewrites, CREATION_PHASES, RollbackPhases, AfterTree
<1>1. Continue(p)
  BY <1>m, <1>g, <1>r, MakingContinues
  DEF JournalRemoved, Making, AbortPcs, Detached, locks, disk, Rest
<1>2. DiskTyped'
  BY <1>m, Mined, Values
  DEF JournalRemoved, DiskTyped, IInv, TypeOK, Trees, Rest, locks, disk
<1> QED BY <1>1, <1>2

LEMMA BranchIntentMoves ==
  ASSUME IInv, NEW p \in Procs, BranchIntent(p)
  PROVE  Continue(p) /\ DiskTyped'
<1>m. proc[p].pc = "branch" /\ "branch" \in Making
  BY DEF BranchIntent, Making, AbortPcs
<1>g. Goto(p, "settle") \/ Refuse(p, "settle") \/ Goto(p, "ref_lock")
  BY DEF BranchIntent
<1>r. Rewrites(p)
  BY Mined, <1>m DEF BranchIntent, Rewrites, CREATION_PHASES, RollbackPhases, AfterTree
<1>1. Continue(p)
  BY <1>m, <1>g, <1>r, MakingContinues
  DEF BranchIntent, Making, AbortPcs, Detached, locks, disk, Rest
<1>2. DiskTyped'
  BY <1>m, Mined, Values
  DEF BranchIntent, DiskTyped, IInv, TypeOK, Trees, Rest, locks, disk, ReleaseRef
<1> QED BY <1>1, <1>2

LEMMA LockRefMoves ==
  ASSUME IInv, NEW p \in Procs, LockRef(p)
  PROVE  Continue(p) /\ DiskTyped'
<1>m. proc[p].pc = "ref_lock" /\ "ref_lock" \in Making
  BY DEF LockRef, Making, AbortPcs
<1>g. Goto(p, "ref_check") \/ Refuse(p, "settle")
  BY DEF LockRef
<1>r. Rewrites(p)
  BY Mined, <1>m DEF LockRef, Rewrites, disk
<1>1. Continue(p)
  BY <1>m, <1>g, <1>r, MakingContinues
  DEF LockRef, Making, AbortPcs, Detached, locks, disk, Rest
<1>2. DiskTyped'
  BY <1>m, Mined, Values
  DEF LockRef, DiskTyped, IInv, TypeOK, Trees, Rest, locks, disk
<1> QED BY <1>1, <1>2

LEMMA CheckRefMoves ==
  ASSUME IInv, NEW p \in Procs, CheckRef(p)
  PROVE  Continue(p) /\ DiskTyped'
<1>m. proc[p].pc = "ref_check" /\ "ref_check" \in Making
  BY DEF CheckRef, Making, AbortPcs
<1>g. \/ Refuse(p, "settle") \/ Goto(p, "ref_restore") \/ Goto(p, "ref_drop")
      \/ Goto(p, "ref_gone") \/ Goto(p, "ref_detach")
  BY DEF CheckRef, RefuseRef
<1>i. ref[Mine(p).branch].id \in Ids
  BY <1>m, Mined DEF IInv, TypeOK, Refs
<1>r. Rewrites(p)
  BY Mined, <1>m, <1>i DEF CheckRef, RefuseRef, Rewrites, CREATION_PHASES, RollbackPhases, AfterTree
<1>d. Goto(p, "ref_restore") => refClaim[Token(p)] # NoClaim
  <2> SUFFICES ASSUME refClaim[Token(p)] = NoClaim PROVE ~Goto(p, "ref_restore")
    OBVIOUS
  <2>1. \/ Refuse(p, "settle") \/ Goto(p, "ref_drop") \/ Goto(p, "ref_gone")
        \/ Goto(p, "ref_detach")
    BY DEF CheckRef, RefuseRef, Token
  <2> QED BY <2>1, Mined, <1>m DEF Goto, Refuse, ProcStates
<1>1. Continue(p)
  BY <1>m, <1>g, <1>r, <1>d, MakingContinues
  DEF CheckRef, Making, AbortPcs, Detached, locks, disk, Rest
<1>2. DiskTyped'
  BY <1>m, Mined, Values
  DEF CheckRef, DiskTyped, IInv, TypeOK, Trees, Rest, locks, disk, RefuseRef, ReleaseRef
<1> QED BY <1>1, <1>2

LEMMA DetachRefMoves ==
  ASSUME IInv, NEW p \in Procs, DetachRef(p)
  PROVE  Continue(p) /\ DiskTyped'
<1>m. proc[p].pc = "ref_detach" /\ "ref_detach" \in Making
  BY DEF DetachRef, Making, AbortPcs
<1>g. Refuse(p, "settle") \/ Goto(p, "ref_recheck")
  BY DEF DetachRef, RefuseRef
<1>r. Rewrites(p)
  BY Mined, <1>m DEF DetachRef, RefuseRef, Rewrites, CREATION_PHASES, RollbackPhases, AfterTree
<1>d. refClaim'[Token(p)] # NoClaim
  <2>1. ref[Mine(p).branch].id \in Ids
    BY <1>m, Mined DEF IInv, TypeOK, Refs
  <2> QED BY <2>1, <1>m, Mined, Values DEF DetachRef, IInv, TypeOK
<1>1. Continue(p)
  BY <1>m, <1>g, <1>r, <1>d, MakingContinues
  DEF DetachRef, Making, AbortPcs, Detached, locks, disk, Rest, RefuseRef, IInv, TypeOK
<1>2. DiskTyped'
  BY <1>m, Mined, Values
  DEF DetachRef, DiskTyped, IInv, TypeOK, Trees, Rest, locks, disk, RefuseRef, ReleaseRef, Refs
<1> QED BY <1>1, <1>2

LEMMA RecheckOwnersMoves ==
  ASSUME IInv, NEW p \in Procs, RecheckOwners(p)
  PROVE  Continue(p) /\ DiskTyped'
<1>m. proc[p].pc = "ref_recheck" /\ "ref_recheck" \in Making
  BY DEF RecheckOwners, Making, AbortPcs
<1>g. Goto(p, "ref_restore") \/ Goto(p, "ref_drop")
  BY DEF RecheckOwners
<1>r. Rewrites(p)
  BY Mined, <1>m DEF RecheckOwners, Rewrites, CREATION_PHASES, RollbackPhases, AfterTree
<1>d. refClaim'[Token(p)] # NoClaim
  BY <1>m DEF RecheckOwners, IInv, Control, RestoreHasClaim, Detached
<1>1. Continue(p)
  BY <1>m, <1>g, <1>r, <1>d, MakingContinues
  DEF RecheckOwners, Making, AbortPcs, Detached, locks, disk, Rest
<1>2. DiskTyped'
  BY <1>m, Mined, Values
  DEF RecheckOwners, DiskTyped, IInv, TypeOK, Trees, Rest, locks, disk
<1> QED BY <1>1, <1>2

LEMMA RestoreRefMoves ==
  ASSUME IInv, NEW p \in Procs, RestoreRef(p)
  PROVE  Continue(p) /\ DiskTyped'
<1>m. proc[p].pc = "ref_restore" /\ "ref_restore" \in Making
  BY DEF RestoreRef, Making, AbortPcs
<1>g. Goto(p, "ref_unclaim")
  BY DEF RestoreRef
<1>r. Rewrites(p)
  BY Mined, <1>m DEF RestoreRef, Rewrites, disk
<1>1. Continue(p)
  BY <1>m, <1>g, <1>r, MakingContinues
  DEF RestoreRef, Making, AbortPcs, Detached, locks, disk, Rest
<1>2. DiskTyped'
  BY <1>m, Mined, Values
  DEF RestoreRef, DiskTyped, IInv, TypeOK, Trees, Rest, locks, disk, Refs,
      Control, RestoreHasClaim, Detached
<1> QED BY <1>1, <1>2

LEMMA UnclaimRefMoves ==
  ASSUME IInv, NEW p \in Procs, UnclaimRef(p)
  PROVE  Continue(p) /\ DiskTyped'
<1>m. proc[p].pc = "ref_unclaim" /\ "ref_unclaim" \in Making
  BY DEF UnclaimRef, Making, AbortPcs
<1>g. Refuse(p, "settle")
  BY DEF UnclaimRef
<1>r. Rewrites(p)
  BY Mined, <1>m DEF UnclaimRef, Rewrites, CREATION_PHASES, RollbackPhases, AfterTree
<1>1. Continue(p)
  BY <1>m, <1>g, <1>r, MakingContinues
  DEF UnclaimRef, Making, AbortPcs, Detached, locks, disk, Rest
<1>2. DiskTyped'
  BY <1>m, Mined, Values
  DEF UnclaimRef, DiskTyped, IInv, TypeOK, Trees, Rest, locks, disk, ReleaseRef
<1> QED BY <1>1, <1>2

LEMMA DropRefMoves ==
  ASSUME IInv, NEW p \in Procs, DropRef(p)
  PROVE  Continue(p) /\ DiskTyped'
<1>m. proc[p].pc = "ref_drop" /\ "ref_drop" \in Making
  BY DEF DropRef, Making, AbortPcs
<1>g. Goto(p, "ref_gone")
  BY DEF DropRef
<1>r. Rewrites(p)
  BY Mined, <1>m DEF DropRef, Rewrites, disk
<1>1. Continue(p)
  BY <1>m, <1>g, <1>r, MakingContinues
  DEF DropRef, Making, AbortPcs, Detached, locks, disk, Rest
<1>2. DiskTyped'
  BY <1>m, Mined, Values
  DEF DropRef, DiskTyped, IInv, TypeOK, Trees, Rest, locks, disk
<1> QED BY <1>1, <1>2

LEMMA JournalRefGoneMoves ==
  ASSUME IInv, NEW p \in Procs, JournalRefGone(p)
  PROVE  Continue(p) /\ DiskTyped'
<1>m. proc[p].pc = "ref_gone" /\ "ref_gone" \in Making
  BY DEF JournalRefGone, Making, AbortPcs
<1>g. Goto(p, "ref_release")
  BY DEF JournalRefGone
<1>r. Rewrites(p)
  BY Mined, <1>m DEF JournalRefGone, Rewrites, CREATION_PHASES, RollbackPhases, AfterTree
<1>1. Continue(p)
  BY <1>m, <1>g, <1>r, MakingContinues
  DEF JournalRefGone, Making, AbortPcs, Detached, locks, disk, Rest
<1>2. DiskTyped'
  BY <1>m, Mined, Values
  DEF JournalRefGone, DiskTyped, IInv, TypeOK, Trees, Rest, locks, disk
<1> QED BY <1>1, <1>2

LEMMA UnlockRefMoves ==
  ASSUME IInv, NEW p \in Procs, UnlockRef(p)
  PROVE  Continue(p) /\ DiskTyped'
<1>m. proc[p].pc = "ref_release" /\ "ref_release" \in Making
  BY DEF UnlockRef, Making, AbortPcs
<1>g. Goto(p, "settle")
  BY DEF UnlockRef
<1>r. Rewrites(p)
  BY Mined, <1>m DEF UnlockRef, Rewrites, disk
<1>1. Continue(p)
  BY <1>m, <1>g, <1>r, MakingContinues
  DEF UnlockRef, Making, AbortPcs, Detached, locks, disk, Rest
<1>2. DiskTyped'
  BY <1>m, Mined, Values
  DEF UnlockRef, DiskTyped, IInv, TypeOK, Trees, Rest, locks, disk, ReleaseRef
<1> QED BY <1>1, <1>2

-----------------------------------------------------------------------------
(* create, past its receipt                                                *)

LEMMA PrepareRefMoves ==
  ASSUME IInv, NEW p \in Procs, PrepareRef(p)
  PROVE  Continue(p) /\ DiskTyped'
<1>m. proc[p].pc = "c_prepare" /\ "c_prepare" \in Making
  BY DEF PrepareRef, Making, CreatePcs
<1>g. Goto(p, "claim") \/ Goto(p, "c_commit")
  BY DEF PrepareRef
<1>r. Rewrites(p)
  BY Mined, <1>m DEF PrepareRef, Rewrites, CREATION_PHASES, RollbackPhases, AfterTree
<1>1. Continue(p)
  BY <1>m, <1>g, <1>r, MakingContinues
  DEF PrepareRef, Making, CreatePcs, AbortPcs, Detached, locks, disk, Rest
<1>2. DiskTyped'
  BY <1>m, Mined, Values
  DEF PrepareRef, DiskTyped, IInv, TypeOK, Trees, Rest, locks, disk
<1> QED BY <1>1, <1>2

LEMMA CommitRefMoves ==
  ASSUME IInv, NEW p \in Procs, CommitRef(p)
  PROVE  Continue(p) /\ DiskTyped'
<1>m. proc[p].pc = "c_commit" /\ "c_commit" \in Making
  BY DEF CommitRef, Making, CreatePcs
<1>g. Goto(p, "c_journal")
  BY DEF CommitRef
<1>r. Rewrites(p)
  BY Mined, <1>m DEF CommitRef, Rewrites, disk
<1>1. Continue(p)
  BY <1>m, <1>g, <1>r, MakingContinues
  DEF CommitRef, Making, CreatePcs, AbortPcs, Detached, locks, disk, Rest
<1>2. DiskTyped'
  BY <1>m, Mined, Values
  DEF CommitRef, DiskTyped, IInv, TypeOK, Trees, Rest, locks, disk, Refs
<1> QED BY <1>1, <1>2

LEMMA JournalCommitMoves ==
  ASSUME IInv, NEW p \in Procs, JournalCommit(p)
  PROVE  Continue(p) /\ DiskTyped'
<1>m. proc[p].pc = "c_journal" /\ "c_journal" \in Making
  BY DEF JournalCommit, Making, CreatePcs
<1>g. Goto(p, "c_add") \/ Goto(p, "claim")
  BY DEF JournalCommit
<1>r. Rewrites(p)
  BY Mined, <1>m DEF JournalCommit, Rewrites, CREATION_PHASES, RollbackPhases, AfterTree
<1>1. Continue(p)
  BY <1>m, <1>g, <1>r, MakingContinues
  DEF JournalCommit, Making, CreatePcs, AbortPcs, Detached, locks, disk, Rest
<1>2. DiskTyped'
  BY <1>m, Mined, Values
  DEF JournalCommit, DiskTyped, IInv, TypeOK, Trees, Rest, locks, disk
<1> QED BY <1>1, <1>2

LEMMA AddWorktreeMoves ==
  ASSUME IInv, NEW p \in Procs, AddWorktree(p)
  PROVE  Continue(p) /\ DiskTyped'
<1>m. proc[p].pc = "c_add" /\ "c_add" \in Making
  BY DEF AddWorktree, Making, CreatePcs
<1>g. Goto(p, "c_bind") \/ Goto(p, "claim")
  BY DEF AddWorktree
<1>r. Rewrites(p)
  BY Mined, <1>m DEF AddWorktree, Rewrites, disk
<1>1. Continue(p)
  BY <1>m, <1>g, <1>r, MakingContinues
  DEF AddWorktree, Making, CreatePcs, AbortPcs, Detached, locks, disk, Rest
<1>t. tree' \in [Ids -> Trees]
  <2> DEFINE new == [NoTree EXCEPT !.place = "target", !.life = proc[p].life,
                                   !.admin = "registered", !.head = Mine(p).branch]
  <2>1. new \in Trees
    BY <1>m, Mined, Values DEF Trees, NoTree
  <2>2. tree' = tree \/ tree' = [tree EXCEPT ![Token(p)] = new]
    BY DEF AddWorktree
  <2> HIDE DEF new
  <2> QED BY <2>1, <2>2 DEF IInv, TypeOK
<1>2. DiskTyped'
  BY <1>m, Mined, Values, <1>t
  DEF AddWorktree, DiskTyped, IInv, TypeOK, Rest, locks, disk
<1> QED BY <1>1, <1>2

LEMMA BindTokenMoves ==
  ASSUME IInv, NEW p \in Procs, BindToken(p)
  PROVE  Continue(p) /\ DiskTyped'
<1>m. proc[p].pc = "c_bind" /\ "c_bind" \in Making
  BY DEF BindToken, Making, CreatePcs
<1>g. \/ Identify(p, "c_verify") \/ Identify(p, "claim")
      \/ Goto(p, "claim")
  BY DEF BindToken, Identify
<1>r. Rewrites(p)
  BY Mined, <1>m DEF BindToken, Rewrites, disk
<1>1. Continue(p)
  BY <1>m, <1>g, <1>r, MakingContinues
  DEF BindToken, Making, CreatePcs, AbortPcs, Detached, locks, disk, Rest
<1>t. tree' \in [Ids -> Trees]
  <2>1. [tree[Token(p)] EXCEPT !.bound = TRUE] \in Trees
    BY <1>m, Mined, Values DEF IInv, TypeOK, Trees
  <2>2. \/ tree' = tree
        \/ tree' = [tree EXCEPT ![Token(p)] = [@ EXCEPT !.bound = TRUE]]
    BY DEF BindToken
  <2> QED BY <2>1, <2>2 DEF IInv, TypeOK
<1>2. DiskTyped'
  BY <1>m, Mined, Values, <1>t
  DEF BindToken, DiskTyped, IInv, TypeOK, Rest, locks, disk
<1> QED BY <1>1, <1>2

LEMMA BootstrapMoves ==
  ASSUME IInv, NEW p \in Procs, Bootstrap(p)
  PROVE  Continue(p) /\ DiskTyped'
<1>m. proc[p].pc = "c_boot" /\ "c_boot" \in Making
  BY DEF Bootstrap, Making, CreatePcs
<1>g. Goto(p, "c_final") \/ Goto(p, "c_undo")
  BY DEF Bootstrap
<1>r. Rewrites(p)
  BY Mined, <1>m DEF Bootstrap, Rewrites, disk
<1>1. Continue(p)
  BY <1>m, <1>g, <1>r, MakingContinues
  DEF Bootstrap, Making, CreatePcs, AbortPcs, Detached, locks, disk, Rest
<1>2. DiskTyped'
  BY <1>m, Mined, Values
  DEF Bootstrap, DiskTyped, IInv, TypeOK, Trees, Rest, locks, disk
<1> QED BY <1>1, <1>2

LEMMA UndoBootstrapMoves ==
  ASSUME IInv, NEW p \in Procs, UndoBootstrap(p)
  PROVE  Continue(p) /\ DiskTyped'
<1>m. proc[p].pc = "c_undo" /\ "c_undo" \in Making
  BY DEF UndoBootstrap, Making, CreatePcs
<1>g. Goto(p, "claim")
  BY DEF UndoBootstrap
<1>r. Rewrites(p)
  BY Mined, <1>m DEF UndoBootstrap, Rewrites, disk
<1>1. Continue(p)
  BY <1>m, <1>g, <1>r, MakingContinues
  DEF UndoBootstrap, Making, CreatePcs, AbortPcs, Detached, locks, disk, Rest
<1>2. DiskTyped'
  BY <1>m, Mined, Values
  DEF UndoBootstrap, DiskTyped, IInv, TypeOK, Trees, Rest, locks, disk, TakeRepo
<1> QED BY <1>1, <1>2

\* A creation that ends well leaves with the receipt in phase "created".
LEMMA CreatedLeaves ==
  ASSUME IInv, NEW p \in Procs, proc[p].pc \in Making,
         Write(p, "created"), Exit(p), attempts' = attempts, refClaim' = refClaim
  PROVE  Leave(p)
<1>m. Mine(p) \in Receipts /\ Mine(p) = receipt[proc[p].life]
      /\ receipt'[proc[p].life] = [Mine(p) EXCEPT !.phase = "created"]
      /\ receipt' = [receipt EXCEPT ![proc[p].life] = receipt'[proc[p].life]]
  BY Mined DEF Write
<1>1. receipt'[proc[p].life] \in Receipts /\ SameName(p)
      /\ receipt'[proc[p].life].phase # "none"
  BY <1>m DEF Receipts, LIFECYCLE_PHASES, FinishPhases, SameName
<1>2. proc' = [proc EXCEPT ![p] = proc'[p]]
  BY Mined DEF Exit
<1> QED BY <1>m, <1>1, <1>2, Kinds DEF Leave, OnlyMine

LEMMA VerifyWorktreeMoves ==
  ASSUME IInv, NEW p \in Procs, VerifyWorktree(p)
  PROVE  (Continue(p) \/ Leave(p)) /\ DiskTyped'
<1>m. /\ proc[p].pc = "c_verify" /\ "c_verify" \in Making
      /\ attempts' = attempts /\ refClaim' = refClaim
  BY DEF VerifyWorktree, Making, CreatePcs, Rest
<1>1. Continue(p) \/ Leave(p)
  <2>1. CASE Write(p, "created") /\ Exit(p)
    BY <2>1, <1>m, CreatedLeaves
  <2>2. CASE /\ Goto(p, "c_boot") /\ Write(p, "bootstrap_pending")
             /\ lifeLock' = lifeLock
    <3>1. Rewrites(p)
      BY <2>2 DEF Rewrites, CREATION_PHASES
    <3> QED BY <2>2, <3>1, <1>m, MakingContinues
            DEF Making, CreatePcs, AbortPcs, Detached
  <2>3. CASE Goto(p, "claim") /\ UNCHANGED <<receipt, locks>>
    BY <2>3, <1>m, MakingContinues
    DEF Making, CreatePcs, AbortPcs, Detached, locks, Rewrites
  <2> QED BY <2>1, <2>2, <2>3 DEF VerifyWorktree
<1>2. DiskTyped'
  BY <1>m DEF VerifyWorktree, DiskTyped, IInv, TypeOK, Rest, locks, Exit
<1> QED BY <1>1, <1>2

LEMMA FinalVerifyMoves ==
  ASSUME IInv, NEW p \in Procs, FinalVerify(p)
  PROVE  (Continue(p) \/ Leave(p)) /\ DiskTyped'
<1>m. /\ proc[p].pc = "c_final" /\ "c_final" \in Making
      /\ attempts' = attempts /\ refClaim' = refClaim
  BY DEF FinalVerify, Making, CreatePcs, Rest
<1>1. Continue(p) \/ Leave(p)
  <2>1. CASE Write(p, "created") /\ Exit(p)
    BY <2>1, <1>m, CreatedLeaves
  <2>2. CASE Goto(p, "claim") /\ UNCHANGED <<receipt, lifeLock>>
    BY <2>2, <1>m, MakingContinues
    DEF Making, CreatePcs, AbortPcs, Detached, Rewrites
  <2> QED BY <2>1, <2>2 DEF FinalVerify
<1>2. DiskTyped'
  BY <1>m DEF FinalVerify, DiskTyped, IInv, TypeOK, Rest, locks, Exit, TakeRepo
<1> QED BY <1>1, <1>2

LEMMA CreateRefusedMoves ==
  ASSUME IInv, NEW p \in Procs, CreateRefused(p)
  PROVE  Leave(p) /\ DiskTyped'
<1>m. proc[p].pc = "c_lock" /\ "c_lock" \in Held /\ Exit(p)
  BY DEF CreateRefused, Held
<1>1. proc \in [Procs -> ProcStates] /\ receipt \in [Lifecycles -> Receipts]
      /\ proc[p].life \in Lifecycles
  BY <1>m, Kinds DEF IInv, TypeOK, Control, LockDiscipline
<1>2. Leave(p)
  BY <1>m, <1>1 DEF CreateRefused, Leave, OnlyMine, Exit, disk, Rest
<1>3. DiskTyped'
  BY DEF CreateRefused, DiskTyped, IInv, TypeOK, Rest, disk, Exit
<1> QED BY <1>2, <1>3

LEMMA SettleMoves ==
  ASSUME IInv, NEW p \in Procs, Settle(p)
  PROVE  Leave(p) /\ DiskTyped'
<1> DEFINE l == proc[p].life
<1>m. proc[p].pc = "settle" /\ "settle" \in Making /\ Exit(p)
      /\ attempts' = attempts /\ refClaim' = refClaim
  BY DEF Settle, Making, AbortPcs, Rest
<1>r. /\ receipt' = [receipt EXCEPT ![l] = receipt'[l]]
      /\ \/ receipt'[l] = NoReceipt
         \/ \E f \in RollbackPhases \cup {"bootstrap_failed"} :
              receipt'[l] = [receipt[l] EXCEPT !.phase = f]
  BY <1>m, Mined DEF Settle
<1>1. receipt[l] \in Receipts /\ receipt[l] = Mine(p)
  BY <1>m, Mined
<1>2. \/ receipt'[l] = NoReceipt
      \/ /\ SameName(p) /\ receipt'[l] \in Receipts /\ receipt'[l].phase # "none"
  BY <1>r, <1>1 DEF SameName, Receipts, LIFECYCLE_PHASES, CREATION_PHASES,
                    RollbackPhases, AfterTree
<1>3. proc' = [proc EXCEPT ![p] = proc'[p]]
  BY <1>m, Mined DEF Exit
<1>4. Leave(p)
  BY <1>m, <1>r, <1>2, <1>3, Kinds DEF Leave, OnlyMine
<1>5. DiskTyped'
  BY DEF Settle, DiskTyped, IInv, TypeOK, Rest, Exit
<1> QED BY <1>4, <1>5

-----------------------------------------------------------------------------
(* The steps that take or lose a lifecycle.                                *)

LEMMA FinishLockMoves ==
  ASSUME IInv, NEW p \in Procs, FinishLock(p)
  PROVE  (Enter(p) \/ Leave(p)) /\ DiskTyped'
<1> DEFINE l == proc[p].life
<1>m. /\ proc[p].pc = "f_lock" /\ l \in Lifecycles /\ lifeLock[l] = NoProc
      /\ proc[p].seen.phase \in LIFECYCLE_PHASES
      /\ proc \in [Procs -> ProcStates] /\ receipt \in [Lifecycles -> Receipts]
      /\ attempts' = attempts /\ refClaim' = refClaim
  BY DEF FinishLock, Rest, IInv, TypeOK, Control, LockDiscipline, PhaseDiscipline
<1> DEFINE proceed(c) ==
             /\ proc' = [proc EXCEPT ![p].pc = c, ![p].seen = NoReceipt]
             /\ lifeLock' = [lifeLock EXCEPT ![l] = p]
             /\ UNCHANGED repoLock
<1>c. \/ Exit(p) /\ UNCHANGED receipt
      \/ /\ proceed("f_again") /\ UNCHANGED receipt
         /\ receipt[l].phase \in {"approved", "worktree_removed", "ref_deleted"}
      \/ /\ proceed("f_decide") /\ Write(p, "requested")
         /\ receipt[l] = proc[p].seen /\ receipt[l].phase \notin CREATION_PHASES
  BY DEF FinishLock
<1>1. Enter(p) \/ Leave(p)
  <2>1. CASE Exit(p) /\ UNCHANGED receipt
    BY <2>1, <1>m DEF Leave, OnlyMine, Exit
  <2>2. CASE \/ /\ proceed("f_again") /\ UNCHANGED receipt
                /\ receipt[l].phase \in {"approved", "worktree_removed", "ref_deleted"}
             \/ /\ proceed("f_decide") /\ Write(p, "requested")
                /\ receipt[l] = proc[p].seen
                /\ receipt[l].phase \notin CREATION_PHASES
    <3>1. /\ proc' = [proc EXCEPT ![p] = proc'[p]] /\ proc'[p] \in ProcStates
          /\ proc'[p].life = l /\ proc'[p].pc \in {"f_again", "f_decide"}
      <4>1. PICK c \in {"f_again", "f_decide"} :
              proc' = [proc EXCEPT ![p] = [@ EXCEPT !.pc = c, !.seen = NoReceipt]]
        BY <2>2, <1>m
      <4>2. [proc[p] EXCEPT !.pc = c, !.seen = NoReceipt] \in ProcStates
        BY <1>m, IdleTyped DEF ProcStates, Pcs, FinishPcs
      <4> QED BY <4>1, <4>2, <1>m DEF ProcStates
    <3>2. receipt[l].phase \in FinishPhases
      BY <2>2, <1>m DEF LIFECYCLE_PHASES, FinishPhases
    <3>3. proc'[p].pc \in Finishing
      BY <3>1 DEF Finishing, FinishPcs
    <3>4. lifeLock' = [lifeLock EXCEPT ![l] = p]
      BY <2>2
    <3>5. receipt' = receipt \/ receipt' = [receipt EXCEPT ![l].phase = "requested"]
      BY <2>2 DEF Write
    <3> QED BY <3>1, <3>2, <3>3, <3>4, <3>5, <1>m, Kinds DEF Enter
  <2> QED BY <2>1, <2>2, <1>c
<1>2. DiskTyped'
  BY <1>m, <1>c DEF FinishLock, DiskTyped, IInv, TypeOK, Rest, Exit
<1> QED BY <1>1, <1>2

LEMMA CreateStartMoves ==
  ASSUME IInv, NEW p \in Procs, NEW l \in Lifecycles, CreateStart(p, l)
  PROVE  Enter(p) /\ DiskTyped'
<1>1. proc \in [Procs -> ProcStates]
  BY DEF IInv, TypeOK
<1>2. /\ proc' = [proc EXCEPT ![p] = proc'[p]] /\ proc'[p] \in ProcStates
      /\ proc'[p].life = l /\ proc'[p].pc = "c_lock"
  BY <1>1 DEF CreateStart, ProcStates, Pcs, CreatePcs
<1>3. "c_lock" \in Held \ Detached /\ "c_lock" \notin Making \cup Finishing
  BY DEF Held, Detached, Making, Finishing, CreatePcs, AbortPcs, FinishPcs
<1>4. Enter(p)
  BY <1>2, <1>3 DEF CreateStart, Enter, disk, Rest
<1>5. DiskTyped'
  BY DEF CreateStart, DiskTyped, IInv, TypeOK, Rest, disk
<1> QED BY <1>4, <1>5

LEMMA RecoverStartMoves ==
  ASSUME IInv, NEW p \in Procs, NEW l \in Lifecycles, RecoverStart(p, l)
  PROVE  Enter(p) /\ DiskTyped'
<1>1. proc \in [Procs -> ProcStates]
  BY DEF IInv, TypeOK
<1>2. /\ proc' = [proc EXCEPT ![p] = proc'[p]] /\ proc'[p] \in ProcStates
      /\ proc'[p].life = l /\ proc'[p].pc = "r_lock"
  BY <1>1 DEF RecoverStart, ProcStates, Pcs
<1>3. "r_lock" \in Held \ Detached /\ "r_lock" \notin Finishing
  BY DEF Held, Detached, Making, Finishing, CreatePcs, AbortPcs, FinishPcs
<1>4. Enter(p)
  BY <1>2, <1>3 DEF RecoverStart, Enter, disk, Rest
<1>5. DiskTyped'
  BY DEF RecoverStart, DiskTyped, IInv, TypeOK, Rest, disk
<1> QED BY <1>4, <1>5

LEMMA CrashMoves ==
  ASSUME IInv, NEW p \in Procs, Crash(p)
  PROVE  Leave(p) /\ DiskTyped'
<1>1. proc \in [Procs -> ProcStates] /\ receipt \in [Lifecycles -> Receipts]
      /\ proc[p].pc # "idle"
  BY DEF Crash, IInv, TypeOK
<1>2. proc[p].pc \in Held \cup {"f_lock"}
  BY <1>1 DEF ProcStates, Pcs, Held, Making, Finishing
<1>3. proc[p].life \in Lifecycles
  BY <1>1 DEF IInv, Control, LockDiscipline
<1>4. Leave(p)
  BY <1>1, <1>2, <1>3 DEF Crash, Leave, OnlyMine, Exit, disk
<1>5. crashes' \in 0 .. MaxCrashes
  BY BoundsAssumption DEF Crash, IInv, TypeOK
<1>6. DiskTyped'
  BY <1>5 DEF Crash, DiskTyped, IInv, TypeOK, disk, Exit
<1> QED BY <1>4, <1>6

\* What finish remembers of the receipt it read is a phase of the registry.
LEMMA FinishStartMoves ==
  ASSUME IInv, NEW p \in Procs, NEW l \in Lifecycles, FinishStart(p, l)
  PROVE  ControlTyped' /\ Control' /\ DiskTyped'
<1>1. proc \in [Procs -> ProcStates] /\ receipt[l] \in Receipts
      /\ receipt[l].phase \in LIFECYCLE_PHASES
  BY DEF FinishStart, IInv, TypeOK, Receipts
<1>2. /\ proc' = [proc EXCEPT ![p] = proc'[p]] /\ proc'[p] \in ProcStates
      /\ proc'[p].life = l /\ proc'[p].pc = "f_lock" /\ proc'[p].seen = receipt[l]
  BY <1>1 DEF FinishStart, ProcStates, Pcs, FinishPcs
<1>3. "f_lock" \notin Held \cup Making \cup Finishing \cup Detached
  BY Kinds DEF Held, Detached
<1>o. \A q \in Procs : q # p => proc'[q] = proc[q]
  BY <1>1, <1>2
<1>u. UNCHANGED <<receipt, lifeLock, refClaim, attempts>>
  BY DEF FinishStart, disk, locks, Rest
<1>4. LockDiscipline'
  BY <1>2, <1>3, <1>o, <1>u DEF IInv, Control, LockDiscipline
<1>5. PhaseDiscipline'
  BY <1>1, <1>2, <1>3, <1>o, <1>u DEF IInv, Control, PhaseDiscipline
<1>6. Named' /\ Distinct'
  BY <1>u DEF IInv, Control, Named, Distinct
<1>7. RestoreHasClaim'
  BY <1>2, <1>3, <1>o, <1>u DEF IInv, Control, RestoreHasClaim, Token, Mine
<1>8. ControlTyped'
  BY <1>1, <1>2, <1>u DEF IInv, TypeOK, ControlTyped
<1>9. DiskTyped'
  BY DEF FinishStart, DiskTyped, IInv, TypeOK, Rest, disk, locks
<1> QED BY <1>4, <1>5, <1>6, <1>7, <1>8, <1>9 DEF Control

\* The token a creation draws is new.
LEMMA CreateReceiptMoves ==
  ASSUME IInv, NEW p \in Procs, NEW b \in Branches, CreateReceipt(p, b)
  PROVE  ControlTyped' /\ Control' /\ DiskTyped'
<1> DEFINE l == proc[p].life
           r == [NoReceipt EXCEPT !.phase = "allocating", !.branch = b,
                                  !.token = attempts + 1]
<1>1. /\ proc \in [Procs -> ProcStates] /\ receipt \in [Lifecycles -> Receipts]
      /\ l \in Lifecycles /\ lifeLock[l] = p /\ proc[p].pc = "c_lock"
      /\ receipt[l].phase = "none" /\ attempts \in Nat
      /\ attempts' = attempts + 1 /\ attempts + 1 \in Tokens
  BY BoundsAssumption, Kinds
  DEF CreateReceipt, Mine, IInv, TypeOK, Control, LockDiscipline, Tokens, Held
<1>2. /\ r \in Receipts /\ r.phase = "allocating" /\ r.branch = b
      /\ r.token = attempts + 1
  BY <1>1, IdleTyped, Values
  DEF NoReceipt, Receipts, LIFECYCLE_PHASES, CREATION_PHASES
<1> HIDE DEF r
<1>3. receipt' = [receipt EXCEPT ![l] = r]
  BY DEF CreateReceipt, r
<1>4. /\ proc' = [proc EXCEPT ![p].pc = "c_prepare"] /\ proc'[p] \in ProcStates
      /\ proc'[p].life = l /\ proc'[p].pc = "c_prepare"
      /\ UNCHANGED <<lifeLock, refClaim>>
  BY <1>1 DEF CreateReceipt, Goto, ProcStates, Pcs, CreatePcs
<1>5. /\ "c_prepare" \in Making /\ "c_prepare" \notin Detached
      /\ "allocating" \in CREATION_PHASES
  BY DEF Making, CreatePcs, AbortPcs, Detached, CREATION_PHASES
<1>o. /\ \A q \in Procs : q # p => proc'[q] = proc[q]
      /\ \A m \in Lifecycles : m # l => receipt'[m] = receipt[m]
      /\ receipt'[l] = r
  BY <1>1, <1>3, <1>4
<1>q. ASSUME NEW q \in Procs, q # p, proc'[q].pc \in Held
      PROVE  proc[q].life \in Lifecycles /\ proc[q].life # l
  BY <1>q, <1>1, <1>o, Kinds DEF IInv, Control, LockDiscipline
<1>6. LockDiscipline'
  BY <1>1, <1>4, <1>o DEF IInv, Control, LockDiscipline
<1>7. PhaseDiscipline'
  <2> SUFFICES ASSUME NEW q \in Procs
               PROVE  /\ proc'[q].pc \in Making
                           => receipt'[proc'[q].life].phase \in CREATION_PHASES
                      /\ proc'[q].pc \in Finishing
                           => receipt'[proc'[q].life].phase \in FinishPhases
                      /\ proc'[q].pc = "f_lock"
                           => proc'[q].seen.phase \in LIFECYCLE_PHASES
    BY DEF PhaseDiscipline
  <2>1. CASE q = p
    BY <2>1, <1>2, <1>4, <1>5, <1>o, Kinds
  <2>2. CASE q # p
    BY <2>2, <1>q, <1>o, Kinds DEF IInv, Control, PhaseDiscipline
  <2> QED BY <2>1, <2>2
<1>8. Named'
  <2> SUFFICES ASSUME NEW m \in Lifecycles, receipt'[m].phase # "none"
               PROVE  /\ receipt'[m].branch \in Branches
                      /\ receipt'[m].token \in 1 .. attempts'
    BY DEF Named
  <2>1. CASE m = l
    BY <2>1, <1>1, <1>2, <1>o
  <2>2. CASE m # l
    BY <2>2, <1>1, <1>o DEF IInv, Control, Named
  <2> QED BY <2>1, <2>2
<1>9. Distinct'
  <2>1. \A m \in Lifecycles : m # l /\ receipt[m].phase # "none"
          => receipt[m].token # r.token
    BY <1>1, <1>2 DEF IInv, Control, Named
  <2> QED BY <2>1, <1>o DEF IInv, Control, Distinct
<1>10. RestoreHasClaim'
  <2> SUFFICES ASSUME NEW q \in Procs, proc'[q].pc \in Detached
               PROVE  refClaim'[receipt'[proc'[q].life].token] # NoClaim
    BY DEF RestoreHasClaim, Token, Mine
  <2>1. q # p /\ proc'[q].pc \in Held
    BY <1>4, <1>5, Kinds
  <2> QED BY <2>1, <1>q, <1>o, <1>4 DEF IInv, Control, RestoreHasClaim, Token, Mine
<1>11. ControlTyped'
  BY <1>1, <1>2, <1>3, <1>4 DEF IInv, TypeOK, ControlTyped
<1>12. DiskTyped'
  BY <1>1 DEF CreateReceipt, DiskTyped, IInv, TypeOK, TakeRepo, Tokens
<1> QED BY <1>6, <1>7, <1>8, <1>9, <1>10, <1>11, <1>12 DEF Control

-----------------------------------------------------------------------------
(* finish                                                                  *)

\* A process that holds a lifecycle for finish and returns.
LEMMA FinishingLeaves ==
  ASSUME IInv, NEW p \in Procs, proc[p].pc \in Finishing, Exit(p),
         \/ receipt' = receipt \/ Forget(p)
         \/ receipt' = [receipt EXCEPT ![proc[p].life].phase = "requested",
                                       ![proc[p].life].approved = NoSha],
         attempts' = attempts, refClaim' = refClaim
  PROVE  Leave(p)
<1> DEFINE l == proc[p].life
           r == Mine(p)
<1>m. /\ r \in Receipts /\ r = receipt[l] /\ l \in Lifecycles
      /\ receipt \in [Lifecycles -> Receipts]
  BY Mined
<1>1. /\ receipt' = [receipt EXCEPT ![l] = receipt'[l]]
      /\ \/ receipt' = receipt \/ receipt'[l] = NoReceipt
         \/ receipt'[l] = [r EXCEPT !.phase = "requested", !.approved = NoSha]
  <2>1. CASE receipt' = receipt
    BY <2>1, <1>m
  <2>2. CASE Forget(p)
    BY <2>2, <1>m DEF Forget
  <2>3. CASE receipt' = [receipt EXCEPT ![l].phase = "requested",
                                        ![l].approved = NoSha]
    <3>1. receipt' = [receipt EXCEPT ![l] =
                        [r EXCEPT !.phase = "requested", !.approved = NoSha]]
      BY <2>3, <1>m
    <3> QED BY <3>1, <1>m
  <2> QED BY <2>1, <2>2, <2>3
<1>2. \/ receipt' = receipt \/ receipt'[l] = NoReceipt
      \/ /\ SameName(p) /\ receipt'[l] \in Receipts
         /\ receipt'[l].phase \in FinishPhases
  BY <1>1, <1>m DEF SameName, Receipts, LIFECYCLE_PHASES, FinishPhases
<1>3. proc' = [proc EXCEPT ![p] = proc'[p]]
  BY Mined DEF Exit
<1> QED BY <1>1, <1>2, <1>3, Kinds DEF Leave, OnlyMine

LEMMA FinishDecideMoves ==
  ASSUME IInv, NEW p \in Procs, FinishDecide(p)
  PROVE  (Continue(p) \/ Leave(p)) /\ DiskTyped'
<1>m. /\ proc[p].pc = "f_decide" /\ "f_decide" \in Finishing
      /\ attempts' = attempts /\ refClaim' = refClaim
  BY DEF FinishDecide, Finishing, FinishPcs, Rest
<1>1. Continue(p) \/ Leave(p)
  <2>1. CASE Pending(p)
    BY <2>1, <1>m, FinishingLeaves DEF Pending
  <2>2. CASE ~Pending(p)
    <3>1. Approves(p) /\ Goto(p, "f_recheck") /\ lifeLock' = lifeLock
      <4>1. ref[Mine(p).branch].sha \in landed
        BY <2>2 DEF FinishDecide
      <4> QED BY <2>2, <4>1 DEF FinishDecide, Approves, IInv, TypeOK
    <3> QED BY <3>1, <1>m, FinishingContinues DEF Finishing, FinishPcs
  <2> QED BY <2>1, <2>2
<1>2. DiskTyped'
  BY <1>m DEF FinishDecide, DiskTyped, IInv, TypeOK, Rest, Pending, Exit, TakeRepo
<1> QED BY <1>1, <1>2

LEMMA FinishRecheckMoves ==
  ASSUME IInv, NEW p \in Procs, FinishRecheck(p)
  PROVE  (Continue(p) \/ Leave(p)) /\ DiskTyped'
<1>m. /\ proc[p].pc = "f_recheck" /\ "f_recheck" \in Finishing
      /\ attempts' = attempts /\ refClaim' = refClaim
  BY DEF FinishRecheck, Finishing, FinishPcs, Rest
<1>1. Continue(p) \/ Leave(p)
  <2>1. CASE Pending(p)
    BY <2>1, <1>m, FinishingLeaves DEF Pending
  <2>2. CASE Goto(p, "f_remove") /\ UNCHANGED <<receipt, locks>>
    BY <2>2, <1>m, FinishingContinues DEF Finishing, FinishPcs, locks
  <2> QED BY <2>1, <2>2 DEF FinishRecheck
<1>2. DiskTyped'
  BY <1>m DEF FinishRecheck, DiskTyped, IInv, TypeOK, Rest, Pending, Exit, locks
<1> QED BY <1>1, <1>2

LEMMA GitRemoveMoves ==
  ASSUME IInv, NEW p \in Procs, GitRemove(p)
  PROVE  (Continue(p) \/ Leave(p)) /\ DiskTyped'
<1>m. /\ proc[p].pc = "f_remove" /\ "f_remove" \in Finishing
      /\ attempts' = attempts /\ refClaim' = refClaim /\ receipt' = receipt
  BY DEF GitRemove, Finishing, FinishPcs, Rest
<1>1. Continue(p) \/ Leave(p)
  <2>1. CASE Exit(p)
    BY <2>1, <1>m, FinishingLeaves
  <2>2. CASE Goto(p, "f_resume") /\ UNCHANGED locks
    BY <2>2, <1>m, FinishingContinues DEF Finishing, FinishPcs, locks
  <2> QED BY <2>1, <2>2 DEF GitRemove
<1>t. tree' \in [Ids -> Trees]
  BY Values DEF GitRemove, IInv, TypeOK
<1>2. DiskTyped'
  BY <1>m, <1>t DEF GitRemove, DiskTyped, IInv, TypeOK, Rest, Exit, locks
<1> QED BY <1>1, <1>2

LEMMA FinishAgainMoves ==
  ASSUME IInv, NEW p \in Procs, FinishAgain(p)
  PROVE  Continue(p) /\ DiskTyped'
<1>m. proc[p].pc = "f_again" /\ "f_again" \in Finishing
  BY DEF FinishAgain, Finishing, FinishPcs
<1>1. Continue(p)
  BY <1>m, FinishingContinues DEF FinishAgain, Finishing, FinishPcs, disk, Rest
<1>2. DiskTyped'
  BY DEF FinishAgain, DiskTyped, IInv, TypeOK, Rest, TakeRepo, disk
<1> QED BY <1>1, <1>2

LEMMA FinishResumeMoves ==
  ASSUME IInv, NEW p \in Procs, FinishResume(p)
  PROVE  (Continue(p) \/ Leave(p)) /\ DiskTyped'
<1>m. /\ proc[p].pc = "f_resume" /\ "f_resume" \in Finishing
      /\ attempts' = attempts /\ refClaim' = refClaim
  BY DEF FinishResume, Finishing, FinishPcs, Rest
<1>1. Continue(p) \/ Leave(p)
  <2>1. CASE Exit(p) /\ UNCHANGED receipt
    BY <2>1, <1>m, FinishingLeaves
  <2>2. CASE Write(p, "worktree_removed") /\ Goto(p, "f_ref") /\ UNCHANGED locks
    BY <2>2, <1>m, FinishingContinues DEF Finishing, FinishPcs, locks, FinishPhases
  <2> QED BY <2>1, <2>2 DEF FinishResume
<1>2. DiskTyped'
  BY <1>m DEF FinishResume, DiskTyped, IInv, TypeOK, Rest, Exit, locks
<1> QED BY <1>1, <1>2

LEMMA FinishRefMoves ==
  ASSUME IInv, NEW p \in Procs, FinishRef(p)
  PROVE  (Continue(p) \/ Leave(p)) /\ DiskTyped'
<1>m. /\ proc[p].pc = "f_ref" /\ "f_ref" \in Finishing
      /\ attempts' = attempts /\ refClaim' = refClaim /\ receipt' = receipt
  BY DEF FinishRef, Finishing, FinishPcs, Rest
<1>1. Continue(p) \/ Leave(p)
  <2>1. CASE Exit(p)
    BY <2>1, <1>m, FinishingLeaves
  <2>2. CASE Goto(p, "f_deleted") /\ UNCHANGED locks
    BY <2>2, <1>m, FinishingContinues DEF Finishing, FinishPcs, locks
  <2> QED BY <2>1, <2>2 DEF FinishRef
<1>2. DiskTyped'
  BY <1>m, Values DEF FinishRef, DiskTyped, IInv, TypeOK, Rest, Exit, locks
<1> QED BY <1>1, <1>2

LEMMA FinishJournalMoves ==
  ASSUME IInv, NEW p \in Procs, FinishJournal(p)
  PROVE  (Continue(p) \/ Leave(p)) /\ DiskTyped'
<1>m. /\ proc[p].pc = "f_deleted" /\ "f_deleted" \in Finishing
      /\ attempts' = attempts /\ refClaim' = refClaim
  BY DEF FinishJournal, Finishing, FinishPcs, Rest
<1>1. Continue(p) \/ Leave(p)
  <2>1. CASE Exit(p) /\ UNCHANGED receipt
    BY <2>1, <1>m, FinishingLeaves
  <2>2. CASE Write(p, "ref_deleted") /\ Goto(p, "f_forget") /\ UNCHANGED locks
    BY <2>2, <1>m, FinishingContinues DEF Finishing, FinishPcs, locks, FinishPhases
  <2> QED BY <2>1, <2>2 DEF FinishJournal
<1>2. DiskTyped'
  BY <1>m DEF FinishJournal, DiskTyped, IInv, TypeOK, Rest, Exit, locks
<1> QED BY <1>1, <1>2

LEMMA FinishForgetMoves ==
  ASSUME IInv, NEW p \in Procs, FinishForget(p)
  PROVE  Leave(p) /\ DiskTyped'
<1>m. proc[p].pc = "f_forget" /\ "f_forget" \in Finishing
  BY DEF FinishForget, Finishing, FinishPcs
<1>1. Leave(p)
  BY <1>m, FinishingLeaves DEF FinishForget, Rest
<1>2. DiskTyped'
  BY DEF FinishForget, DiskTyped, IInv, TypeOK, Rest, Exit
<1> QED BY <1>1, <1>2

-----------------------------------------------------------------------------
(* Every step.                                                             *)

LEMMA InitIInv == Init => IInv
<1> SUFFICES ASSUME Init PROVE IInv
  OBVIOUS
<1>1. TypeOK
  BY BoundsAssumption, IdleTyped, Values DEF Init, TypeOK
<1>2. Control
  BY Kinds DEF Init, Control, LockDiscipline, PhaseDiscipline, Named, Distinct,
               RestoreHasClaim, Idle, NoReceipt
<1> QED BY <1>1, <1>2 DEF IInv

LEMMA OutsideMoves ==
  ASSUME IInv, Meddling
  PROVE  Quiet /\ DiskTyped'
<1>t. /\ ref \in [Branches -> Refs] /\ tree \in [Ids -> Trees]
      /\ meddles \in 0 .. MaxMeddles /\ landed \subseteq Shas
      /\ refLock \in [Branches -> Ids] /\ MaxMeddles \in Nat
  BY BoundsAssumption DEF IInv, TypeOK
<1>1. CASE \E b \in Branches : Land(b)
  <2>1. PICK b \in Branches : Land(b)
    BY <1>1
  <2>2. ref[b].sha \in Shas
    BY <2>1, <1>t DEF Land, Exists, Refs
  <2> QED BY <2>1, <2>2, <1>t
          DEF Land, Quiet, DiskTyped, IInv, TypeOK, disk, locks, bounds
<1>2. CASE \E kind \in OutsideKinds : Meddle(kind)
  <2>1. Quiet /\ meddles' \in 0 .. MaxMeddles
        /\ UNCHANGED <<refLock, refClaim, landed, locks, attempts, crashes>>
    BY <1>2, <1>t DEF Meddle, Quiet, locks
  <2>2. ASSUME NEW b, b \in Branches, NEW sha \in Shas, SetRef(b, sha)
        PROVE  ref' \in [Branches -> Refs] /\ tree' \in [Ids -> Trees]
    <3>1. [id |-> Foreign, sha |-> sha] \in Refs
      BY Values DEF Refs
    <3> QED BY <2>2, <3>1, <1>t DEF SetRef
  <2>3. ref' \in [Branches -> Refs] /\ tree' \in [Ids -> Trees]
    <3>1. ASSUME NEW u \in Ids, UserCommit(u)
          PROVE  ref' \in [Branches -> Refs] /\ tree' \in [Ids -> Trees]
      <4>1. tree[u].head \in Branches /\ meddles + 1 \in Shas
        BY <3>1, <1>t, <2>1 DEF UserCommit, Meddle, Trees, Shas
      <4> QED BY <3>1, <4>1, <2>2 DEF UserCommit
    <3>2. ASSUME NEW u \in Ids, UserDetach(u) \/ UserEdit(u) \/ UserRemoveTree(u)
          PROVE  ref' \in [Branches -> Refs] /\ tree' \in [Ids -> Trees]
      <4>1. /\ [tree[u] EXCEPT !.head = NoBranch] \in Trees
            /\ [tree[u] EXCEPT !.dirty = TRUE] \in Trees
            /\ NoTree \in Trees
        BY <1>t, Values DEF Trees
      <4>2. CASE UserDetach(u)
        BY <4>1, <4>2, <1>t DEF UserDetach
      <4>3. CASE UserEdit(u)
        BY <4>1, <4>3, <1>t DEF UserEdit
      <4>4. CASE UserRemoveTree(u)
        BY <4>1, <4>4, <1>t DEF UserRemoveTree
      <4> QED BY <3>2, <4>2, <4>3, <4>4
    <3>3. ASSUME NEW b \in Branches, UserDeleteBranch(b) \/ UserCreateBranch(b)
          PROVE  ref' \in [Branches -> Refs] /\ tree' \in [Ids -> Trees]
      <4>1. CASE UserDeleteBranch(b)
        BY <4>1, <1>t, Values DEF UserDeleteBranch
      <4>2. CASE UserCreateBranch(b)
        BY <4>2, <2>2, Values DEF UserCreateBranch
      <4> QED BY <3>3, <4>1, <4>2
    <3>4. ASSUME NEW b \in Branches, NEW l \in Lifecycles, UserAddTree(b, l)
          PROVE  ref' \in [Branches -> Refs] /\ tree' \in [Ids -> Trees]
      <4>1. PICK place \in {"target", "elsewhere"} :
              tree' = [tree EXCEPT ![Foreign] =
                [NoTree EXCEPT !.place = place, !.admin = "registered", !.head = b,
                               !.life = IF place = "target" THEN l ELSE NoLife]]
        BY <3>4 DEF UserAddTree
      <4>2. [NoTree EXCEPT !.place = place, !.admin = "registered", !.head = b,
                           !.life = IF place = "target" THEN l ELSE NoLife] \in Trees
        BY Values DEF NoTree, Trees
      <4> QED BY <3>4, <4>1, <4>2, <1>t DEF UserAddTree
    <3>5. ~ \E b \in Branches : Land(b)
      BY <2>1, <1>2, <1>t DEF Land, Meddle, bounds
    <3> QED BY <3>1, <3>2, <3>3, <3>4, <3>5 DEF Meddling
  <2> QED BY <2>1, <2>3 DEF DiskTyped, IInv, TypeOK, Quiet, locks
<1> QED BY <1>1, <1>2
        DEF Meddling, UserCommit, UserDetach, UserEdit, UserRemoveTree,
            UserAddTree, UserDeleteBranch, UserCreateBranch, OutsideKinds

\* The shape of every step: one process continues, leaves or enters, draws a
\* token or reads a receipt; or nothing that the transaction guards changes.
Reads(p) == UNCHANGED <<receipt, lifeLock>>
Draws(p) ==
  /\ proc[p].pc = "c_lock" /\ proc'[p] # proc[p] /\ lifeLock[proc[p].life] = p
  /\ Mine(p).phase = "none" /\ receipt'[proc[p].life].phase = "allocating"
  /\ receipt' = [receipt EXCEPT ![proc[p].life] = receipt'[proc[p].life]]
Shape ==
  \/ \E p \in Procs :
       Continue(p) \/ Leave(p) \/ Enter(p) \/ Draws(p) \/ Reads(p)
  \/ Quiet

LEMMA RunMoves ==
  ASSUME IInv, NEW p \in Procs, Run(p)
  PROVE  /\ Continue(p) \/ Leave(p) \/ Enter(p)
            \/ \E b \in Branches : CreateReceipt(p, b)
         /\ DiskTyped'
<1>1. CASE Create(p)
  BY <1>1, CreateReceiptMoves, CreateRefusedMoves, PrepareRefMoves,
     CommitRefMoves, JournalCommitMoves, AddWorktreeMoves, BindTokenMoves,
     VerifyWorktreeMoves, BootstrapMoves, FinalVerifyMoves, UndoBootstrapMoves
  DEF Create
<1>2. CASE Abort(p)
  BY <1>2, RecoverLockMoves, ClaimWorktreeMoves, MoveToClaimMoves,
     VerifyClaimMoves, DetachTreeMoves, DetachAdminMoves, DisposeMoves,
     JournalRemovedMoves, BranchIntentMoves, LockRefMoves, CheckRefMoves,
     DetachRefMoves, RecheckOwnersMoves, RestoreRefMoves, UnclaimRefMoves,
     DropRefMoves, JournalRefGoneMoves, UnlockRefMoves, SettleMoves
  DEF Abort
<1>3. CASE Finish(p)
  BY <1>3, FinishLockMoves, FinishDecideMoves, FinishRecheckMoves,
     GitRemoveMoves, FinishAgainMoves, FinishResumeMoves, FinishRefMoves,
     FinishJournalMoves, FinishForgetMoves
  DEF Finish
<1> QED BY <1>1, <1>2, <1>3 DEF Run

LEMMA NextIInv == IInv /\ [Next]_vars => IInv' /\ Shape
<1> SUFFICES ASSUME IInv, [Next]_vars PROVE IInv' /\ Shape
  OBVIOUS
<1>c. ASSUME NEW p \in Procs, Continue(p) \/ Leave(p) \/ Enter(p), DiskTyped'
      PROVE  IInv' /\ Shape
  <2>1. ControlTyped' /\ Control'
    BY <1>c, ContinueTyped, LeaveTyped, EnterTyped, ContinueControl,
       LeaveControl, EnterControl
  <2> QED BY <2>1, <1>c, TypeSplit DEF IInv, Shape, TypeOK, ControlTyped, DiskTyped
<1>1. ASSUME NEW p \in Procs, Run(p) PROVE IInv' /\ Shape
  <2>1. CASE \E b \in Branches : CreateReceipt(p, b)
    <3>1. PICK b \in Branches : CreateReceipt(p, b)
      BY <2>1
    <3>2. ControlTyped' /\ Control' /\ DiskTyped'
      BY <3>1, CreateReceiptMoves
    <3>3. /\ proc \in [Procs -> ProcStates] /\ receipt \in [Lifecycles -> Receipts]
          /\ proc[p].pc = "c_lock" /\ lifeLock[proc[p].life] = p
          /\ proc[p].life \in Lifecycles /\ "c_lock" # "c_prepare"
      BY <3>1, Kinds
      DEF CreateReceipt, IInv, TypeOK, Control, LockDiscipline, Held
    <3>4. Draws(p)
      BY <3>1, <3>3 DEF CreateReceipt, Draws, Goto, ProcStates, NoReceipt
    <3> QED BY <3>2, <3>4, TypeSplit
            DEF IInv, Shape, TypeOK, ControlTyped, DiskTyped
  <2> QED BY <2>1, <1>1, <1>c, RunMoves
<1>2. ASSUME NEW p \in Procs, Crash(p) PROVE IInv' /\ Shape
  BY <1>2, <1>c, CrashMoves
<1>3. ASSUME NEW p \in Procs, NEW l \in Lifecycles,
             CreateStart(p, l) \/ RecoverStart(p, l)
      PROVE  IInv' /\ Shape
  BY <1>3, <1>c, CreateStartMoves, RecoverStartMoves
<1>4. ASSUME NEW p \in Procs, NEW l \in Lifecycles, FinishStart(p, l)
      PROVE  IInv' /\ Shape
  <2>1. ControlTyped' /\ Control' /\ DiskTyped'
    BY <1>4, FinishStartMoves
  <2>2. Reads(p)
    BY <1>4 DEF FinishStart, Reads, disk, locks
  <2> QED BY <2>1, <2>2, TypeSplit DEF IInv, Shape, TypeOK, ControlTyped, DiskTyped
<1>5. CASE Meddling
  <2>1. Quiet /\ ControlTyped' /\ Control' /\ DiskTyped'
    BY <1>5, OutsideMoves, QuietControl
  <2> QED BY <2>1, TypeSplit DEF IInv, Shape, TypeOK, ControlTyped, DiskTyped
<1>6. CASE UNCHANGED vars
  <2>1. Quiet /\ DiskTyped'
    BY <1>6 DEF vars, Quiet, DiskTyped, IInv, TypeOK
  <2> QED BY <2>1, QuietControl, TypeSplit DEF IInv, Shape, TypeOK, ControlTyped, DiskTyped
<1> QED BY <1>1, <1>2, <1>3, <1>4, <1>5, <1>6 DEF Next

-----------------------------------------------------------------------------
(* The theorems.                                                           *)

LEMMA Inductive == Spec => []IInv
  BY InitIInv, NextIInv, PTL DEF Spec

\* Every variable keeps its type whatever the interleaving: no handler writes
\* a phase, a token or an identity the registry does not know.
THEOREM TypeCorrect == Spec => []TypeOK
<1>1. IInv => TypeOK
  BY DEF IInv
<1> QED BY <1>1, Inductive, PTL

\* The advisory lock of a lifecycle has one holder, two receipts never have one
\* token, and a detached ref is there whenever a rollback is to restore it.
THEOREM LocksAndTokens == Spec => []Control
<1>1. IInv => Control
  BY DEF IInv
<1> QED BY <1>1, Inductive, PTL

LEMMA KeepsStep ==
  ASSUME IInv, Shape, NEW l \in Lifecycles, NEW p \in Procs,
         lifeLock[l] = p, proc'[p] = proc[p]
  PROVE  receipt'[l] = receipt[l]
<1>t. receipt \in [Lifecycles -> Receipts] /\ proc \in [Procs -> ProcStates]
  BY DEF IInv, TypeOK
<1>1. ASSUME NEW q \in Procs, Continue(q) \/ Leave(q) \/ Draws(q)
      PROVE  receipt'[l] = receipt[l]
  <2>1. CASE receipt' = receipt
    BY <2>1
  <2>2. CASE receipt' # receipt
    <3>1. /\ proc[q].pc \in Held /\ proc'[q] # proc[q]
          /\ receipt' = [receipt EXCEPT ![proc[q].life] = receipt'[proc[q].life]]
      <4>1. CASE Continue(q)
        BY <4>1, Kinds DEF Continue, OnlyMine
      <4>2. CASE Leave(q)
        <5>1. proc[q].pc \in Held
          BY <4>2, <2>2, Kinds DEF Leave
        <5>2. proc'[q].pc = "idle"
          BY <4>2, <1>t DEF Leave, Exit, Idle
        <5> QED BY <5>1, <5>2, <4>2, Kinds DEF Leave, OnlyMine
      <4>3. CASE Draws(q)
        BY <4>3 DEF Draws, Held
      <4> QED BY <4>1, <4>2, <4>3, <1>1
    <3>2. lifeLock[proc[q].life] = q
      BY <3>1 DEF IInv, Control, LockDiscipline
    <3>3. proc[q].life # l
      BY <3>1, <3>2
    <3> QED BY <3>1, <3>3, <1>t
  <2> QED BY <2>1, <2>2
<1>2. ASSUME NEW q \in Procs, Enter(q)
      PROVE  receipt'[l] = receipt[l]
  <2>1. proc'[q].life # l
    BY <1>2, NamesAssumption DEF Enter
  <2> QED BY <2>1, <1>2, <1>t DEF Enter
<1>3. ASSUME Quiet \/ \E q \in Procs : Reads(q)
      PROVE  receipt'[l] = receipt[l]
  BY <1>3 DEF Quiet, Reads
<1> QED BY <1>1, <1>2, <1>3 DEF Shape

\* While a process works on a lifecycle, no other create, recover or finish,
\* and no crash of one, changes the lifecycle's receipt.
THEOREM ReceiptIsKept == Spec => CreatorKeepsItsReceipt
<1>1. IInv /\ [Next]_vars
        => [\A l \in Lifecycles, p \in Procs :
              lifeLock[l] = p /\ proc'[p] = proc[p] => receipt'[l] = receipt[l]]_vars
  BY NextIInv, KeepsStep
<1> QED BY <1>1, Inductive, PTL DEF Spec, CreatorKeepsItsReceipt

LEMMA HandedOverStep ==
  ASSUME IInv, Shape, NEW l \in Lifecycles, receipt[l].phase \in FinishPhases
  PROVE  receipt'[l].phase \notin CREATION_PHASES
<1>t. receipt \in [Lifecycles -> Receipts] /\ proc \in [Procs -> ProcStates]
  BY DEF IInv, TypeOK
<1>k. receipt[l].phase \notin CREATION_PHASES /\ receipt[l].phase # "none"
      /\ NoReceipt.phase \notin CREATION_PHASES
  BY Kinds DEF NoReceipt
<1>1. ASSUME NEW q \in Procs, Continue(q)
      PROVE  receipt'[l].phase \notin CREATION_PHASES
  BY <1>1, <1>t, <1>k, Kinds DEF Continue, OnlyMine, IInv, Control, PhaseDiscipline
<1>2. ASSUME NEW q \in Procs, Leave(q)
      PROVE  receipt'[l].phase \notin CREATION_PHASES
  BY <1>2, <1>t, <1>k, Kinds DEF Leave, OnlyMine, IInv, Control, PhaseDiscipline
<1>3. ASSUME NEW q \in Procs, Enter(q)
      PROVE  receipt'[l].phase \notin CREATION_PHASES
  <2>1. "requested" \notin CREATION_PHASES
    BY DEF CREATION_PHASES, RollbackPhases, AfterTree
  <2>2. receipt[l] \in Receipts
    BY <1>t
  <2> QED BY <1>3, <1>t, <1>k, <2>1, <2>2 DEF Enter, Receipts
<1>4. ASSUME NEW q \in Procs, Draws(q)
      PROVE  receipt'[l].phase \notin CREATION_PHASES
  BY <1>4, <1>t, <1>k DEF Draws, Mine
<1>5. ASSUME Quiet \/ \E q \in Procs : Reads(q)
      PROVE  receipt'[l].phase \notin CREATION_PHASES
  BY <1>5, <1>k DEF Quiet, Reads
<1> QED BY <1>1, <1>2, <1>3, <1>4, <1>5 DEF Shape

\* A lifecycle whose creation was handed over is never again a creation to be
\* recovered: no interleaving of create, recover, finish and crashes turns a
\* finish phase back into a creation phase, so recover never takes it.
THEOREM HandedOver == Spec => HandedOverIsNeverRolledBack
<1>1. IInv /\ [Next]_vars
        => [\A l \in Lifecycles : receipt[l].phase \in FinishPhases
              => receipt'[l].phase \notin CREATION_PHASES]_vars
  BY NextIInv, HandedOverStep
<1> QED BY <1>1, Inductive, PTL DEF Spec, HandedOverIsNeverRolledBack


-----------------------------------------------------------------------------
(* What a process knows of the repository it works on.  Two more locks     *)
(* matter here: the repository lock, which keeps the other processes away  *)
(* from refs and worktrees, and git's lock file of the branch, which keeps *)
(* the people away from the ref.                                           *)

\* Where the repository lock is held.
RepoPcs ==
  AbortPcs \cup
  { "c_prepare", "c_commit", "c_journal", "c_add", "c_bind", "c_verify",
    "f_recheck", "f_remove", "f_resume", "f_ref", "f_deleted", "f_forget" }
RepoDiscipline == \A p \in Procs : proc[p].pc \in RepoPcs => repoLock = p

\* Between LockRef and UnlockRef.
LockedPcs ==
  { "ref_check", "ref_detach", "ref_recheck", "ref_restore", "ref_unclaim",
    "ref_drop", "ref_gone", "ref_release" }

\* What was read of the ref is still so when it is changed.
RefKnown(p) ==
  LET b == Mine(p).branch
      pc == proc[p].pc
  IN
  /\ pc \in LockedPcs => refLock[b] = Token(p)
  /\ pc \in {"c_commit", "ref_recheck", "ref_drop"} => ~Exists(b)
  /\ pc = "ref_detach" => ref[b].sha = Source
  /\ pc = "ref_restore" => ref[b].sha \in {Source, NoSha}
  /\ pc = "ref_unclaim" => Exists(b)
  /\ pc = "ref_drop" => Owners(b) = {}

\* A worktree is removed under the phase that was journaled for it.
PhaseKnown(p) ==
  /\ proc[p].pc \in {"detach_tree", "detach_admin", "dispose"}
       => Mine(p).phase = "rollback_claimed"
  /\ proc[p].pc \in {"f_recheck", "f_remove"} => Mine(p).phase = "approved"

Knows(p) == RefKnown(p) /\ PhaseKnown(p)

\* An approved commit has landed, and only a receipt names a token.
Approved == \A l \in Lifecycles : receipt[l].approved \in landed \cup {NoSha}
Blank ==
  \A l \in Lifecycles : receipt[l].phase = "none" => receipt[l].token = Foreign

KInv == RepoDiscipline /\ (\A p \in Procs : Knows(p)) /\ Approved /\ Blank

KnowPcs ==
  LockedPcs \cup
  {"c_commit", "detach_tree", "detach_admin", "dispose", "f_recheck", "f_remove"}

\* A step of p: it stays out of the repository or has its lock to itself, and
\* approves only what has landed.
KeepsApproved ==
  \A l \in Lifecycles :
    receipt'[l].approved \in {receipt[l].approved, NoSha} \cup landed
Apart(p) ==
  /\ \A q \in Procs : q # p => proc'[q] = proc[q]
  /\ repoLock \in {NoProc, p} \/ UNCHANGED <<ref, refLock, tree, repoLock>>
  /\ proc'[p].pc \in RepoPcs => repoLock' = p
  /\ landed' = landed /\ KeepsApproved

\* It takes away nothing but what the three properties at the end allow.
Removes(l, u) ==
  \/ receipt[l].phase = "approved" /\ u \in At(l)
  \/ receipt[l].phase = "rollback_claimed" /\ receipt[l].token = u
Harmless(p) ==
  /\ \A b \in Branches :
       ref[b].sha # ref'[b].sha => ref[b].sha \in {Source, NoSha} \cup landed
  /\ \A t \in Tokens :
       refClaim[t] # NoClaim /\ refClaim'[t] = NoClaim
         => /\ proc[p].pc \in Making /\ t = Token(p)
            /\ Owners(Mine(p).branch) = {} \/ ref'[Mine(p).branch].sha # NoSha
  /\ \A u \in Ids :
       tree[u].admin = "registered" /\ tree'[u].admin # "registered"
         => \E l \in Lifecycles : Removes(l, u)
Good(p) == Apart(p) /\ Knows(p)' /\ Harmless(p)

LEMMA AtWork ==
  ASSUME IInv, KInv, NEW p \in Procs, proc[p].pc \in RepoPcs
  PROVE  /\ repoLock = p /\ proc[p].pc \in Making \cup Finishing
         /\ RefKnown(p) /\ PhaseKnown(p)
<1>1. RepoPcs \subseteq Making \cup Finishing
  BY DEF RepoPcs, Making, Finishing, AbortPcs, CreatePcs, FinishPcs
<1> QED BY <1>1 DEF KInv, RepoDiscipline, Knows

LEMMA KnowsNothing ==
  ASSUME NEW p \in Procs, proc'[p].pc \notin KnowPcs
  PROVE  Knows(p)'
  BY DEF KnowPcs, LockedPcs, Knows, RefKnown, PhaseKnown

LEMMA Untouched ==
  ASSUME NEW p \in Procs, UNCHANGED <<ref, refClaim, tree>>
  PROVE  Harmless(p)
  BY DEF Harmless

LEMMA KeptApproved ==
  ASSUME IInv, NEW p \in Procs, proc[p].pc \in Making \cup Finishing,
         Rewrites(p) \/ (\E f \in FinishPhases : Write(p, f))
  PROVE  KeepsApproved
<1>1. receipt \in [Lifecycles -> Receipts] /\ proc[p].life \in Lifecycles
  BY Mined
<1>2. ASSUME NEW l \in Lifecycles PROVE receipt'[l].approved = receipt[l].approved
  <2>1. receipt[l] \in Receipts
    BY <1>1
  <2>2. \/ receipt'[l] = receipt[l]
        \/ \E f : receipt'[l] = [receipt[l] EXCEPT !.phase = f]
        \/ \E a : receipt'[l] = [receipt[l] EXCEPT !.alloc = a]
        \/ \E i : receipt'[l] = [receipt[l] EXCEPT !.refId = i]
    BY <1>1 DEF Rewrites, Write
  <2> QED BY <2>1, <2>2 DEF Receipts
<1> QED BY <1>2 DEF KeepsApproved

LEMMA ContinuesApart ==
  ASSUME IInv, KInv, NEW p \in Procs, proc[p].pc \in RepoPcs, Continue(p),
         repoLock' = repoLock \/ proc'[p].pc \notin RepoPcs,
         landed' = landed, KeepsApproved
  PROVE  Apart(p)
  BY AtWork DEF Apart, Continue, OnlyMine, IInv, TypeOK

LEMMA LeavesApart ==
  ASSUME IInv, KInv, NEW p \in Procs, Leave(p),
         proc[p].pc \notin RepoPcs => UNCHANGED <<ref, refLock, tree>>,
         landed' = landed, KeepsApproved
  PROVE  Apart(p) /\ Knows(p)'
<1>1. proc'[p].pc = "idle" /\ \A q \in Procs : q # p => proc'[q] = proc[q]
  BY DEF Leave, Exit, Idle, IInv, TypeOK
<1>2. "idle" \notin RepoPcs \cup KnowPcs
  BY DEF RepoPcs, KnowPcs, LockedPcs, AbortPcs
<1>3. repoLock \in {NoProc, p} \/ UNCHANGED <<ref, refLock, tree, repoLock>>
  BY AtWork DEF Leave, Exit
<1> QED BY <1>1, <1>2, <1>3, KnowsNothing DEF Apart

\* A rollback or creation that goes on without touching refs or worktrees.
LEMMA Onward ==
  ASSUME IInv, NEW p \in Procs, Continue(p)
  PROVE  /\ Mine(p)' = receipt'[proc[p].life]
         /\ Mine(p)'.branch = Mine(p).branch /\ Token(p)' = Token(p)
         /\ proc[p].pc \in Making \cup Finishing
         /\ proc[p].life \in Lifecycles
  BY Mined DEF Continue, OnlyMine, SameName, Mine, Token

-----------------------------------------------------------------------------
(* The steps of a rollback.                                                *)

LEMMA WorkGood ==
  ASSUME IInv, KInv, NEW p \in Procs, proc[p].pc \in RepoPcs, Continue(p),
         Rewrites(p) \/ (\E f \in FinishPhases : Write(p, f)),
         repoLock' = repoLock, landed' = landed, Knows(p)', Harmless(p)
  PROVE  Good(p)
  BY ContinuesApart, KeptApproved, AtWork DEF Good

LEMMA Went ==
  ASSUME NEW p \in Procs, proc \in [Procs -> ProcStates]
  PROVE  \A c : Goto(p, c) \/ Refuse(p, c) \/ Identify(p, c) => proc'[p].pc = c
<1> SUFFICES ASSUME NEW c, Goto(p, c) \/ Refuse(p, c) \/ Identify(p, c)
             PROVE  proc'[p].pc = c
  OBVIOUS
<1>1. \/ proc'[p] = [proc[p] EXCEPT !.pc = c]
      \/ proc'[p] = [proc[p] EXCEPT !.pc = c, !.residue = TRUE]
      \/ proc'[p] = [proc[p] EXCEPT !.pc = c, !.ident = TRUE]
  BY DEF Goto, Refuse, Identify
<1> QED BY <1>1 DEF ProcStates

LEMMA ClaimWorktreeGood ==
  ASSUME IInv, KInv, NEW p \in Procs, ClaimWorktree(p)
  PROVE  Good(p)
<1>m. /\ proc[p].pc = "claim" /\ "claim" \in RepoPcs /\ Continue(p)
      /\ proc \in [Procs -> ProcStates]
  BY ClaimWorktreeMoves DEF ClaimWorktree, RepoPcs, AbortPcs, IInv, TypeOK
<1>u. UNCHANGED <<receipt, ref, refLock, refClaim, tree, repoLock, landed>>
  BY DEF ClaimWorktree, disk, locks, Rest
<1>g. \/ proc'[p].pc = "detach_tree" /\ Mine(p).phase = "rollback_claimed"
      \/ proc'[p].pc \in {"branch", "verify_claim", "move", "journal_removed"}
  BY <1>m, Went DEF ClaimWorktree
<1>1. Knows(p)'
  <2>1. Mine(p)' = Mine(p)
    BY <1>m, <1>u, Onward DEF Mine
  <2> QED BY <2>1, <1>g, KnowsNothing
          DEF Knows, RefKnown, PhaseKnown, LockedPcs, KnowPcs
<1>2. Harmless(p)
  BY <1>u, Untouched
<1> QED BY <1>m, <1>u, <1>1, <1>2, WorkGood DEF Rewrites

LEMMA MoveToClaimGood ==
  ASSUME IInv, KInv, NEW p \in Procs, MoveToClaim(p)
  PROVE  Good(p)
<1>m. /\ proc[p].pc = "move" /\ "move" \in RepoPcs /\ Continue(p)
      /\ proc \in [Procs -> ProcStates] /\ tree \in [Ids -> Trees]
  BY MoveToClaimMoves DEF MoveToClaim, RepoPcs, AbortPcs, IInv, TypeOK
<1>u. UNCHANGED <<receipt, ref, refLock, refClaim, repoLock, landed>>
  BY DEF MoveToClaim, locks, Rest
<1>1. Knows(p)'
  <2>1. proc'[p].pc \in {"verify_claim", "branch"}
    BY <1>m, Went DEF MoveToClaim
  <2> QED BY <2>1, KnowsNothing DEF KnowPcs, LockedPcs
<1>2. Harmless(p)
  <2>1. ASSUME NEW u \in Ids PROVE tree'[u].admin = tree[u].admin
    <3>1. \/ tree'[u] = tree[u]
          \/ tree'[u] = [tree[u] EXCEPT !.place = "claim", !.tok = Token(p)]
      BY <1>m DEF MoveToClaim, At
    <3> QED BY <3>1, <1>m DEF Trees
  <2> QED BY <2>1, <1>u DEF Harmless
<1> QED BY <1>m, <1>u, <1>1, <1>2, WorkGood DEF Rewrites

LEMMA VerifyClaimGood ==
  ASSUME IInv, KInv, NEW p \in Procs, VerifyClaim(p)
  PROVE  Good(p)
<1>m. /\ proc[p].pc = "verify_claim" /\ "verify_claim" \in RepoPcs /\ Continue(p)
      /\ proc \in [Procs -> ProcStates] /\ tree \in [Ids -> Trees]
      /\ receipt \in [Lifecycles -> Receipts]
  BY VerifyClaimMoves DEF VerifyClaim, RepoPcs, AbortPcs, IInv, TypeOK
<1>u. UNCHANGED <<ref, refLock, refClaim, repoLock, landed>>
  BY DEF VerifyClaim, locks, Rest
<1>r. Rewrites(p)
  BY DEF VerifyClaim, Rewrites, CREATION_PHASES, RollbackPhases, AfterTree
<1>1. Knows(p)'
  <2>1. \/ proc'[p].pc = "detach_tree" /\ Write(p, "rollback_claimed")
        \/ proc'[p].pc = "branch"
    BY <1>m, Went DEF VerifyClaim
  <2>2. CASE proc'[p].pc = "detach_tree" /\ Write(p, "rollback_claimed")
    <3>1. Mine(p)'.phase = "rollback_claimed"
      BY <2>2, <1>m, Onward DEF Write, Receipts
    <3> QED BY <3>1, <2>2 DEF Knows, RefKnown, PhaseKnown, LockedPcs
  <2>3. CASE proc'[p].pc = "branch"
    BY <2>3, KnowsNothing DEF KnowPcs, LockedPcs
  <2> QED BY <2>1, <2>2, <2>3
<1>2. Harmless(p)
  <2>1. ASSUME NEW u \in Ids PROVE tree'[u].admin = tree[u].admin
    <3>1. \/ tree'[u] = tree[u]
          \/ tree'[u] = [tree[u] EXCEPT !.place = "target", !.life = proc[p].life,
                                         !.tok = Foreign]
      BY <1>m DEF VerifyClaim
    <3> QED BY <3>1, <1>m DEF Trees
  <2> QED BY <2>1, <1>u DEF Harmless
<1> QED BY <1>m, <1>u, <1>r, <1>1, <1>2, WorkGood

LEMMA DetachTreeGood ==
  ASSUME IInv, KInv, NEW p \in Procs, DetachTree(p)
  PROVE  Good(p)
<1>m. /\ proc[p].pc = "detach_tree" /\ "detach_tree" \in RepoPcs /\ Continue(p)
      /\ proc \in [Procs -> ProcStates] /\ tree \in [Ids -> Trees]
  BY DetachTreeMoves DEF DetachTree, RepoPcs, AbortPcs, IInv, TypeOK
<1>u. UNCHANGED <<receipt, ref, refLock, refClaim, repoLock, landed>>
  BY DEF DetachTree, locks, Rest
<1>1. Knows(p)'
  <2>1. proc'[p].pc \in {"detach_admin", "branch"}
    BY <1>m, Went DEF DetachTree
  <2>2. Mine(p)' = Mine(p) /\ Mine(p).phase = "rollback_claimed"
    BY <1>m, <1>u, Onward, AtWork DEF Mine, PhaseKnown
  <2> QED BY <2>1, <2>2 DEF Knows, RefKnown, PhaseKnown, LockedPcs
<1>2. Harmless(p)
  <2>1. \A u \in Ids : tree'[u].admin = tree[u].admin
    BY <1>m DEF DetachTree, Trees
  <2> QED BY <2>1, <1>u DEF Harmless
<1> QED BY <1>m, <1>u, <1>1, <1>2, WorkGood DEF Rewrites

LEMMA DetachAdminGood ==
  ASSUME IInv, KInv, NEW p \in Procs, DetachAdmin(p)
  PROVE  Good(p)
<1>m. /\ proc[p].pc = "detach_admin" /\ "detach_admin" \in RepoPcs /\ Continue(p)
      /\ proc \in [Procs -> ProcStates] /\ tree \in [Ids -> Trees]
  BY DetachAdminMoves DEF DetachAdmin, RepoPcs, AbortPcs, IInv, TypeOK
<1>u. UNCHANGED <<receipt, ref, refLock, refClaim, repoLock, landed>>
  BY DEF DetachAdmin, locks, Rest
<1>o. /\ Mine(p)' = Mine(p) /\ Mine(p).phase = "rollback_claimed"
      /\ proc[p].life \in Lifecycles
  BY <1>m, <1>u, Onward, AtWork DEF Mine, PhaseKnown
<1>1. Knows(p)'
  <2>1. proc'[p].pc \in {"dispose", "branch"}
    BY <1>m, Went DEF DetachAdmin
  <2> QED BY <2>1, <1>o DEF Knows, RefKnown, PhaseKnown, LockedPcs
<1>2. Harmless(p)
  <2>1. \A u \in Ids : u # Token(p) => tree'[u] = tree[u]
    BY <1>m DEF DetachAdmin
  <2> QED BY <2>1, <1>o, <1>u DEF Harmless, Removes, Token, Mine
<1> QED BY <1>m, <1>u, <1>1, <1>2, WorkGood DEF Rewrites

LEMMA DisposeGood ==
  ASSUME IInv, KInv, NEW p \in Procs, Dispose(p)
  PROVE  Good(p)
<1>m. /\ proc[p].pc = "dispose" /\ "dispose" \in RepoPcs /\ Continue(p)
      /\ proc \in [Procs -> ProcStates] /\ tree \in [Ids -> Trees]
  BY DisposeMoves DEF Dispose, RepoPcs, AbortPcs, IInv, TypeOK
<1>u. UNCHANGED <<receipt, ref, refLock, refClaim, repoLock, landed>>
  BY DEF Dispose, locks, Rest
<1>o. /\ Mine(p)' = Mine(p) /\ Mine(p).phase = "rollback_claimed"
      /\ proc[p].life \in Lifecycles
  BY <1>m, <1>u, Onward, AtWork DEF Mine, PhaseKnown
<1>1. Knows(p)'
  <2>1. proc'[p].pc \in {"journal_removed", "branch"}
    BY <1>m, Went DEF Dispose
  <2> QED BY <2>1, KnowsNothing DEF KnowPcs, LockedPcs
<1>2. Harmless(p)
  <2>1. \A u \in Ids : u # Token(p) => tree'[u] = tree[u]
    BY <1>m DEF Dispose
  <2> QED BY <2>1, <1>o, <1>u DEF Harmless, Removes, Token, Mine
<1> QED BY <1>m, <1>u, <1>1, <1>2, WorkGood DEF Rewrites

LEMMA JournalRemovedGood ==
  ASSUME IInv, KInv, NEW p \in Procs, JournalRemoved(p)
  PROVE  Good(p)
<1>m. /\ proc[p].pc = "journal_removed" /\ "journal_removed" \in RepoPcs
      /\ Continue(p) /\ proc \in [Procs -> ProcStates]
  BY JournalRemovedMoves DEF JournalRemoved, RepoPcs, AbortPcs, IInv, TypeOK
<1>u. UNCHANGED <<ref, refLock, refClaim, tree, repoLock, landed>>
  BY DEF JournalRemoved, locks, Rest
<1>r. Rewrites(p)
  BY DEF JournalRemoved, Rewrites, CREATION_PHASES, RollbackPhases, AfterTree
<1>1. Knows(p)'
  <2>1. proc'[p].pc = "branch"
    BY <1>m, Went DEF JournalRemoved
  <2> QED BY <2>1, KnowsNothing DEF KnowPcs, LockedPcs
<1>2. Harmless(p)
  BY <1>u, Untouched
<1> QED BY <1>m, <1>u, <1>r, <1>1, <1>2, WorkGood

\* What a process knows next, in terms of the branch and token it keeps.
LEMMA RefNext ==
  ASSUME IInv, NEW p \in Procs, Continue(p),
         proc'[p].pc \in LockedPcs \cup {"c_commit"} \/ proc'[p].pc \notin KnowPcs,
         proc'[p].pc \in LockedPcs => refLock'[Mine(p).branch] = Token(p),
         proc'[p].pc \in {"c_commit", "ref_recheck", "ref_drop"}
           => ref'[Mine(p).branch].sha = NoSha,
         proc'[p].pc = "ref_detach" => ref'[Mine(p).branch].sha = Source,
         proc'[p].pc = "ref_restore" => ref'[Mine(p).branch].sha \in {Source, NoSha},
         proc'[p].pc = "ref_unclaim" => ref'[Mine(p).branch].sha # NoSha,
         proc'[p].pc = "ref_drop" => tree' = tree /\ Owners(Mine(p).branch) = {}
  PROVE  Knows(p)'
<1> DEFINE b == Mine(p).branch
<1>1. Mine(p)'.branch = b /\ Token(p)' = Token(p)
  BY Onward
<1>2. tree' = tree => Owners(b)' = Owners(b)
  BY <1>1 DEF Owners
<1>3. RefKnown(p)'
  BY <1>1, <1>2 DEF RefKnown, Exists, LockedPcs, KnowPcs
<1>4. PhaseKnown(p)'
  BY DEF PhaseKnown, KnowPcs, LockedPcs
<1> QED BY <1>3, <1>4 DEF Knows

\* The typing of what a rollback of the branch works on.
LEMMA BranchTyped ==
  ASSUME IInv, KInv, NEW p \in Procs, proc[p].pc \in RepoPcs
  PROVE  /\ proc \in [Procs -> ProcStates] /\ ref \in [Branches -> Refs]
         /\ refLock \in [Branches -> Ids]
         /\ refClaim \in [Tokens -> Ids \cup {NoClaim}]
         /\ Mine(p).branch \in Branches /\ Token(p) \in Tokens
         /\ proc[p].life \in Lifecycles
  BY AtWork, Mined DEF IInv, TypeOK

LEMMA BranchIntentGood ==
  ASSUME IInv, KInv, NEW p \in Procs, BranchIntent(p)
  PROVE  Good(p)
<1>m. /\ proc[p].pc = "branch" /\ "branch" \in RepoPcs /\ Continue(p)
      /\ proc \in [Procs -> ProcStates]
  BY BranchIntentMoves DEF BranchIntent, RepoPcs, AbortPcs, IInv, TypeOK
<1>u. UNCHANGED <<ref, refClaim, tree, repoLock, landed>>
  BY DEF BranchIntent, locks, Rest
<1>r. Rewrites(p)
  BY Mined, <1>m DEF BranchIntent, Rewrites, CREATION_PHASES, RollbackPhases, AfterTree
<1>1. Knows(p)'
  <2>1. proc'[p].pc \in {"settle", "ref_lock"}
    BY <1>m, Went DEF BranchIntent
  <2> QED BY <2>1, KnowsNothing DEF KnowPcs, LockedPcs
<1>2. Harmless(p)
  BY <1>u, Untouched
<1> QED BY <1>m, <1>u, <1>r, <1>1, <1>2, WorkGood

LEMMA LockRefGood ==
  ASSUME IInv, KInv, NEW p \in Procs, LockRef(p)
  PROVE  Good(p)
<1>m. /\ proc[p].pc = "ref_lock" /\ "ref_lock" \in RepoPcs /\ Continue(p)
      /\ proc \in [Procs -> ProcStates]
  BY LockRefMoves DEF LockRef, RepoPcs, AbortPcs, IInv, TypeOK
<1>u. UNCHANGED <<receipt, ref, refClaim, tree, repoLock, landed>>
  BY DEF LockRef, locks, Rest
<1>1. Knows(p)'
  <2>1. \/ proc'[p].pc = "ref_check" /\ refLock'[Mine(p).branch] = Token(p)
        \/ proc'[p].pc = "settle"
    BY <1>m, Went, BranchTyped DEF LockRef
  <2> QED BY <2>1, <1>m, RefNext, KnowsNothing DEF KnowPcs, LockedPcs
<1>2. Harmless(p)
  BY <1>u, Untouched
<1> QED BY <1>m, <1>u, <1>1, <1>2, WorkGood DEF Rewrites

LEMMA CheckRefGood ==
  ASSUME IInv, KInv, NEW p \in Procs, CheckRef(p)
  PROVE  Good(p)
<1> DEFINE b == Mine(p).branch
<1>m. /\ proc[p].pc = "ref_check" /\ "ref_check" \in RepoPcs /\ Continue(p)
      /\ proc \in [Procs -> ProcStates]
  BY CheckRefMoves DEF CheckRef, RepoPcs, AbortPcs, IInv, TypeOK
<1>u. UNCHANGED <<ref, refClaim, tree, repoLock, landed>>
  BY DEF CheckRef, locks, Rest
<1>i. ref[b].id \in Ids
  BY <1>m, BranchTyped DEF Refs
<1>r. Rewrites(p)
  BY Mined, <1>m, <1>i DEF CheckRef, RefuseRef, Rewrites, CREATION_PHASES, RollbackPhases, AfterTree
<1>1. Knows(p)'
  <2>1. refLock[b] = Token(p)
    BY <1>m, AtWork DEF RefKnown, LockedPcs
  <2>2. \/ proc'[p].pc = "settle"
        \/ proc'[p].pc = "ref_restore" /\ ~Exists(b) /\ UNCHANGED refLock
        \/ /\ proc'[p].pc = "ref_drop" /\ ~Exists(b) /\ UNCHANGED refLock
           /\ Owners(b) = {}
        \/ proc'[p].pc = "ref_gone" /\ UNCHANGED refLock
        \/ /\ proc'[p].pc \in {"ref_restore", "ref_detach"} /\ UNCHANGED refLock
           /\ ref[b].sha = Source
    BY <1>m, Went DEF CheckRef, RefuseRef
  <2>3. CASE proc'[p].pc = "settle"
    BY <2>3, KnowsNothing DEF KnowPcs, LockedPcs
  <2> QED BY <2>1, <2>2, <2>3, <1>m, <1>u, RefNext DEF KnowPcs, LockedPcs, Exists
<1>2. Harmless(p)
  BY <1>u, Untouched
<1> QED BY <1>m, <1>u, <1>r, <1>1, <1>2, WorkGood

LEMMA DetachRefGood ==
  ASSUME IInv, KInv, NEW p \in Procs, DetachRef(p)
  PROVE  Good(p)
<1> DEFINE b == Mine(p).branch
<1>m. /\ proc[p].pc = "ref_detach" /\ "ref_detach" \in RepoPcs /\ Continue(p)
      /\ proc \in [Procs -> ProcStates] /\ ref[b].sha = Source
      /\ refLock[b] = Token(p)
  BY DetachRefMoves, AtWork
  DEF DetachRef, RepoPcs, AbortPcs, IInv, TypeOK, RefKnown, LockedPcs
<1>t. /\ ref \in [Branches -> Refs] /\ b \in Branches /\ ref[b].id \in Ids
      /\ refClaim \in [Tokens -> Ids \cup {NoClaim}] /\ Token(p) \in Tokens
  BY <1>m, BranchTyped DEF Refs
<1>u. UNCHANGED <<tree, repoLock, landed>>
  BY DEF DetachRef, locks, Rest
<1>r. Rewrites(p)
  BY Mined, <1>m DEF DetachRef, RefuseRef, Rewrites, CREATION_PHASES, RollbackPhases, AfterTree
<1>c. \/ proc'[p].pc = "settle" /\ UNCHANGED <<ref, refClaim>>
      \/ /\ proc'[p].pc = "ref_recheck" /\ UNCHANGED refLock
         /\ ref' = [ref EXCEPT ![b] = NoRef]
         /\ refClaim' = [refClaim EXCEPT ![Token(p)] = ref[b].id]
  BY <1>m, Went DEF DetachRef, RefuseRef
<1>1. Knows(p)'
  <2>1. CASE proc'[p].pc = "settle"
    BY <2>1, KnowsNothing DEF KnowPcs, LockedPcs
  <2>2. CASE proc'[p].pc = "ref_recheck"
    <3>1. ref'[b].sha = NoSha /\ refLock'[b] = Token(p)
      BY <2>2, <1>c, <1>m, <1>t DEF NoRef
    <3> QED BY <3>1, <2>2, <1>m, RefNext DEF LockedPcs
  <2> QED BY <2>1, <2>2, <1>c
<1>2. Harmless(p)
  <2>1. CASE UNCHANGED <<ref, refClaim>>
    BY <2>1, <1>u, Untouched
  <2>2. CASE /\ ref' = [ref EXCEPT ![b] = NoRef]
             /\ refClaim' = [refClaim EXCEPT ![Token(p)] = ref[b].id]
    <3>1. \A c \in Branches : c # b => ref'[c] = ref[c]
      BY <2>2, <1>t
    <3>2. \A t \in Tokens : refClaim'[t] = NoClaim => refClaim[t] = NoClaim
      BY <2>2, <1>t, Values
    <3> QED BY <3>1, <3>2, <1>m, <1>u DEF Harmless
  <2> QED BY <2>1, <2>2, <1>c
<1> QED BY <1>m, <1>u, <1>r, <1>1, <1>2, WorkGood

LEMMA RecheckOwnersGood ==
  ASSUME IInv, KInv, NEW p \in Procs, RecheckOwners(p)
  PROVE  Good(p)
<1> DEFINE b == Mine(p).branch
<1>m. /\ proc[p].pc = "ref_recheck" /\ "ref_recheck" \in RepoPcs /\ Continue(p)
      /\ proc \in [Procs -> ProcStates] /\ ~Exists(b) /\ refLock[b] = Token(p)
  BY RecheckOwnersMoves, AtWork
  DEF RecheckOwners, RepoPcs, AbortPcs, IInv, TypeOK, RefKnown, LockedPcs
<1>u. UNCHANGED <<ref, refLock, refClaim, tree, repoLock, landed>>
  BY DEF RecheckOwners, locks, Rest
<1>r. Rewrites(p)
  BY Mined, <1>m DEF RecheckOwners, Rewrites, CREATION_PHASES, RollbackPhases, AfterTree
<1>1. Knows(p)'
  <2>1. \/ proc'[p].pc = "ref_restore"
        \/ proc'[p].pc = "ref_drop" /\ Owners(b) = {}
    BY <1>m, Went DEF RecheckOwners
  <2> QED BY <2>1, <1>m, <1>u, RefNext DEF LockedPcs, Exists
<1>2. Harmless(p)
  BY <1>u, Untouched
<1> QED BY <1>m, <1>u, <1>r, <1>1, <1>2, WorkGood

LEMMA RestoreRefGood ==
  ASSUME IInv, KInv, NEW p \in Procs, RestoreRef(p)
  PROVE  Good(p)
<1> DEFINE b == Mine(p).branch
<1>m. /\ proc[p].pc = "ref_restore" /\ "ref_restore" \in RepoPcs /\ Continue(p)
      /\ proc \in [Procs -> ProcStates] /\ ref[b].sha \in {Source, NoSha}
      /\ refLock[b] = Token(p)
  BY RestoreRefMoves, AtWork
  DEF RestoreRef, RepoPcs, AbortPcs, IInv, TypeOK, RefKnown, LockedPcs
<1>u. UNCHANGED <<receipt, refLock, refClaim, tree, repoLock, landed>>
  BY DEF RestoreRef, locks, Rest
<1>c. /\ proc'[p].pc = "ref_unclaim" /\ ref'[b].sha = Source
      /\ \A c \in Branches : c # b => ref'[c] = ref[c]
  BY <1>m, Went, BranchTyped DEF RestoreRef
<1>1. Knows(p)'
  BY <1>c, <1>m, <1>u, Values, RefNext DEF LockedPcs
<1>2. Harmless(p)
  BY <1>c, <1>m, <1>u DEF Harmless
<1> QED BY <1>m, <1>u, <1>1, <1>2, WorkGood DEF Rewrites

LEMMA UnclaimRefGood ==
  ASSUME IInv, KInv, NEW p \in Procs, UnclaimRef(p)
  PROVE  Good(p)
<1> DEFINE b == Mine(p).branch
<1>m. /\ proc[p].pc = "ref_unclaim" /\ "ref_unclaim" \in RepoPcs /\ Continue(p)
      /\ proc \in [Procs -> ProcStates] /\ Exists(b) /\ "ref_unclaim" \in Making
  BY UnclaimRefMoves, AtWork
  DEF UnclaimRef, RepoPcs, AbortPcs, IInv, TypeOK, RefKnown, LockedPcs, Making
<1>u. UNCHANGED <<ref, tree, repoLock, landed>>
  BY DEF UnclaimRef, locks, Rest
<1>r. Rewrites(p)
  BY Mined, <1>m DEF UnclaimRef, Rewrites, CREATION_PHASES, RollbackPhases, AfterTree
<1>1. Knows(p)'
  <2>1. proc'[p].pc = "settle"
    BY <1>m, Went DEF UnclaimRef
  <2> QED BY <2>1, KnowsNothing DEF KnowPcs, LockedPcs
<1>2. Harmless(p)
  <2>1. \A t \in Tokens : t # Token(p) => refClaim'[t] = refClaim[t]
    BY <1>m DEF Continue, OnlyMine
  <2> QED BY <2>1, <1>m, <1>u DEF Harmless, Exists
<1> QED BY <1>m, <1>u, <1>r, <1>1, <1>2, WorkGood

LEMMA DropRefGood ==
  ASSUME IInv, KInv, NEW p \in Procs, DropRef(p)
  PROVE  Good(p)
<1> DEFINE b == Mine(p).branch
<1>m. /\ proc[p].pc = "ref_drop" /\ "ref_drop" \in RepoPcs /\ Continue(p)
      /\ proc \in [Procs -> ProcStates] /\ Owners(b) = {} /\ "ref_drop" \in Making
      /\ refLock[b] = Token(p)
  BY DropRefMoves, AtWork
  DEF DropRef, RepoPcs, AbortPcs, IInv, TypeOK, RefKnown, LockedPcs, Making
<1>u. UNCHANGED <<receipt, ref, refLock, tree, repoLock, landed>>
  BY DEF DropRef, locks, Rest
<1>1. Knows(p)'
  <2>1. proc'[p].pc = "ref_gone"
    BY <1>m, Went DEF DropRef
  <2> QED BY <2>1, <1>m, <1>u, RefNext DEF LockedPcs
<1>2. Harmless(p)
  <2>1. \A t \in Tokens : t # Token(p) => refClaim'[t] = refClaim[t]
    BY <1>m DEF Continue, OnlyMine
  <2> QED BY <2>1, <1>m, <1>u DEF Harmless
<1> QED BY <1>m, <1>u, <1>1, <1>2, WorkGood DEF Rewrites

LEMMA JournalRefGoneGood ==
  ASSUME IInv, KInv, NEW p \in Procs, JournalRefGone(p)
  PROVE  Good(p)
<1>m. /\ proc[p].pc = "ref_gone" /\ "ref_gone" \in RepoPcs /\ Continue(p)
      /\ proc \in [Procs -> ProcStates] /\ refLock[Mine(p).branch] = Token(p)
  BY JournalRefGoneMoves, AtWork
  DEF JournalRefGone, RepoPcs, AbortPcs, IInv, TypeOK, RefKnown, LockedPcs
<1>u. UNCHANGED <<ref, refLock, refClaim, tree, repoLock, landed>>
  BY DEF JournalRefGone, locks, Rest
<1>r. Rewrites(p)
  BY DEF JournalRefGone, Rewrites, CREATION_PHASES, RollbackPhases, AfterTree
<1>1. Knows(p)'
  <2>1. proc'[p].pc = "ref_release"
    BY <1>m, Went DEF JournalRefGone
  <2> QED BY <2>1, <1>m, <1>u, RefNext DEF LockedPcs
<1>2. Harmless(p)
  BY <1>u, Untouched
<1> QED BY <1>m, <1>u, <1>r, <1>1, <1>2, WorkGood

LEMMA UnlockRefGood ==
  ASSUME IInv, KInv, NEW p \in Procs, UnlockRef(p)
  PROVE  Good(p)
<1>m. /\ proc[p].pc = "ref_release" /\ "ref_release" \in RepoPcs /\ Continue(p)
      /\ proc \in [Procs -> ProcStates]
  BY UnlockRefMoves DEF UnlockRef, RepoPcs, AbortPcs, IInv, TypeOK
<1>u. UNCHANGED <<receipt, ref, refClaim, tree, repoLock, landed>>
  BY DEF UnlockRef, locks, Rest
<1>1. Knows(p)'
  <2>1. proc'[p].pc = "settle"
    BY <1>m, Went DEF UnlockRef
  <2> QED BY <2>1, KnowsNothing DEF KnowPcs, LockedPcs
<1>2. Harmless(p)
  BY <1>u, Untouched
<1> QED BY <1>m, <1>u, <1>1, <1>2, WorkGood DEF Rewrites

-----------------------------------------------------------------------------
(* The steps that take the repository lock, leave, or stay away.           *)

LEMMA OneReceipt ==
  ASSUME IInv, NEW l \in Lifecycles, NEW r,
         receipt' = receipt \/ receipt' = [receipt EXCEPT ![l] = r],
         r.approved \in {receipt[l].approved, NoSha} \cup landed
  PROVE  KeepsApproved
  BY DEF KeepsApproved, IInv, TypeOK

LEMMA SameReceipts ==
  ASSUME receipt' = receipt
  PROVE  KeepsApproved
  BY DEF KeepsApproved

LEMMA WritesPhase ==
  ASSUME IInv, NEW p \in Procs, proc[p].life \in Lifecycles, NEW f, Write(p, f)
  PROVE  KeepsApproved
<1> DEFINE r == [receipt[proc[p].life] EXCEPT !.phase = f]
<1>1. receipt' = [receipt EXCEPT ![proc[p].life] = r]
  BY DEF Write, IInv, TypeOK
<1>2. r.approved = receipt[proc[p].life].approved
  BY DEF IInv, TypeOK, Receipts
<1> QED BY <1>1, <1>2, OneReceipt

LEMMA LeaveGood ==
  ASSUME IInv, KInv, NEW p \in Procs, Leave(p),
         proc[p].pc \notin RepoPcs => UNCHANGED <<ref, refLock, tree>>,
         landed' = landed, KeepsApproved, Harmless(p)
  PROVE  Good(p)
  BY LeavesApart DEF Good

LEMMA TakeGood ==
  ASSUME IInv, NEW p \in Procs, Continue(p), TakeRepo(p),
         landed' = landed, KeepsApproved, Knows(p)', Harmless(p)
  PROVE  Good(p)
  BY DEF Good, Apart, TakeRepo, Continue, OnlyMine, IInv, TypeOK

LEMMA AwayGood ==
  ASSUME IInv, NEW p \in Procs, proc' = [proc EXCEPT ![p] = proc'[p]],
         proc'[p].pc \notin RepoPcs, KeepsApproved,
         UNCHANGED <<ref, refLock, refClaim, tree, repoLock, landed>>
  PROVE  Good(p)
<1>1. proc'[p].pc \notin KnowPcs
  BY DEF KnowPcs, LockedPcs, RepoPcs, AbortPcs
<1>2. Apart(p)
  BY DEF Apart, IInv, TypeOK
<1> QED BY <1>1, <1>2, KnowsNothing, Untouched DEF Good

LEMMA SettleGood ==
  ASSUME IInv, KInv, NEW p \in Procs, Settle(p)
  PROVE  Good(p)
<1> DEFINE l == proc[p].life
<1>m. Leave(p) /\ "settle" \in RepoPcs /\ proc[p].pc = "settle"
  BY SettleMoves DEF Settle, RepoPcs, AbortPcs
<1>u. UNCHANGED <<ref, refLock, refClaim, tree, landed>>
  BY DEF Settle, Rest
<1>1. KeepsApproved
  <2>1. l \in Lifecycles /\ receipt \in [Lifecycles -> Receipts]
    BY <1>m, AtWork, Mined
  <2>2. PICK r \in {NoReceipt} \cup {[receipt[l] EXCEPT !.phase = f] :
                                     f \in RollbackPhases \cup {"bootstrap_failed"}} :
          receipt' = [receipt EXCEPT ![l] = r]
    BY <2>1 DEF Settle
  <2>3. r.approved \in {receipt[l].approved, NoSha}
    BY <2>1, <2>2 DEF NoReceipt, Receipts
  <2> QED BY <2>1, <2>2, <2>3, OneReceipt
<1> QED BY <1>m, <1>u, <1>1, Untouched, LeaveGood

LEMMA CrashGood ==
  ASSUME IInv, KInv, NEW p \in Procs, Crash(p)
  PROVE  Good(p)
<1>u. UNCHANGED <<receipt, ref, refLock, refClaim, tree, landed>>
  BY DEF Crash, disk
<1> QED BY <1>u, CrashMoves, SameReceipts, Untouched, LeaveGood

LEMMA RecoverLockGood ==
  ASSUME IInv, KInv, NEW p \in Procs, RecoverLock(p)
  PROVE  Good(p)
<1>m. Continue(p) /\ proc \in [Procs -> ProcStates]
  BY RecoverLockMoves DEF IInv, TypeOK
<1>u. UNCHANGED <<receipt, ref, refLock, refClaim, tree, landed>>
  BY DEF RecoverLock, disk, Rest
<1>1. Knows(p)'
  <2>1. proc'[p].pc = "claim"
    BY <1>m, Went DEF RecoverLock
  <2> QED BY <2>1, KnowsNothing DEF KnowPcs, LockedPcs
<1> QED BY <1>m, <1>u, <1>1, SameReceipts, Untouched, TakeGood DEF RecoverLock

LEMMA StartsGood ==
  ASSUME IInv, KInv, NEW p \in Procs, NEW l \in Lifecycles,
         CreateStart(p, l) \/ RecoverStart(p, l) \/ FinishStart(p, l)
  PROVE  Good(p)
<1>u. UNCHANGED <<receipt, ref, refLock, refClaim, tree, repoLock, landed>>
  BY DEF CreateStart, RecoverStart, FinishStart, disk, locks, Rest
<1>1. \/ proc' = [proc EXCEPT ![p] = [@ EXCEPT !.pc = "c_lock", !.life = l]]
      \/ proc' = [proc EXCEPT ![p] =
                    [@ EXCEPT !.pc = "r_lock", !.life = l, !.recovery = TRUE]]
      \/ proc' = [proc EXCEPT ![p] =
                    [@ EXCEPT !.pc = "f_lock", !.life = l, !.seen = receipt[l]]]
  BY DEF CreateStart, RecoverStart, FinishStart, IInv, TypeOK
<1>2. /\ proc' = [proc EXCEPT ![p] = proc'[p]]
      /\ proc'[p].pc \in {"c_lock", "r_lock", "f_lock"}
  <2> DEFINE starts == { [proc[p] EXCEPT !.pc = "c_lock", !.life = l],
                         [proc[p] EXCEPT !.pc = "r_lock", !.life = l, !.recovery = TRUE],
                         [proc[p] EXCEPT !.pc = "f_lock", !.life = l,
                                         !.seen = receipt[l]] }
  <2>1. \E x \in starts : proc' = [proc EXCEPT ![p] = x]
    BY <1>1
  <2>2. \A x \in starts : x.pc \in {"c_lock", "r_lock", "f_lock"}
    BY DEF IInv, TypeOK, ProcStates
  <2> QED BY <2>1, <2>2 DEF IInv, TypeOK
<1>3. proc'[p].pc \notin RepoPcs
  BY <1>2 DEF RepoPcs, AbortPcs
<1> QED BY <1>u, <1>2, <1>3, SameReceipts, AwayGood

-----------------------------------------------------------------------------
(* The steps of create.                                                    *)

LEMMA CreateReceiptGood ==
  ASSUME IInv, KInv, NEW p \in Procs, NEW b \in Branches, CreateReceipt(p, b)
  PROVE  Good(p)
<1> DEFINE l == proc[p].life
<1>t. /\ proc \in [Procs -> ProcStates] /\ l \in Lifecycles
      /\ receipt \in [Lifecycles -> Receipts]
  BY Kinds DEF CreateReceipt, IInv, TypeOK, Control, LockDiscipline
<1>u. /\ UNCHANGED <<ref, refLock, refClaim, tree, landed>>
      /\ repoLock = NoProc /\ repoLock' = p
  BY DEF CreateReceipt, TakeRepo
<1>1. proc'[p].pc = "c_prepare" /\ \A q \in Procs : q # p => proc'[q] = proc[q]
  BY <1>t, Went DEF CreateReceipt, Goto
<1>2. Knows(p)'
  BY <1>1, KnowsNothing DEF KnowPcs, LockedPcs
<1>3. KeepsApproved
  <2> DEFINE r == [NoReceipt EXCEPT !.phase = "allocating", !.branch = b,
                                    !.token = attempts + 1]
  <2>1. r.approved = NoSha
    BY DEF NoReceipt
  <2>2. receipt' = [receipt EXCEPT ![l] = r]
    BY DEF CreateReceipt
  <2> QED BY <2>1, <2>2, <1>t, OneReceipt
<1>4. Apart(p)
  BY <1>u, <1>1, <1>3 DEF Apart
<1> QED BY <1>u, <1>2, <1>4, Untouched DEF Good

LEMMA CreateRefusedGood ==
  ASSUME IInv, KInv, NEW p \in Procs, CreateRefused(p)
  PROVE  Good(p)
<1>u. UNCHANGED <<receipt, ref, refLock, refClaim, tree, landed>>
  BY DEF CreateRefused, disk, Rest
<1> QED BY <1>u, CreateRefusedMoves, SameReceipts, Untouched, LeaveGood

LEMMA PrepareRefGood ==
  ASSUME IInv, KInv, NEW p \in Procs, PrepareRef(p)
  PROVE  Good(p)
<1> DEFINE b == Mine(p).branch
<1>m. /\ proc[p].pc = "c_prepare" /\ "c_prepare" \in RepoPcs /\ Continue(p)
      /\ proc \in [Procs -> ProcStates]
  BY PrepareRefMoves DEF PrepareRef, RepoPcs, IInv, TypeOK
<1>u. UNCHANGED <<ref, refLock, refClaim, tree, repoLock, landed>>
  BY DEF PrepareRef, locks, Rest
<1>r. Rewrites(p)
  BY DEF PrepareRef, Rewrites
<1>1. Knows(p)'
  <2>1. proc'[p].pc = "claim" \/ (proc'[p].pc = "c_commit" /\ ~Exists(b))
    BY <1>m, Went DEF PrepareRef
  <2> QED BY <2>1, <1>m, <1>u, RefNext, KnowsNothing DEF KnowPcs, LockedPcs, Exists
<1> QED BY <1>m, <1>u, <1>r, <1>1, Untouched, WorkGood

LEMMA CommitRefGood ==
  ASSUME IInv, KInv, NEW p \in Procs, CommitRef(p)
  PROVE  Good(p)
<1> DEFINE b == Mine(p).branch
<1>m. /\ proc[p].pc = "c_commit" /\ "c_commit" \in RepoPcs /\ Continue(p)
      /\ proc \in [Procs -> ProcStates] /\ ref[b].sha = NoSha
  BY CommitRefMoves, AtWork DEF CommitRef, RepoPcs, IInv, TypeOK, RefKnown, Exists
<1>u. UNCHANGED <<receipt, refLock, refClaim, tree, repoLock, landed>>
  BY DEF CommitRef, locks, Rest
<1>1. Knows(p)'
  <2>1. proc'[p].pc = "c_journal"
    BY <1>m, Went DEF CommitRef
  <2> QED BY <2>1, KnowsNothing DEF KnowPcs, LockedPcs
<1>2. Harmless(p)
  <2>1. \A c \in Branches : c # b => ref'[c] = ref[c]
    BY <1>m, BranchTyped DEF CommitRef
  <2> QED BY <2>1, <1>m, <1>u DEF Harmless
<1> QED BY <1>m, <1>u, <1>1, <1>2, WorkGood DEF Rewrites

LEMMA JournalCommitGood ==
  ASSUME IInv, KInv, NEW p \in Procs, JournalCommit(p)
  PROVE  Good(p)
<1>m. /\ proc[p].pc = "c_journal" /\ "c_journal" \in RepoPcs /\ Continue(p)
      /\ proc \in [Procs -> ProcStates]
  BY JournalCommitMoves DEF JournalCommit, RepoPcs, IInv, TypeOK
<1>u. UNCHANGED <<ref, refLock, refClaim, tree, repoLock, landed>>
  BY DEF JournalCommit, locks, Rest
<1>r. Rewrites(p)
  BY DEF JournalCommit, Rewrites
<1>1. Knows(p)'
  <2>1. proc'[p].pc \in {"claim", "c_add"}
    BY <1>m, Went DEF JournalCommit
  <2> QED BY <2>1, KnowsNothing DEF KnowPcs, LockedPcs
<1> QED BY <1>m, <1>u, <1>r, <1>1, Untouched, WorkGood

LEMMA AddWorktreeGood ==
  ASSUME IInv, KInv, NEW p \in Procs, AddWorktree(p)
  PROVE  Good(p)
<1>m. /\ proc[p].pc = "c_add" /\ "c_add" \in RepoPcs /\ Continue(p)
      /\ proc \in [Procs -> ProcStates] /\ tree \in [Ids -> Trees]
  BY AddWorktreeMoves DEF AddWorktree, RepoPcs, IInv, TypeOK
<1>u. UNCHANGED <<receipt, ref, refLock, refClaim, repoLock, landed>>
  BY DEF AddWorktree, locks, Rest
<1>1. Knows(p)'
  <2>1. proc'[p].pc \in {"claim", "c_bind"}
    BY <1>m, Went DEF AddWorktree
  <2> QED BY <2>1, KnowsNothing DEF KnowPcs, LockedPcs
<1>2. Harmless(p)
  <2>1. ASSUME NEW u \in Ids, tree[u].admin = "registered"
        PROVE  tree'[u].admin = "registered"
    <3>1. \/ tree'[u] = tree[u]
          \/ tree'[u] = [NoTree EXCEPT !.place = "target", !.life = proc[p].life,
                                       !.admin = "registered", !.head = Mine(p).branch]
      BY <1>m DEF AddWorktree
    <3> QED BY <3>1, <2>1 DEF NoTree
  <2> QED BY <2>1, <1>u DEF Harmless
<1> QED BY <1>m, <1>u, <1>1, <1>2, WorkGood DEF Rewrites

LEMMA BindTokenGood ==
  ASSUME IInv, KInv, NEW p \in Procs, BindToken(p)
  PROVE  Good(p)
<1>m. /\ proc[p].pc = "c_bind" /\ "c_bind" \in RepoPcs /\ Continue(p)
      /\ proc \in [Procs -> ProcStates] /\ tree \in [Ids -> Trees]
  BY BindTokenMoves DEF BindToken, RepoPcs, IInv, TypeOK
<1>u. UNCHANGED <<receipt, ref, refLock, refClaim, repoLock, landed>>
  BY DEF BindToken, locks, Rest
<1>1. Knows(p)'
  <2>1. proc'[p].pc \in {"claim", "c_verify"}
    BY <1>m, Went DEF BindToken, Identify
  <2> QED BY <2>1, KnowsNothing DEF KnowPcs, LockedPcs
<1>2. Harmless(p)
  <2>1. ASSUME NEW u \in Ids PROVE tree'[u].admin = tree[u].admin
    <3>1. tree'[u] = tree[u] \/ tree'[u] = [tree[u] EXCEPT !.bound = TRUE]
      BY <1>m DEF BindToken
    <3> QED BY <3>1, <1>m DEF Trees
  <2> QED BY <2>1, <1>u DEF Harmless
<1> QED BY <1>m, <1>u, <1>1, <1>2, WorkGood DEF Rewrites

LEMMA VerifyWorktreeGood ==
  ASSUME IInv, KInv, NEW p \in Procs, VerifyWorktree(p)
  PROVE  Good(p)
<1>m. /\ proc[p].pc = "c_verify" /\ "c_verify" \in RepoPcs
      /\ proc \in [Procs -> ProcStates] /\ proc[p].life \in Lifecycles
      /\ Continue(p) \/ Leave(p)
  BY VerifyWorktreeMoves, BranchTyped DEF VerifyWorktree, RepoPcs
<1>u. UNCHANGED <<ref, refLock, refClaim, tree, landed>>
  BY DEF VerifyWorktree, Rest
<1>a. KeepsApproved
  BY <1>m, SameReceipts, WritesPhase DEF VerifyWorktree
<1>1. CASE Leave(p)
  BY <1>1, <1>u, <1>a, Untouched, LeaveGood
<1>2. CASE Continue(p)
  <2>1. "c_boot" \notin RepoPcs \cup KnowPcs /\ "claim" \notin KnowPcs
        /\ "idle" \notin RepoPcs \cup KnowPcs
    BY DEF RepoPcs, AbortPcs, KnowPcs, LockedPcs
  <2>2. proc'[p].pc \in {"c_boot", "idle"} \/ (proc'[p].pc = "claim" /\ repoLock' = repoLock)
    BY <1>m, Went DEF VerifyWorktree, Exit, Idle, locks
  <2>3. Apart(p)
    BY <1>2, <1>m, <1>u, <1>a, <2>1, <2>2, ContinuesApart
  <2> QED BY <2>1, <2>2, <2>3, <1>u, KnowsNothing, Untouched DEF Good
<1> QED BY <1>m, <1>1, <1>2

LEMMA BootstrapGood ==
  ASSUME IInv, KInv, NEW p \in Procs, Bootstrap(p)
  PROVE  Good(p)
<1>m. Continue(p) /\ proc \in [Procs -> ProcStates]
  BY BootstrapMoves DEF IInv, TypeOK
<1>u. UNCHANGED <<receipt, ref, refLock, refClaim, tree, repoLock, landed>>
  BY DEF Bootstrap, disk, locks, Rest
<1>1. proc'[p].pc \notin RepoPcs
  <2>1. proc'[p].pc \in {"c_final", "c_undo"}
    BY <1>m, Went DEF Bootstrap
  <2> QED BY <2>1 DEF RepoPcs, AbortPcs
<1> QED BY <1>m, <1>u, <1>1, SameReceipts, AwayGood DEF Continue, OnlyMine

LEMMA FinalVerifyGood ==
  ASSUME IInv, KInv, NEW p \in Procs, FinalVerify(p)
  PROVE  Good(p)
<1>m. /\ proc[p].pc = "c_final" /\ "c_final" \in Making
      /\ proc \in [Procs -> ProcStates] /\ proc[p].life \in Lifecycles
      /\ Continue(p) \/ Leave(p)
  BY FinalVerifyMoves, Kinds
  DEF FinalVerify, Making, CreatePcs, IInv, TypeOK, Control, LockDiscipline
<1>u. UNCHANGED <<ref, refLock, refClaim, tree, landed>>
  BY DEF FinalVerify, Rest
<1>a. KeepsApproved
  BY <1>m, SameReceipts, WritesPhase DEF FinalVerify
<1>1. CASE Leave(p)
  BY <1>1, <1>u, <1>a, Untouched, LeaveGood
<1>2. CASE Continue(p)
  <2>1. Goto(p, "claim") /\ TakeRepo(p)
    BY <1>2, <1>m, Kinds DEF FinalVerify, Exit, Idle, Continue
  <2>2. Knows(p)'
    <3>1. proc'[p].pc = "claim"
      BY <1>m, <2>1, Went
    <3> QED BY <3>1, KnowsNothing DEF KnowPcs, LockedPcs
  <2> QED BY <1>2, <1>u, <1>a, <2>1, <2>2, Untouched, TakeGood
<1> QED BY <1>m, <1>1, <1>2

LEMMA UndoBootstrapGood ==
  ASSUME IInv, KInv, NEW p \in Procs, UndoBootstrap(p)
  PROVE  Good(p)
<1>m. Continue(p) /\ proc \in [Procs -> ProcStates]
  BY UndoBootstrapMoves DEF IInv, TypeOK
<1>u. UNCHANGED <<receipt, ref, refLock, refClaim, tree, landed>>
  BY DEF UndoBootstrap, disk, Rest
<1>1. Knows(p)'
  <2>1. proc'[p].pc = "claim"
    BY <1>m, Went DEF UndoBootstrap
  <2> QED BY <2>1, KnowsNothing DEF KnowPcs, LockedPcs
<1> QED BY <1>m, <1>u, <1>1, SameReceipts, Untouched, TakeGood DEF UndoBootstrap

-----------------------------------------------------------------------------
(* The steps of finish.                                                    *)

LEMMA FinishLockGood ==
  ASSUME IInv, KInv, NEW p \in Procs, FinishLock(p)
  PROVE  Good(p)
<1> DEFINE l == proc[p].life
<1>m. /\ proc[p].pc = "f_lock" /\ l \in Lifecycles
      /\ proc \in [Procs -> ProcStates]
      /\ Enter(p) \/ Leave(p)
  BY FinishLockMoves DEF FinishLock, IInv, TypeOK, Control, LockDiscipline
<1>u. UNCHANGED <<ref, refLock, refClaim, tree, landed>>
  BY DEF FinishLock, Rest
<1>c. Exit(p) \/ repoLock' = repoLock
  BY DEF FinishLock
<1>a. KeepsApproved
  BY <1>m, SameReceipts, WritesPhase DEF FinishLock
<1>1. CASE Leave(p)
  BY <1>1, <1>u, <1>a, Untouched, LeaveGood
<1>2. CASE Enter(p) /\ repoLock' = repoLock
  <2>1. proc'[p].pc \notin RepoPcs
    <3>1. \/ proc' = [proc EXCEPT ![p] = Idle]
          \/ proc' = [proc EXCEPT ![p].pc = "f_again", ![p].seen = NoReceipt]
          \/ proc' = [proc EXCEPT ![p].pc = "f_decide", ![p].seen = NoReceipt]
      BY DEF FinishLock, Exit
    <3>2. proc'[p].pc \in {"idle", "f_again", "f_decide"}
      BY <3>1, <1>m DEF ProcStates, Idle
    <3> QED BY <3>2 DEF RepoPcs, AbortPcs
  <2> QED BY <1>2, <2>1, <1>u, <1>a, AwayGood DEF Enter
<1>3. CASE Enter(p) /\ Exit(p)
  BY <1>3, <1>m, Kinds DEF Enter, Exit, Idle
<1> QED BY <1>m, <1>c, <1>1, <1>2, <1>3

LEMMA PendingGood ==
  ASSUME IInv, KInv, NEW p \in Procs, proc[p].pc \in Finishing, Pending(p),
         UNCHANGED <<ref, refLock, refClaim, tree, landed, attempts>>
  PROVE  Good(p)
<1> DEFINE l == proc[p].life
           r == [receipt[l] EXCEPT !.phase = "requested", !.approved = NoSha]
<1>1. l \in Lifecycles /\ receipt \in [Lifecycles -> Receipts]
  BY Mined
<1>2. receipt' = [receipt EXCEPT ![l] = r] /\ r.approved = NoSha
  BY <1>1 DEF Pending, Receipts
<1>3. KeepsApproved
  BY <1>1, <1>2, OneReceipt
<1>4. Leave(p)
  BY FinishingLeaves DEF Pending
<1> QED BY <1>3, <1>4, Untouched, LeaveGood

LEMMA FinishDecideGood ==
  ASSUME IInv, KInv, NEW p \in Procs, FinishDecide(p)
  PROVE  Good(p)
<1> DEFINE l == proc[p].life
           sha == ref[Mine(p).branch].sha
           r == [receipt[l] EXCEPT !.phase = "approved", !.approved = sha]
<1>m. /\ proc[p].pc = "f_decide" /\ "f_decide" \in Finishing
      /\ Continue(p) \/ Leave(p)
  BY FinishDecideMoves DEF FinishDecide, Finishing, FinishPcs
<1>t. /\ l \in Lifecycles /\ receipt \in [Lifecycles -> Receipts]
      /\ proc \in [Procs -> ProcStates]
  BY <1>m, Mined
<1>u. UNCHANGED <<ref, refLock, refClaim, tree, landed, attempts>>
  BY DEF FinishDecide, Rest
<1>1. CASE Pending(p)
  BY <1>1, <1>m, <1>u, PendingGood
<1>2. CASE ~Pending(p)
  <2>1. /\ sha \in landed /\ Goto(p, "f_recheck") /\ TakeRepo(p)
        /\ receipt' = [receipt EXCEPT ![l] = r]
    BY <1>2, <1>t DEF FinishDecide
  <2>2. r.approved = sha /\ r.phase = "approved"
    BY <1>t DEF Receipts
  <2>3. KeepsApproved
    BY <2>1, <2>2, <1>t, OneReceipt
  <2>4. proc'[p].pc = "f_recheck"
    BY <2>1, <1>t, Went
  <2>5. Continue(p)
    BY <2>4, <1>m, <1>t DEF Leave, Exit, Idle
  <2>6. Knows(p)'
    <3>1. Mine(p)' = r
      BY <2>1, <2>5, <1>t, Onward
    <3> QED BY <3>1, <2>2, <2>4 DEF Knows, RefKnown, PhaseKnown, LockedPcs
  <2> QED BY <2>1, <2>3, <2>5, <2>6, <1>u, Untouched, TakeGood
<1> QED BY <1>1, <1>2

LEMMA FinishRecheckGood ==
  ASSUME IInv, KInv, NEW p \in Procs, FinishRecheck(p)
  PROVE  Good(p)
<1>m. /\ proc[p].pc = "f_recheck" /\ "f_recheck" \in Finishing
      /\ "f_recheck" \in RepoPcs /\ proc \in [Procs -> ProcStates]
      /\ Continue(p) \/ Leave(p)
  BY FinishRecheckMoves, AtWork
  DEF FinishRecheck, Finishing, FinishPcs, RepoPcs, PhaseKnown, IInv, TypeOK
<1>u. UNCHANGED <<ref, refLock, refClaim, tree, landed, attempts>>
  BY DEF FinishRecheck, Rest
<1>1. CASE Pending(p)
  BY <1>1, <1>m, <1>u, PendingGood
<1>2. CASE Goto(p, "f_remove") /\ UNCHANGED <<receipt, locks>>
  <2>1. proc'[p].pc = "f_remove"
    BY <1>2, <1>m, Went
  <2>2. Continue(p)
    BY <2>1, <1>m DEF Leave, Exit, Idle
  <2>3. Mine(p)' = Mine(p) /\ Mine(p).phase = "approved"
    BY <1>2, <1>m, <2>2, Onward, AtWork DEF Mine, PhaseKnown
  <2>4. Knows(p)'
    BY <2>1, <2>3 DEF Knows, RefKnown, PhaseKnown, LockedPcs
  <2> QED BY <1>2, <1>m, <1>u, <2>2, <2>4, Untouched, WorkGood DEF Rewrites, locks
<1> QED BY <1>1, <1>2 DEF FinishRecheck

LEMMA GitRemoveGood ==
  ASSUME IInv, KInv, NEW p \in Procs, GitRemove(p)
  PROVE  Good(p)
<1>m. /\ proc[p].pc = "f_remove" /\ "f_remove" \in RepoPcs
      /\ proc \in [Procs -> ProcStates] /\ proc[p].life \in Lifecycles
      /\ Continue(p) \/ Leave(p)
  BY GitRemoveMoves, BranchTyped DEF GitRemove, RepoPcs
<1>p. Mine(p).phase = "approved"
  BY <1>m, AtWork DEF PhaseKnown
<1>u. UNCHANGED <<receipt, ref, refLock, refClaim, landed>>
  BY DEF GitRemove, Rest
<1>1. CASE Exit(p) /\ UNCHANGED tree
  <2>1. Leave(p)
    BY <1>1, <1>m, Kinds DEF Continue, Exit, Idle
  <2> QED BY <1>1, <2>1, <1>m, <1>u, SameReceipts, Untouched, LeaveGood
<1>2. CASE Goto(p, "f_resume") /\ UNCHANGED locks
  <2>1. proc'[p].pc = "f_resume"
    BY <1>2, <1>m, Went
  <2>2. Continue(p)
    BY <2>1, <1>m DEF Leave, Exit, Idle
  <2>3. Knows(p)'
    BY <2>1, KnowsNothing DEF KnowPcs, LockedPcs
  <2>4. Harmless(p)
    <3>1. \A u \in Ids : tree'[u] = tree[u] \/ u \in At(proc[p].life)
      BY DEF GitRemove
    <3>2. \A u \in At(proc[p].life) : Removes(proc[p].life, u)
      BY <1>p DEF Removes, Mine
    <3> QED BY <3>1, <3>2, <1>m, <1>u DEF Harmless
  <2> QED BY <1>2, <1>m, <1>u, <2>2, <2>3, <2>4, WorkGood DEF Rewrites, locks
<1> QED BY <1>1, <1>2 DEF GitRemove

LEMMA FinishAgainGood ==
  ASSUME IInv, KInv, NEW p \in Procs, FinishAgain(p)
  PROVE  Good(p)
<1>m. Continue(p) /\ proc \in [Procs -> ProcStates]
  BY FinishAgainMoves DEF IInv, TypeOK
<1>u. UNCHANGED <<receipt, ref, refLock, refClaim, tree, landed>>
  BY DEF FinishAgain, disk, Rest
<1>1. Knows(p)'
  <2>1. proc'[p].pc = "f_resume"
    BY <1>m, Went DEF FinishAgain
  <2> QED BY <2>1, KnowsNothing DEF KnowPcs, LockedPcs
<1> QED BY <1>m, <1>u, <1>1, SameReceipts, Untouched, TakeGood DEF FinishAgain

\* A step of finish that leaves, or journals what it has done and goes on.
LEMMA JournalGood ==
  ASSUME IInv, KInv, NEW p \in Procs, proc[p].pc \in RepoPcs,
         Continue(p) \/ Leave(p), NEW c \in {"f_ref", "f_deleted", "f_forget"},
         \/ Exit(p) /\ receipt' = receipt
         \/ /\ receipt' = receipt \/ \E f \in FinishPhases : Write(p, f)
            /\ Goto(p, c) /\ UNCHANGED locks,
         landed' = landed, Harmless(p)
  PROVE  Good(p)
<1>t. proc \in [Procs -> ProcStates] /\ proc[p].life \in Lifecycles
  BY BranchTyped
<1>1. CASE Exit(p) /\ receipt' = receipt
  <2>1. Leave(p)
    BY <1>1, <1>t, Kinds DEF Continue, Exit, Idle
  <2> QED BY <2>1, <1>1, SameReceipts, LeaveGood
<1>2. CASE /\ receipt' = receipt \/ \E f \in FinishPhases : Write(p, f)
           /\ Goto(p, c) /\ UNCHANGED locks
  <2>1. proc'[p].pc = c
    BY <1>2, <1>t, Went
  <2>2. Continue(p)
    BY <2>1, <1>t DEF Leave, Exit, Idle
  <2>3. Knows(p)'
    BY <2>1, KnowsNothing DEF KnowPcs, LockedPcs
  <2> QED BY <1>2, <2>2, <2>3, WorkGood DEF Rewrites, locks
<1> QED BY <1>1, <1>2

LEMMA FinishResumeGood ==
  ASSUME IInv, KInv, NEW p \in Procs, FinishResume(p)
  PROVE  Good(p)
<1>u. UNCHANGED <<ref, refClaim, tree, landed>>
  BY DEF FinishResume, Rest
<1>m. /\ proc[p].pc = "f_resume" /\ "f_resume" \in RepoPcs
      /\ "worktree_removed" \in FinishPhases
  BY DEF FinishResume, RepoPcs, FinishPhases
<1> QED BY <1>m, <1>u, FinishResumeMoves, Untouched, JournalGood DEF FinishResume

\* The branch is deleted at the commit that was approved, hence has landed.
LEMMA FinishRefGood ==
  ASSUME IInv, KInv, NEW p \in Procs, FinishRef(p)
  PROVE  Good(p)
<1> DEFINE b == Mine(p).branch
<1>u. UNCHANGED <<receipt, refClaim, tree, landed>>
  BY DEF FinishRef, Rest
<1>m. proc[p].pc = "f_ref" /\ "f_ref" \in RepoPcs
  BY DEF FinishRef, RepoPcs
<1>1. Mine(p).approved \in landed \cup {NoSha}
  BY <1>m, BranchTyped DEF KInv, Approved, Mine
<1>2. Harmless(p)
  <2>1. \A c \in Branches : c # b => ref'[c] = ref[c]
    BY <1>m, BranchTyped DEF FinishRef
  <2>2. ref[b].sha # ref'[b].sha => ref[b].sha \in {Source, NoSha} \cup landed
    BY <1>1 DEF FinishRef, Exists
  <2> QED BY <2>1, <2>2, <1>u DEF Harmless
<1> QED BY <1>m, <1>u, <1>2, FinishRefMoves, JournalGood DEF FinishRef

LEMMA FinishJournalGood ==
  ASSUME IInv, KInv, NEW p \in Procs, FinishJournal(p)
  PROVE  Good(p)
<1>u. UNCHANGED <<ref, refClaim, tree, landed>>
  BY DEF FinishJournal, Rest
<1>m. /\ proc[p].pc = "f_deleted" /\ "f_deleted" \in RepoPcs
      /\ "ref_deleted" \in FinishPhases
  BY DEF FinishJournal, RepoPcs, FinishPhases
<1> QED BY <1>m, <1>u, FinishJournalMoves, Untouched, JournalGood DEF FinishJournal

LEMMA FinishForgetGood ==
  ASSUME IInv, KInv, NEW p \in Procs, FinishForget(p)
  PROVE  Good(p)
<1>m. proc[p].pc = "f_forget" /\ "f_forget" \in RepoPcs
  BY DEF FinishForget, RepoPcs
<1>u. UNCHANGED <<ref, refLock, refClaim, tree, landed>>
  BY DEF FinishForget, Rest
<1>1. KeepsApproved
  <2>1. receipt' = receipt \/ receipt' = [receipt EXCEPT ![proc[p].life] = NoReceipt]
    BY DEF FinishForget, Forget
  <2>2. NoReceipt.approved = NoSha
    BY DEF NoReceipt
  <2> QED BY <2>1, <2>2, <1>m, BranchTyped, OneReceipt
<1> QED BY <1>u, <1>1, FinishForgetMoves, Untouched, LeaveGood

-----------------------------------------------------------------------------
(* Every step keeps the repository in order.                               *)

\* People change a ref only when neither lock file of git's is there, and check
\* out only branches that exist.
LEMMA OutsideRespects ==
  ASSUME IInv, Meddling
  PROVE  /\ \A b \in Branches : ref'[b] # ref[b] => Unlocked(b)
         /\ \A b \in Branches, u \in Ids :
              tree'[u].admin = "registered" /\ tree'[u].head = b
                => Exists(b) \/ (tree[u].admin = "registered" /\ tree[u].head = b)
         /\ UNCHANGED <<refLock, refClaim, repoLock>> /\ landed \subseteq landed'
         /\ meddles' = meddles => UNCHANGED <<ref, tree>>
<1>t. /\ ref \in [Branches -> Refs] /\ tree \in [Ids -> Trees]
      /\ meddles \in Nat
  BY BoundsAssumption DEF IInv, TypeOK
<1>1. CASE \E b \in Branches : Land(b)
  BY <1>1 DEF Land, disk, locks
<1>2. CASE \E kind \in OutsideKinds : Meddle(kind)
  <2>1. UNCHANGED <<refLock, refClaim, repoLock, landed>> /\ meddles' # meddles
    BY <1>2, <1>t DEF Meddle, locks
  <2>2. \A b \in Branches : ref'[b] # ref[b] => Unlocked(b)
    <3>1. ASSUME NEW u \in Ids, UserCommit(u)
          PROVE  \A b \in Branches : ref'[b] # ref[b] => Unlocked(b)
      BY <3>1, <1>t DEF UserCommit, SetRef
    <3>2. ASSUME NEW b \in Branches, UserDeleteBranch(b) \/ UserCreateBranch(b)
          PROVE  \A c \in Branches : ref'[c] # ref[c] => Unlocked(c)
      BY <3>2, <1>t DEF UserDeleteBranch, UserCreateBranch, SetRef
    <3>3. ~ \E b \in Branches : Land(b)
      BY <2>1, <1>t DEF Land, bounds
    <3> QED BY <3>1, <3>2, <3>3
            DEF Meddling, UserDetach, UserEdit, UserRemoveTree, UserAddTree
  <2>3. ASSUME NEW b \in Branches, NEW u \in Ids,
               tree'[u].admin = "registered", tree'[u].head = b
        PROVE  Exists(b) \/ (tree[u].admin = "registered" /\ tree[u].head = b)
    <3>1. CASE tree' = tree
      BY <3>1, <2>3
    <3>2. ASSUME NEW v \in Ids, UserDetach(v)
          PROVE  tree[u].admin = "registered" /\ tree[u].head = b
      <4>1. tree'[u] = tree[u] \/ tree'[u] = [tree[u] EXCEPT !.head = NoBranch]
        BY <3>2, <1>t DEF UserDetach
      <4> QED BY <4>1, <2>3, <1>t, NamesAssumption DEF Trees
    <3>3. ASSUME NEW v \in Ids, UserEdit(v)
          PROVE  tree[u].admin = "registered" /\ tree[u].head = b
      <4>1. tree'[u] = tree[u] \/ tree'[u] = [tree[u] EXCEPT !.dirty = TRUE]
        BY <3>3, <1>t DEF UserEdit
      <4> QED BY <4>1, <2>3, <1>t DEF Trees
    <3>4. ASSUME NEW v \in Ids, UserRemoveTree(v)
          PROVE  tree[u].admin = "registered" /\ tree[u].head = b
      BY <3>4, <2>3, <1>t DEF UserRemoveTree, NoTree
    <3>5. ASSUME NEW c \in Branches, NEW l \in Lifecycles, UserAddTree(c, l)
          PROVE  Exists(b) \/ (tree[u].admin = "registered" /\ tree[u].head = b)
      <4>1. PICK place \in {"target", "elsewhere"} :
              tree' = [tree EXCEPT ![Foreign] =
                [NoTree EXCEPT !.place = place, !.admin = "registered", !.head = c,
                               !.life = IF place = "target" THEN l ELSE NoLife]]
        BY <3>5 DEF UserAddTree
      <4>2. tree'[u] = tree[u] \/ tree'[u].head = c
        BY <4>1, <1>t DEF NoTree
      <4> QED BY <4>2, <3>5, <2>3 DEF UserAddTree
    <3> QED BY <3>1, <3>2, <3>3, <3>4, <3>5
            DEF Meddling, UserCommit, SetRef, UserDeleteBranch, UserCreateBranch,
                Land, disk
  <2> QED BY <2>1, <2>2, <2>3
<1> QED BY <1>1, <1>2
        DEF Meddling, UserCommit, UserDetach, UserEdit, UserRemoveTree,
            UserAddTree, UserDeleteBranch, UserCreateBranch, OutsideKinds

LEMMA OutsideKInv ==
  ASSUME IInv, KInv, Meddling
  PROVE  KInv'
<1>q. UNCHANGED <<receipt, proc, lifeLock, refLock, refClaim, repoLock>>
  BY OutsideMoves, OutsideRespects DEF Quiet
<1>1. RepoDiscipline' /\ Approved' /\ Blank'
  BY <1>q, OutsideRespects DEF KInv, RepoDiscipline, Approved, Blank
<1>2. ASSUME NEW p \in Procs PROVE Knows(p)'
  <2> DEFINE b == Mine(p).branch
  <2>1. CASE proc[p].pc \notin LockedPcs \cup {"c_commit"}
    BY <2>1, <1>q DEF KInv, Knows, RefKnown, PhaseKnown, LockedPcs, Mine
  <2>2. CASE proc[p].pc \in LockedPcs \cup {"c_commit"}
    <3>1. /\ proc[p].pc \in RepoPcs /\ RefKnown(p)
          /\ proc[p].pc \notin {"detach_tree", "detach_admin", "dispose",
                                "f_recheck", "f_remove"}
      BY <2>2 DEF KInv, Knows, LockedPcs, RepoPcs, AbortPcs
    <3>2. b \in Branches /\ Token(p) # Free
      BY <3>1, BranchTyped DEF Tokens, Free
    <3>3. ~Unlocked(b)
      BY <3>1, <3>2, <2>2 DEF RefKnown, Unlocked, Prepared
    <3>4. ref'[b] = ref[b]
      BY <3>2, <3>3, OutsideRespects
    <3>5. ~Exists(b) /\ Owners(b) = {}
            => {u \in Ids : tree'[u].admin = "registered" /\ tree'[u].head = b} = {}
      BY <3>2, OutsideRespects DEF Owners
    <3>6. RefKnown(p)'
      BY <3>1, <3>4, <3>5, <1>q DEF RefKnown, Exists, Owners, Mine, Token
    <3>7. PhaseKnown(p)'
      BY <3>1, <1>q DEF PhaseKnown
    <3> QED BY <3>6, <3>7 DEF Knows
  <2> QED BY <2>1, <2>2
<1> QED BY <1>1, <1>2 DEF KInv

LEMMA ShapeBlank ==
  ASSUME IInv, Blank, Shape
  PROVE  Blank'
<1>t. receipt \in [Lifecycles -> Receipts] /\ NoReceipt.token = Foreign
  BY DEF IInv, TypeOK, NoReceipt
<1>1. ASSUME NEW p \in Procs, Continue(p) \/ Leave(p)
      PROVE  Blank'
  BY <1>1, <1>t, Kinds DEF Continue, Leave, OnlyMine, Blank
<1>2. ASSUME NEW p \in Procs, Enter(p)
      PROVE  Blank'
  BY <1>2, <1>t, Kinds DEF Enter, Blank, Receipts
<1>3. ASSUME NEW p \in Procs, Draws(p)
      PROVE  Blank'
  BY <1>3, <1>t DEF Draws, Blank
<1> QED BY <1>1, <1>2, <1>3 DEF Shape, Reads, Quiet, Blank

LEMMA StepKInv ==
  ASSUME IInv, KInv, Shape, NEW p \in Procs, Good(p)
  PROVE  KInv'
<1>a. Apart(p)
  BY DEF Good
<1>q. ASSUME NEW q \in Procs, q # p, proc[q].pc \in RepoPcs
      PROVE  /\ proc'[q] = proc[q] /\ repoLock = q
             /\ UNCHANGED <<ref, refLock, tree, repoLock>>
             /\ receipt'[proc[q].life] = receipt[proc[q].life]
  <2>1. proc'[q] = proc[q] /\ repoLock = q
    BY <1>q, <1>a, AtWork DEF Apart
  <2>2. UNCHANGED <<ref, refLock, tree, repoLock>>
    BY <1>q, <1>a, <2>1, NamesAssumption DEF Apart
  <2>3. proc[q].life \in Lifecycles /\ lifeLock[proc[q].life] = q
    BY <1>q, AtWork, Kinds DEF IInv, Control, LockDiscipline
  <2> QED BY <2>1, <2>2, <2>3, KeepsStep
<1>1. RepoDiscipline'
  BY <1>a, <1>q DEF RepoDiscipline, Apart
<1>2. ASSUME NEW q \in Procs PROVE Knows(q)'
  <2>1. CASE q = p
    BY <2>1 DEF Good
  <2>2. CASE q # p /\ proc[q].pc \in RepoPcs
    <3>1. Knows(q)
      BY DEF KInv
    <3> QED BY <3>1, <2>2, <1>q
            DEF Knows, RefKnown, PhaseKnown, Exists, Owners, Mine, Token
  <2>3. CASE q # p /\ proc[q].pc \notin RepoPcs
    <3>1. proc'[q].pc \notin KnowPcs
      BY <2>3, <1>a DEF Apart, KnowPcs, LockedPcs, RepoPcs, AbortPcs
    <3> QED BY <3>1, KnowsNothing
  <2> QED BY <2>1, <2>2, <2>3
<1>3. Approved'
  BY <1>a DEF Apart, KeepsApproved, KInv, Approved
<1>4. Blank'
  BY ShapeBlank DEF KInv
<1> QED BY <1>1, <1>2, <1>3, <1>4 DEF KInv

LEMMA CreateGood ==
  ASSUME IInv, KInv, NEW p \in Procs, Create(p)
  PROVE  Good(p)
  BY CreateReceiptGood, CreateRefusedGood, PrepareRefGood, CommitRefGood,
     JournalCommitGood, AddWorktreeGood, BindTokenGood, VerifyWorktreeGood,
     BootstrapGood, FinalVerifyGood, UndoBootstrapGood
  DEF Create

LEMMA AbortGood ==
  ASSUME IInv, KInv, NEW p \in Procs, Abort(p)
  PROVE  Good(p)
  BY RecoverLockGood, ClaimWorktreeGood, MoveToClaimGood, VerifyClaimGood,
     DetachTreeGood, DetachAdminGood, DisposeGood, JournalRemovedGood,
     BranchIntentGood, LockRefGood, CheckRefGood, DetachRefGood,
     RecheckOwnersGood, RestoreRefGood, UnclaimRefGood, DropRefGood,
     JournalRefGoneGood, UnlockRefGood, SettleGood
  DEF Abort

LEMMA FinishGood ==
  ASSUME IInv, KInv, NEW p \in Procs, Finish(p)
  PROVE  Good(p)
  BY FinishLockGood, FinishDecideGood, FinishRecheckGood, GitRemoveGood,
     FinishAgainGood, FinishResumeGood, FinishRefGood, FinishJournalGood,
     FinishForgetGood
  DEF Finish

LEMMA EveryStep ==
  ASSUME IInv, KInv, [Next]_vars
  PROVE  (\E p \in Procs : Good(p)) \/ Meddling \/ UNCHANGED vars
  BY CreateGood, AbortGood, FinishGood, CrashGood, StartsGood DEF Next, Run

LEMMA InitKInv == Init => KInv
<1> SUFFICES ASSUME Init PROVE KInv
  OBVIOUS
<1>1. \A p \in Procs : proc[p].pc = "idle"
  BY DEF Init, Idle
<1>2. "idle" \notin RepoPcs \cup KnowPcs
  BY DEF RepoPcs, KnowPcs, LockedPcs, AbortPcs
<1>3. \A p \in Procs : Knows(p)
  BY <1>1, <1>2 DEF Knows, RefKnown, PhaseKnown, KnowPcs, LockedPcs
<1>4. RepoDiscipline /\ Approved /\ Blank
  BY <1>1, <1>2 DEF Init, RepoDiscipline, Approved, Blank, NoReceipt
<1> QED BY <1>3, <1>4 DEF KInv

LEMMA NextKInv == IInv /\ KInv /\ [Next]_vars => KInv'
<1> SUFFICES ASSUME IInv, KInv, [Next]_vars PROVE KInv'
  OBVIOUS
<1>1. Shape
  BY NextIInv
<1>2. CASE \E p \in Procs : Good(p)
  BY <1>1, <1>2, StepKInv
<1>3. CASE Meddling
  BY <1>3, OutsideKInv
<1>4. CASE UNCHANGED vars
  BY <1>4 DEF vars, KInv, RepoDiscipline, Approved, Blank, Knows, RefKnown,
              PhaseKnown, Exists, Owners, Mine, Token
<1> QED BY <1>2, <1>3, <1>4, EveryStep

\* Whoever changes refs or worktrees holds the repository lock; what it read of
\* the ref is still so when it acts, although people commit, delete and check
\* out as they like; and an approved commit has landed.
THEOREM RepositoryInOrder == Spec => []KInv
<1>1. Spec => [](IInv /\ KInv)
  BY InitIInv, InitKInv, NextIInv, NextKInv, PTL DEF Spec
<1> QED BY <1>1, PTL

\* No commit is lost to the tool: a ref that create, a rollback or finish drops,
\* restores or deletes was at the source commit or at one that has landed, even
\* when its owner commits between approval and deletion.
THEOREM CommitsAreKept == Spec => NoCommittedWorkLost
<1>1. ASSUME IInv, KInv, [Next]_vars, Tool
      PROVE  \A b \in Branches :
               ref[b].sha # ref'[b].sha => ref[b].sha \in {Source, NoSha} \cup landed
  <2>1. CASE \E p \in Procs : Good(p)
    BY <2>1 DEF Good, Harmless
  <2>2. CASE Meddling \/ UNCHANGED vars
    BY <2>2, <1>1, OutsideRespects DEF Tool, vars
  <2> QED BY <1>1, <2>1, <2>2, EveryStep
<1>2. IInv /\ KInv /\ [Next]_vars
        => [Tool => \A b \in Branches :
              ref[b].sha # ref'[b].sha => ref[b].sha \in {Source, NoSha} \cup landed]_vars
  BY <1>1
<1> QED BY <1>2, Inductive, RepositoryInOrder, PTL DEF Spec, NoCommittedWorkLost

\* A worktree that checked the branch out while a rollback was deleting its ref
\* gets the ref back: the detached ref goes only when nobody owns the branch.
THEOREM LateOwners == Spec => LateOwnerKeepsBranch
<1>1. ASSUME IInv, KInv, [Next]_vars, NEW l \in Lifecycles,
             receipt[l].token # Foreign, refClaim[receipt[l].token] # NoClaim,
             refClaim'[receipt[l].token] = NoClaim
      PROVE  Owners(receipt[l].branch) = {} \/ ref'[receipt[l].branch].sha # NoSha
  <2> DEFINE t == receipt[l].token
  <2>1. t \in Tokens
    BY <1>1 DEF IInv, TypeOK, Receipts, Ids
  <2>2. PICK p \in Procs : Good(p)
    BY <1>1, EveryStep, OutsideRespects DEF vars
  <2>3. /\ proc[p].pc \in Making /\ t = Token(p)
        /\ Owners(Mine(p).branch) = {} \/ ref'[Mine(p).branch].sha # NoSha
    BY <1>1, <2>1, <2>2 DEF Good, Harmless
  <2>4. l = proc[p].life
    BY <1>1, <2>3, Mined, Kinds DEF IInv, Control, Distinct, KInv, Blank
  <2> QED BY <2>3, <2>4 DEF Mine
<1>2. IInv /\ KInv /\ [Next]_vars
        => [\A l \in Lifecycles :
              LET t == receipt[l].token
                  b == receipt[l].branch
              IN  t # Foreign /\ refClaim[t] # NoClaim /\ refClaim'[t] = NoClaim
                  => Owners(b) = {} \/ ref'[b].sha # NoSha]_vars
  BY <1>1
<1> QED BY <1>2, Inductive, RepositoryInOrder, PTL DEF Spec, LateOwnerKeepsBranch

\* Whatever a path or an administrative name points to by the time it is used:
\* a worktree is unregistered only by a finish that approved it, or by the
\* journaled rollback of the attempt that made it.
THEOREM OnlyItsOwn == Spec => RollbackRemovesOnlyItsOwn
<1>1. ASSUME IInv, KInv, [Next]_vars, Tool, NEW u \in Ids,
             tree[u].admin = "registered", tree'[u].admin # "registered"
      PROVE  \E l \in Lifecycles :
               \/ receipt[l].phase = "approved" /\ u \in At(l)
               \/ receipt[l].phase = "rollback_claimed" /\ receipt[l].token = u
  <2>1. PICK p \in Procs : Good(p)
    BY <1>1, EveryStep, OutsideRespects DEF vars, Tool
  <2> QED BY <1>1, <2>1 DEF Good, Harmless, Removes
<1>2. IInv /\ KInv /\ [Next]_vars
        => [Tool => \A u \in Ids :
              tree[u].admin = "registered" /\ tree'[u].admin # "registered"
                => \E l \in Lifecycles :
                     \/ receipt[l].phase = "approved" /\ u \in At(l)
                     \/ receipt[l].phase = "rollback_claimed" /\ receipt[l].token = u]_vars
  BY <1>1
<1> QED BY <1>2, Inductive, RepositoryInOrder, PTL DEF Spec, RollbackRemovesOnlyItsOwn
=============================================================================
