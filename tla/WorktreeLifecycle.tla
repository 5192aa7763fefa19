-------------------------- MODULE WorktreeLifecycle --------------------------
(***************************************************************************)
(* The worktree transaction of bin/escapement-worktree: `create`,          *)
(* `recover` and `finish` run by concurrent processes over one repository, *)
(* with crashes between any two durable steps and with people and programs *)
(* that use the same repository and take none of the transaction's locks.  *)
(*                                                                         *)
(* One attempt of `create` draws one token, publishes one branch ref and   *)
(* adds one worktree.  The inode the code journals for the ref and for the *)
(* worktree's administrative directory is modelled by the attempt's token: *)
(* a ref file or a worktree made by anybody else has the identity Foreign. *)
(***************************************************************************)
EXTENDS Naturals, FiniteSets

CONSTANTS
  Procs,          \* processes that run the command line tool
  Lifecycles,     \* lifecycle identities; each names one target path
  Branches,
  NoProc,
  NoLife,
  NoBranch,       \* also the HEAD of a detached worktree
  MaxAttempts,    \* bound: tokens drawn by create
  MaxCrashes,     \* bound: processes killed
  MaxMeddles,     \* bound: changes made from outside, commits among them
  Outside         \* the kinds of outside change and of I/O failure allowed

OutsideKinds ==
  { "commit", "commit_in_claim", "detach", "dirty", "remove_tree",
    "add_tree", "delete_branch", "create_branch", "add_fails", "bind_fails",
    "move_fails", "lock_busy", "preserve", "bootstrap_fails" }

ASSUME BoundsAssumption ==
  /\ MaxAttempts \in Nat /\ MaxCrashes \in Nat /\ MaxMeddles \in Nat
  /\ Outside \subseteq OutsideKinds

ASSUME NamesAssumption ==
  NoProc \notin Procs /\ NoLife \notin Lifecycles /\ NoBranch \notin Branches

VARIABLES
  receipt,    \* the durable receipt of each lifecycle
  ref,        \* the loose ref of each branch
  refLock,    \* the journaled <ref>.lock file: the token it carries, or Free
  refClaim,   \* per token: the detached ref file, by identity, or NoClaim
  tree,       \* per identity: the worktree and its administrative directory
  landed,     \* commits the live default branch contains through a merge
  lifeLock,   \* advisory lock of each lifecycle
  repoLock,   \* advisory repository transaction lock
  proc,       \* what each process is doing
  attempts, crashes, meddles

disk  == <<receipt, ref, refLock, refClaim, tree>>
locks == <<lifeLock, repoLock>>
bounds == <<attempts, crashes, meddles>>
vars == <<receipt, ref, refLock, refClaim, tree, landed, lifeLock, repoLock,
          proc, attempts, crashes, meddles>>

-----------------------------------------------------------------------------
Tokens  == 1 .. MaxAttempts
Foreign == 0
Free    == 0
Ids     == {Foreign} \cup Tokens
NoClaim == MaxAttempts + 1
Source  == 0                      \* the commit a creation starts from
Shas    == 0 .. MaxMeddles        \* a commit is named by its meddle
NoSha   == MaxMeddles + 1

AfterTree ==                      \* receipt says the worktree is gone
  { "rollback_worktree_removed", "rollback_ref_claimed",
    "rollback_ref_detached", "rollback_ref_restoring", "rollback_ref_removed" }
RefPhases == AfterTree \ {"rollback_worktree_removed"}
RollbackPhases == AfterTree \cup {"rollback_claimed"}
CREATION_PHASES ==
  RollbackPhases \cup {"allocating", "bootstrap_pending", "bootstrap_failed"}
FinishPhases ==
  {"created", "requested", "approved", "worktree_removed", "ref_deleted"}
LIFECYCLE_PHASES == CREATION_PHASES \cup FinishPhases

Receipts ==
  [ phase    : LIFECYCLE_PHASES \cup {"none"},
    branch   : Branches \cup {NoBranch},
    token    : Ids,
    alloc    : {"unstarted", "prepared", "committed"},
    refId    : Ids \cup {NoClaim},      \* identity recorded for the rollback
    approved : Shas \cup {NoSha} ]
NoReceipt ==
  [ phase |-> "none", branch |-> NoBranch, token |-> Foreign,
    alloc |-> "unstarted", refId |-> NoClaim, approved |-> NoSha ]

Refs  == [id : Ids, sha : Shas \cup {NoSha}]
NoRef == [id |-> Foreign, sha |-> NoSha]

Trees ==
  [ place : {"none", "target", "claim", "disposal", "elsewhere"},
    life  : Lifecycles \cup {NoLife},    \* whose target path it has or had
    tok   : Ids,                         \* whose claim or disposal path it has
    admin : {"none", "registered", "disposal"},
    bound : BOOLEAN,                     \* admin directory holds the token
    head  : Branches \cup {NoBranch},
    dirty : BOOLEAN ]                    \* modified, staged or untracked files
NoTree ==
  [ place |-> "none", life |-> NoLife, tok |-> Foreign, admin |-> "none",
    bound |-> FALSE, head |-> NoBranch, dirty |-> FALSE ]

CreatePcs ==
  { "c_lock", "c_prepare", "c_commit", "c_journal", "c_add", "c_bind",
    "c_verify", "c_boot", "c_final", "c_undo" }
AbortPcs ==
  { "claim", "move", "verify_claim", "detach_tree", "detach_admin", "dispose",
    "journal_removed", "branch", "ref_lock", "ref_check", "ref_detach",
    "ref_recheck", "ref_restore", "ref_unclaim", "ref_drop", "ref_gone",
    "ref_release", "settle" }
FinishPcs ==
  { "f_lock", "f_decide", "f_recheck", "f_remove", "f_again", "f_resume",
    "f_ref", "f_deleted", "f_forget" }
Pcs == {"idle", "r_lock"} \cup CreatePcs \cup AbortPcs \cup FinishPcs

ProcStates ==
  [ pc       : Pcs,
    life     : Lifecycles \cup {NoLife},
    recovery : BOOLEAN,                  \* run by recover, not by create
    ident    : BOOLEAN,                  \* holds the creation identity
    residue  : BOOLEAN,
    seen     : Receipts ]                \* what finish read before its lock
Idle ==
  [ pc |-> "idle", life |-> NoLife, recovery |-> FALSE, ident |-> FALSE,
    residue |-> FALSE, seen |-> NoReceipt ]

TypeOK ==
  /\ receipt \in [Lifecycles -> Receipts]
  /\ ref \in [Branches -> Refs]
  /\ refLock \in [Branches -> Ids]
  /\ refClaim \in [Tokens -> Ids \cup {NoClaim}]
  /\ tree \in [Ids -> Trees]
  /\ landed \subseteq Shas
  /\ lifeLock \in [Lifecycles -> Procs \cup {NoProc}]
  /\ repoLock \in Procs \cup {NoProc}
  /\ proc \in [Procs -> ProcStates]
  /\ attempts \in 0 .. MaxAttempts
  /\ crashes \in 0 .. MaxCrashes
  /\ meddles \in 0 .. MaxMeddles

Init ==
  /\ receipt = [l \in Lifecycles |-> NoReceipt]
  /\ ref = [b \in Branches |-> NoRef]
  /\ refLock = [b \in Branches |-> Free]
  /\ refClaim = [t \in Tokens |-> NoClaim]
  /\ tree = [u \in Ids |-> NoTree]
  /\ landed = {}
  /\ lifeLock = [l \in Lifecycles |-> NoProc]
  /\ repoLock = NoProc
  /\ proc = [p \in Procs |-> Idle]
  /\ attempts = 0 /\ crashes = 0 /\ meddles = 0

-----------------------------------------------------------------------------
(* What a process sees.                                                    *)

Mine(p)  == receipt[proc[p].life]
Token(p) == Mine(p).token
Exists(b) == ref[b].sha # NoSha
At(l)      == {u \in Ids : tree[u].place = "target" /\ tree[u].life = l}
Claimed(t) == {u \in Ids : tree[u].place = "claim" /\ tree[u].tok = t}
Owners(b)  == {u \in Ids : tree[u].admin = "registered" /\ tree[u].head = b}

\* Git has prepared <branch>.lock for the transaction of allocate_branch_ref.
Prepared(b) ==
  \E q \in Procs : proc[q].pc = "c_commit" /\ Mine(q).branch = b

\* HEAD of a worktree is the branch the receipt names, at the source commit.
OnSource(u, r) ==
  tree[u].head = r.branch /\ ref[r.branch].sha = Source

\* abort_creation_locked passes the token only to recover or to a create that
\* captured the administrative directory it made.
ownership_token(p) == proc[p].recovery \/ proc[p].ident

target_owned_by_creation(p, u) ==
  /\ tree[u].admin = "registered"
  /\ proc[p].ident => u = Token(p)
  /\ ownership_token(p) => u = Token(p) /\ tree[u].bound
  /\ OnSource(u, Mine(p))

branch_created(p) == proc[p].recovery \/ Mine(p).alloc # "unstarted"

rollback_authorized(p) ==
  \/ Mine(p).phase \in RollbackPhases
  \/ Mine(p).phase = "allocating" /\ Mine(p).alloc # "unstarted"
  \/ branch_created(p) /\ ~proc[p].recovery

branch_cleanup_safe(p) ==
  \/ ~proc[p].residue
  \/ ~proc[p].recovery /\ proc[p].ident /\ Mine(p).phase \notin RollbackPhases

branch_cleanup_authorized(p) ==
  /\ branch_cleanup_safe(p)
  /\ rollback_authorized(p) \/ Mine(p).phase \in AfterTree

-----------------------------------------------------------------------------
(* How a process moves.                                                    *)

Goto(p, pc) == proc' = [proc EXCEPT ![p].pc = pc]
Refuse(p, pc) == proc' = [proc EXCEPT ![p].pc = pc, ![p].residue = TRUE]
Write(p, phase) ==
  receipt' = [receipt EXCEPT ![proc[p].life].phase = phase]
Exit(p) ==           \* return, raise or die: the kernel drops the flocks
  /\ proc' = [proc EXCEPT ![p] = Idle]
  /\ lifeLock' = [l \in Lifecycles |->
                    IF lifeLock[l] = p THEN NoProc ELSE lifeLock[l]]
  /\ repoLock' = IF repoLock = p THEN NoProc ELSE repoLock
TakeRepo(p) == repoLock = NoProc /\ repoLock' = p
Rest == UNCHANGED <<landed, attempts, crashes, meddles>>

-----------------------------------------------------------------------------
(* create                                                                  *)

CreateStart(p, l) ==
  /\ proc[p].pc = "idle" /\ lifeLock[l] = NoProc
  /\ lifeLock' = [lifeLock EXCEPT ![l] = p]
  /\ proc' = [proc EXCEPT ![p].pc = "c_lock", ![p].life = l]
  /\ UNCHANGED <<disk, repoLock>> /\ Rest

\* lifecycle_exists, validate_request, then the receipt before any mutation.
CreateReceipt(p, b) ==
  LET l == proc[p].life IN
  /\ proc[p].pc = "c_lock" /\ attempts < MaxAttempts
  /\ Mine(p).phase = "none" /\ At(l) = {} /\ ~Exists(b)
  /\ TakeRepo(p)
  /\ attempts' = attempts + 1
  /\ receipt' = [receipt EXCEPT ![l] =
       [NoReceipt EXCEPT !.phase = "allocating", !.branch = b,
                         !.token = attempts + 1]]
  /\ Goto(p, "c_prepare")
  /\ UNCHANGED <<ref, refLock, refClaim, tree, landed, lifeLock, crashes,
                 meddles>>

CreateRefused(p) ==
  /\ proc[p].pc = "c_lock" /\ repoLock = NoProc
  /\ \/ Mine(p).phase # "none" \/ At(proc[p].life) # {}
     \/ \E b \in Branches : Exists(b)
     \/ attempts = MaxAttempts
  /\ Exit(p)
  /\ UNCHANGED disk /\ Rest

\* git update-ref: create, prepare; the lock's identity is journaled.
PrepareRef(p) ==
  LET b == Mine(p).branch IN
  /\ proc[p].pc = "c_prepare"
  /\ IF Exists(b) \/ refLock[b] # Free
       THEN Goto(p, "claim") /\ UNCHANGED receipt
       ELSE /\ receipt' = [receipt EXCEPT ![proc[p].life].alloc = "prepared"]
            /\ Goto(p, "c_commit")
  /\ UNCHANGED <<ref, refLock, refClaim, tree, locks>> /\ Rest

CommitRef(p) ==
  /\ proc[p].pc = "c_commit"
  /\ ref' = [ref EXCEPT ![Mine(p).branch] = [id |-> Token(p), sha |-> Source]]
  /\ Goto(p, "c_journal")
  /\ UNCHANGED <<receipt, refLock, refClaim, tree, locks>> /\ Rest

JournalCommit(p) ==
  /\ proc[p].pc = "c_journal"
  /\ IF ref[Mine(p).branch] = [id |-> Token(p), sha |-> Source]
       THEN /\ receipt' = [receipt EXCEPT ![proc[p].life].alloc = "committed"]
            /\ Goto(p, "c_add")
       ELSE Goto(p, "claim") /\ UNCHANGED receipt
  /\ UNCHANGED <<ref, refLock, refClaim, tree, locks>> /\ Rest

\* git worktree add <target> <branch>
AddWorktree(p) ==
  LET l == proc[p].life
      b == Mine(p).branch
  IN
  /\ proc[p].pc = "c_add"
  /\ \/ /\ Exists(b) /\ At(l) = {} /\ Owners(b) = {}
        /\ tree' = [tree EXCEPT ![Token(p)] =
             [NoTree EXCEPT !.place = "target", !.life = l,
                            !.admin = "registered", !.head = b]]
        /\ Goto(p, "c_bind")
     \/ /\ \/ ~Exists(b) \/ At(l) # {} \/ Owners(b) # {}
           \/ "add_fails" \in Outside
        /\ Goto(p, "claim") /\ UNCHANGED tree
  /\ UNCHANGED <<receipt, ref, refLock, refClaim, locks>> /\ Rest

\* capture_creation_identity, bind_creation_token
BindToken(p) ==
  LET t == Token(p) IN
  /\ proc[p].pc = "c_bind"
  /\ \/ /\ t \in At(proc[p].life)
        /\ tree' = [tree EXCEPT ![t].bound = TRUE]
        /\ proc' = [proc EXCEPT ![p].pc = "c_verify", ![p].ident = TRUE]
     \/ /\ t \in At(proc[p].life) /\ "bind_fails" \in Outside
        /\ proc' = [proc EXCEPT ![p].pc = "claim", ![p].ident = TRUE]
        /\ UNCHANGED tree
     \/ /\ t \notin At(proc[p].life)
        /\ Goto(p, "claim") /\ UNCHANGED tree
  /\ UNCHANGED <<receipt, ref, refLock, refClaim, locks>> /\ Rest

\* verify_created_worktree, then either the receipt a bootstrap starts from
\* or, with no bootstrap contract, verify_final_creation and the final one.
VerifyWorktree(p) ==
  LET b == Mine(p).branch
      l == proc[p].life
      good == \E u \in At(l) : tree[u].admin = "registered"
                               /\ OnSource(u, Mine(p))
      final == good /\ At(l) = {Token(p)} /\ tree[Token(p)].bound
  IN
  /\ proc[p].pc = "c_verify"
  /\ \/ /\ good
        /\ Write(p, "bootstrap_pending")
        /\ Goto(p, "c_boot")
        /\ repoLock' = NoProc /\ UNCHANGED lifeLock
     \/ final /\ Write(p, "created") /\ Exit(p)
     \/ ~final /\ Goto(p, "claim") /\ UNCHANGED <<receipt, locks>>
  /\ UNCHANGED <<ref, refLock, refClaim, tree>> /\ Rest

\* run_bootstrap, outside the repository lock.
Bootstrap(p) ==
  /\ proc[p].pc = "c_boot"
  /\ \/ Goto(p, "c_final")
     \/ "bootstrap_fails" \in Outside /\ Goto(p, "c_undo")
  /\ UNCHANGED <<disk, locks>> /\ Rest

FinalVerify(p) ==
  LET l == proc[p].life IN
  /\ proc[p].pc = "c_final" /\ repoLock = NoProc
  /\ IF At(l) = {Token(p)} /\ target_owned_by_creation(p, Token(p))
       THEN Write(p, "created") /\ Exit(p)
       ELSE /\ Goto(p, "claim") /\ TakeRepo(p)
            /\ UNCHANGED <<receipt, lifeLock>>
  /\ UNCHANGED <<ref, refLock, refClaim, tree>> /\ Rest

UndoBootstrap(p) ==
  /\ proc[p].pc = "c_undo" /\ TakeRepo(p) /\ Goto(p, "claim")
  /\ UNCHANGED <<disk, lifeLock>> /\ Rest

-----------------------------------------------------------------------------
(* recover                                                                 *)

\* Fault: recover does not ask for the lifecycle lock.
RecoverStart_NoLock(p, l) ==
  /\ proc[p].pc = "idle" /\ receipt[l].phase \in CREATION_PHASES
  /\ proc' = [proc EXCEPT ![p].pc = "r_lock", ![p].life = l,
                          ![p].recovery = TRUE]
  /\ UNCHANGED <<disk, locks>> /\ Rest

\* Fault: recover does not look at the phase.
RecoverStart_AnyPhase(p, l) ==
  /\ proc[p].pc = "idle" /\ lifeLock[l] = NoProc /\ receipt[l].phase # "none"
  /\ lifeLock' = [lifeLock EXCEPT ![l] = p]
  /\ proc' = [proc EXCEPT ![p].pc = "r_lock", ![p].life = l,
                          ![p].recovery = TRUE]
  /\ UNCHANGED <<disk, repoLock>> /\ Rest

\* Fault: one of the copies of CREATION_PHASES misses a phase.
RecoverStart_MissesPhase(p, l) ==
  /\ proc[p].pc = "idle" /\ lifeLock[l] = NoProc
  /\ receipt[l].phase \in CREATION_PHASES \ {"rollback_ref_detached"}
  /\ lifeLock' = [lifeLock EXCEPT ![l] = p]
  /\ proc' = [proc EXCEPT ![p].pc = "r_lock", ![p].life = l,
                          ![p].recovery = TRUE]
  /\ UNCHANGED <<disk, repoLock>> /\ Rest

RecoverStart(p, l) ==
  /\ proc[p].pc = "idle" /\ lifeLock[l] = NoProc
  /\ receipt[l].phase \in CREATION_PHASES
  /\ lifeLock' = [lifeLock EXCEPT ![l] = p]
  /\ proc' = [proc EXCEPT ![p].pc = "r_lock", ![p].life = l,
                          ![p].recovery = TRUE]
  /\ UNCHANGED <<disk, repoLock>> /\ Rest

RecoverLock(p) ==
  /\ proc[p].pc = "r_lock" /\ TakeRepo(p)
  /\ Goto(p, "claim")
  /\ UNCHANGED <<disk, lifeLock>> /\ Rest

-----------------------------------------------------------------------------
(* abort_creation_locked: the worktree                                     *)

\* _claim_worktree up to the move
ClaimWorktree(p) ==
  LET r == Mine(p)
      here == At(proc[p].life)
      claimed == Claimed(r.token)
  IN
  /\ proc[p].pc = "claim"
  /\ CASE r.phase \in AfterTree -> Goto(p, "branch")
       [] r.phase = "rollback_claimed" ->
            Goto(p, IF claimed # {} THEN "verify_claim" ELSE "detach_tree")
       [] r.phase \notin RollbackPhases /\ claimed # {} ->
            IF ownership_token(p) THEN Goto(p, "verify_claim")
                                  ELSE Refuse(p, "branch")
       [] r.phase \notin RollbackPhases /\ claimed = {} /\ here # {} ->
            IF /\ ownership_token(p)
               /\ \A u \in here : target_owned_by_creation(p, u)
              THEN Goto(p, "move") ELSE Refuse(p, "branch")
       [] OTHER ->
            Goto(p, IF rollback_authorized(p) THEN "journal_removed"
                                              ELSE "branch")
  /\ UNCHANGED <<disk, locks>> /\ Rest

\* git worktree move <target> <claim>: it moves whatever is there by now.
MoveToClaim(p) ==
  LET here == {u \in At(proc[p].life) : tree[u].admin = "registered"} IN
  /\ proc[p].pc = "move"
  /\ \/ \E u \in here :
          /\ tree' = [tree EXCEPT ![u].place = "claim", ![u].tok = Token(p)]
          /\ Goto(p, "verify_claim")
     \/ /\ here = {} \/ "move_fails" \in Outside
        /\ Refuse(p, "branch") /\ UNCHANGED tree
  /\ UNCHANGED <<receipt, ref, refLock, refClaim, locks>> /\ Rest

\* The rest of _claim_worktree: the claim is journaled or put back.
VerifyClaim(p) ==
  LET l == proc[p].life
      t == Token(p)
      here == Claimed(t)
      owned == here # {} /\ \A u \in here : target_owned_by_creation(p, u)
  IN
  /\ proc[p].pc = "verify_claim"
  /\ \/ /\ owned
        /\ Write(p, "rollback_claimed") /\ Goto(p, "detach_tree")
        /\ UNCHANGED tree
     \/ /\ ~owned
        /\ tree' = [u \in Ids |->
             IF u \in here /\ At(l) = {} /\ tree[u].admin = "registered"
               THEN [tree[u] EXCEPT !.place = "target", !.life = l,
                                    !.tok = Foreign]
               ELSE tree[u]]
        /\ Refuse(p, "branch") /\ UNCHANGED receipt
  /\ UNCHANGED <<ref, refLock, refClaim, locks>> /\ Rest

\* Fault: the administrative directory goes before the checkout.
DetachTree_AdminFirst(p) ==
  /\ proc[p].pc = "detach_tree" /\ Goto(p, "detach_admin")
  /\ UNCHANGED <<disk, locks>> /\ Rest

\* remove_exact_rollback_claim: the directory at the claim path
DetachTree(p) ==
  LET t == Token(p)
      occupied == Claimed(t)
  IN
  /\ proc[p].pc = "detach_tree"
  /\ IF occupied \subseteq {t}
       THEN /\ tree' = [u \in Ids |->
                 IF u \in occupied THEN [tree[u] EXCEPT !.place = "disposal"]
                                   ELSE tree[u]]
            /\ Goto(p, "detach_admin")
       ELSE Refuse(p, "branch") /\ UNCHANGED tree
  /\ UNCHANGED <<receipt, ref, refLock, refClaim, locks>> /\ Rest

\* Fault: the administrative directory is taken by name, not by identity.
DetachAdmin_ByName(p) ==
  /\ proc[p].pc = "detach_admin"
  /\ tree' = [u \in Ids |->
       IF tree[u].admin = "registered"
          /\ (u = Token(p) \/ tree[u].life = proc[p].life)
         THEN [tree[u] EXCEPT !.admin = "disposal"] ELSE tree[u]]
  /\ Goto(p, "dispose")
  /\ UNCHANGED <<receipt, ref, refLock, refClaim, locks>> /\ Rest

\* the administrative directory; its name may be in use by a later worktree
DetachAdmin(p) ==
  LET t == Token(p)
      replaced == /\ tree[t].admin # "registered"
                  /\ tree[Foreign].admin = "registered"
                  /\ tree[Foreign].life = proc[p].life
  IN
  /\ proc[p].pc = "detach_admin"
  /\ IF replaced
       THEN Refuse(p, "branch") /\ UNCHANGED tree
       ELSE /\ tree' = [tree EXCEPT ![t].admin =
                          IF @ = "registered" THEN "disposal" ELSE @]
            /\ Goto(p, "dispose")
  /\ UNCHANGED <<receipt, ref, refLock, refClaim, locks>> /\ Rest

\* admin_token_matches, then rmtree of both detached directories
Dispose(p) ==
  LET t == Token(p) IN
  /\ proc[p].pc = "dispose"
  /\ IF tree[t].admin = "disposal" /\ ~tree[t].bound
       THEN Refuse(p, "branch") /\ UNCHANGED tree
       ELSE /\ tree' = [tree EXCEPT ![t] =
                          IF @.place = "target" THEN [@ EXCEPT !.admin = "none"]
                                                ELSE NoTree]
            /\ Goto(p, "journal_removed")
  /\ UNCHANGED <<receipt, ref, refLock, refClaim, locks>> /\ Rest

JournalRemoved(p) ==
  /\ proc[p].pc = "journal_removed"
  /\ Write(p, "rollback_worktree_removed") /\ Goto(p, "branch")
  /\ UNCHANGED <<ref, refLock, refClaim, tree, locks>> /\ Rest

-----------------------------------------------------------------------------
(* abort_creation_locked: the branch (delete_owned_branch).  The two lock  *)
(* files the code journals for a ref appear here as one refLock.           *)

ReleaseRef(b, t) ==
  refLock' = [refLock EXCEPT ![b] = IF @ = t THEN Free ELSE @]

\* From stale-lock adoption to the journaled lock intent.
BranchIntent(p) ==
  LET r == Mine(p)
      b == r.branch
      t == r.token
      adopting == r.phase \in RefPhases
      foreignLock == adopting /\ refLock[b] \notin {Free, t}
      done == \/ r.phase = "rollback_ref_removed"
              \/ ~Exists(b) /\ r.alloc = "unstarted"
      ours == ~Exists(b) \/ ref[b] = [id |-> t, sha |-> Source]
  IN
  /\ proc[p].pc = "branch"
  /\ IF ~branch_created(p)
       THEN Goto(p, "settle") /\ UNCHANGED <<receipt, refLock>>
       ELSE /\ IF adopting THEN ReleaseRef(b, t) ELSE UNCHANGED refLock
            /\ CASE foreignLock -> Refuse(p, "settle") /\ UNCHANGED receipt
                 [] ~foreignLock /\ done -> Goto(p, "settle") /\ UNCHANGED receipt
                 [] ~foreignLock /\ ~done
                    /\ ~(ours /\ branch_cleanup_authorized(p)) ->
                      Refuse(p, "settle") /\ UNCHANGED receipt
                 [] OTHER ->
                      /\ IF r.phase \in {"rollback_ref_detached",
                                         "rollback_ref_restoring"}
                           THEN UNCHANGED receipt
                           ELSE Write(p, "rollback_ref_claimed")
                      /\ Goto(p, "ref_lock")
  /\ UNCHANGED <<ref, refClaim, tree, locks>> /\ Rest

LockRef(p) ==
  LET b == Mine(p).branch IN
  /\ proc[p].pc = "ref_lock"
  /\ \/ /\ refLock[b] = Free
        /\ refLock' = [refLock EXCEPT ![b] = Token(p)]
        /\ Goto(p, "ref_check")
     \/ /\ refLock[b] # Free \/ "lock_busy" \in Outside
        /\ Refuse(p, "settle") /\ UNCHANGED refLock
  /\ UNCHANGED <<receipt, ref, refClaim, tree, locks>> /\ Rest

\* Every return before the ref is unlinked gives the lock file back.
RefuseRef(p) ==
  Refuse(p, "settle") /\ ReleaseRef(Mine(p).branch, Token(p)) /\ UNCHANGED receipt

\* What the lock holder finds.
CheckRef(p) ==
  LET r == Mine(p)
      b == r.branch
      t == r.token
      held == refClaim[t] # NoClaim
      missing == ~held /\ r.alloc # "unstarted"
                 /\ r.phase # "rollback_ref_detached"
      changed == ref[b].sha # Source \/ r.refId \notin {NoClaim, ref[b].id}
      owned == Owners(b) # {}
  IN
  /\ proc[p].pc = "ref_check"
  /\ IF ~Exists(b)
       THEN CASE missing \/ (owned /\ ~held) -> RefuseRef(p)
              [] ~missing /\ owned /\ held ->
                   /\ Write(p, "rollback_ref_restoring")
                   /\ Goto(p, "ref_restore") /\ UNCHANGED refLock
              [] ~owned /\ held ->
                   /\ Write(p, "rollback_ref_detached")
                   /\ Goto(p, "ref_drop") /\ UNCHANGED refLock
              [] OTHER -> Goto(p, "ref_gone") /\ UNCHANGED <<receipt, refLock>>
       ELSE CASE changed -> RefuseRef(p)
              [] ~changed /\ owned ->
                   IF r.phase = "rollback_ref_restoring" /\ held
                     THEN Goto(p, "ref_restore") /\ UNCHANGED <<receipt, refLock>>
                     ELSE RefuseRef(p)
              [] OTHER ->
                   /\ receipt' = [receipt EXCEPT ![proc[p].life].refId = ref[b].id]
                   /\ Goto(p, "ref_detach") /\ UNCHANGED refLock
  /\ UNCHANGED <<ref, refClaim, tree, locks>> /\ Rest

\* detach_exact_file: the public name becomes the claim, by inode.
DetachRef(p) ==
  LET b == Mine(p).branch
      t == Token(p)
  IN
  /\ proc[p].pc = "ref_detach"
  /\ IF refClaim[t] # NoClaim
       THEN RefuseRef(p) /\ UNCHANGED <<ref, refClaim>>
       ELSE /\ ref' = [ref EXCEPT ![b] = NoRef]
            /\ refClaim' = [refClaim EXCEPT ![t] = ref[b].id]
            /\ Goto(p, "ref_recheck") /\ UNCHANGED <<receipt, refLock>>
  /\ UNCHANGED <<tree, locks>> /\ Rest

\* Fault: the owners are not looked up again after the detach.
RecheckOwners_Never(p) ==
  /\ proc[p].pc = "ref_recheck"
  /\ Write(p, "rollback_ref_detached") /\ Goto(p, "ref_drop")
  /\ UNCHANGED <<ref, refLock, refClaim, tree, locks>> /\ Rest

\* A worktree may have checked the branch out since the first look.
RecheckOwners(p) ==
  /\ proc[p].pc = "ref_recheck"
  /\ IF Owners(Mine(p).branch) # {}
       THEN Write(p, "rollback_ref_restoring") /\ Goto(p, "ref_restore")
       ELSE Write(p, "rollback_ref_detached") /\ Goto(p, "ref_drop")
  /\ UNCHANGED <<ref, refLock, refClaim, tree, locks>> /\ Rest

\* restore_detached_file: link back, then unlink the claim.
RestoreRef(p) ==
  LET b == Mine(p).branch
      t == Token(p)
  IN
  /\ proc[p].pc = "ref_restore"
  /\ ref' = [ref EXCEPT ![b] = [id |-> refClaim[t], sha |-> Source]]
  /\ Goto(p, "ref_unclaim")
  /\ UNCHANGED <<receipt, refLock, refClaim, tree, locks>> /\ Rest

UnclaimRef(p) ==
  LET t == Token(p) IN
  /\ proc[p].pc = "ref_unclaim"
  /\ refClaim' = [refClaim EXCEPT ![t] = NoClaim]
  /\ Write(p, "rollback_worktree_removed")
  /\ Refuse(p, "settle")
  /\ ReleaseRef(Mine(p).branch, t)
  /\ UNCHANGED <<ref, tree, locks>> /\ Rest

DropRef(p) ==
  /\ proc[p].pc = "ref_drop"
  /\ refClaim' = [refClaim EXCEPT ![Token(p)] = NoClaim]
  /\ Goto(p, "ref_gone")
  /\ UNCHANGED <<receipt, ref, refLock, tree, locks>> /\ Rest

\* Fault: a phase the registry does not know.
JournalRefGone_UnknownPhase(p) ==
  /\ proc[p].pc = "ref_gone"
  /\ Write(p, "rollback_removed") /\ Goto(p, "ref_release")
  /\ UNCHANGED <<ref, refLock, refClaim, tree, locks>> /\ Rest

JournalRefGone(p) ==
  /\ proc[p].pc = "ref_gone"
  /\ Write(p, "rollback_ref_removed") /\ Goto(p, "ref_release")
  /\ UNCHANGED <<ref, refLock, refClaim, tree, locks>> /\ Rest

UnlockRef(p) ==
  /\ proc[p].pc = "ref_release"
  /\ ReleaseRef(Mine(p).branch, Token(p)) /\ Goto(p, "settle")
  /\ UNCHANGED <<receipt, ref, refClaim, tree, locks>> /\ Rest

\* Fault: the receipt goes whatever is left behind.
Settle_Forgets(p) ==
  /\ proc[p].pc = "settle"
  /\ receipt' = [receipt EXCEPT ![proc[p].life] = NoReceipt]
  /\ Exit(p)
  /\ UNCHANGED <<ref, refLock, refClaim, tree>> /\ Rest

\* No residue: the receipt goes.  Otherwise it says what is left.
Settle(p) ==
  /\ proc[p].pc = "settle"
  /\ receipt' = [receipt EXCEPT ![proc[p].life] =
       IF ~proc[p].residue THEN NoReceipt
       ELSE [@ EXCEPT !.phase = IF Mine(p).phase \in RollbackPhases
                                THEN Mine(p).phase ELSE "bootstrap_failed"]]
  /\ Exit(p)
  /\ UNCHANGED <<ref, refLock, refClaim, tree>> /\ Rest

-----------------------------------------------------------------------------
(* finish                                                                  *)

Forget(p) == receipt' = [receipt EXCEPT ![proc[p].life] = NoReceipt]
Pending(p) ==
  /\ receipt' = [receipt EXCEPT ![proc[p].life].phase = "requested",
                                ![proc[p].life].approved = NoSha]
  /\ Exit(p)

\* finish reads the receipt before it takes the lifecycle lock.
FinishStart(p, l) ==
  /\ proc[p].pc = "idle" /\ receipt[l].phase # "none"
  /\ proc' = [proc EXCEPT ![p].pc = "f_lock", ![p].life = l,
                          ![p].seen = receipt[l]]
  /\ UNCHANGED <<disk, locks>> /\ Rest

\* Fault: only a journaled removal is resumed.
FinishLock_NeedsJournal(p) ==
  LET l == proc[p].life
      r == receipt[l]
      stale == r # proc[p].seen \/ r.phase \in CREATION_PHASES
      removed == /\ r.phase \in {"worktree_removed", "ref_deleted"}
                 /\ r.approved # NoSha /\ At(l) = {}
      proceed(pc) ==
        /\ proc' = [proc EXCEPT ![p].pc = pc, ![p].seen = NoReceipt]
        /\ lifeLock' = [lifeLock EXCEPT ![l] = p]
        /\ UNCHANGED repoLock
  IN
  /\ proc[p].pc = "f_lock" /\ lifeLock[l] = NoProc
  /\ CASE stale -> Exit(p) /\ UNCHANGED receipt
       [] ~stale /\ removed -> proceed("f_again") /\ UNCHANGED receipt
       [] OTHER -> proceed("f_decide") /\ Write(p, "requested")
  /\ UNCHANGED <<ref, refLock, refClaim, tree>> /\ Rest

FinishLock(p) ==
  LET l == proc[p].life
      r == receipt[l]
      stale == r # proc[p].seen \/ r.phase \in CREATION_PHASES
      removed == /\ r.phase \in {"approved", "worktree_removed", "ref_deleted"}
                 /\ r.approved # NoSha /\ At(l) = {}
      proceed(pc) ==
        /\ proc' = [proc EXCEPT ![p].pc = pc, ![p].seen = NoReceipt]
        /\ lifeLock' = [lifeLock EXCEPT ![l] = p]
        /\ UNCHANGED repoLock
  IN
  /\ proc[p].pc = "f_lock" /\ lifeLock[l] = NoProc
  /\ CASE stale -> Exit(p) /\ UNCHANGED receipt
       [] ~stale /\ removed -> proceed("f_again") /\ UNCHANGED receipt
       [] OTHER -> proceed("f_decide") /\ Write(p, "requested")
  /\ UNCHANGED <<ref, refLock, refClaim, tree>> /\ Rest

\* final_local_preserve_reason, less the activity of other processes
Removable(l, r) ==
  /\ Exists(r.branch)
  /\ \E u \in At(l) :
       tree[u].admin = "registered" /\ tree[u].head = r.branch /\ ~tree[u].dirty

\* _decision_under_lock; the landing proof names this exact commit.
FinishDecide(p) ==
  LET l == proc[p].life
      r == Mine(p)
      sha == ref[r.branch].sha
      eligible == Removable(l, r) /\ sha \in landed
  IN
  /\ proc[p].pc = "f_decide" /\ repoLock = NoProc
  /\ \/ /\ eligible
        /\ receipt' = [receipt EXCEPT ![l].phase = "approved",
                                      ![l].approved = sha]
        /\ Goto(p, "f_recheck") /\ TakeRepo(p) /\ UNCHANGED lifeLock
     \/ (~eligible \/ "preserve" \in Outside) /\ Pending(p)
  /\ UNCHANGED <<ref, refLock, refClaim, tree>> /\ Rest

FinishRecheck(p) ==
  LET r == Mine(p)
      ok == Removable(proc[p].life, r) /\ ref[r.branch].sha = r.approved
  IN
  /\ proc[p].pc = "f_recheck"
  /\ \/ ok /\ Goto(p, "f_remove") /\ UNCHANGED <<receipt, locks>>
     \/ (~ok \/ "preserve" \in Outside) /\ Pending(p)
  /\ UNCHANGED <<ref, refLock, refClaim, tree>> /\ Rest

\* git worktree remove, without --force
GitRemove(p) ==
  LET here == At(proc[p].life)
      removable == {u \in here : tree[u].admin = "registered" /\ ~tree[u].dirty}
  IN
  /\ proc[p].pc = "f_remove"
  /\ IF here # {} /\ removable = {}
       THEN Exit(p) /\ UNCHANGED tree
       ELSE /\ tree' = [u \in Ids |-> IF u \in removable THEN NoTree ELSE tree[u]]
            /\ Goto(p, "f_resume") /\ UNCHANGED locks
  /\ UNCHANGED <<receipt, ref, refLock, refClaim>> /\ Rest

FinishAgain(p) ==
  /\ proc[p].pc = "f_again" /\ TakeRepo(p) /\ Goto(p, "f_resume")
  /\ UNCHANGED <<disk, lifeLock>> /\ Rest

FinishResume(p) ==
  /\ proc[p].pc = "f_resume"
  /\ IF At(proc[p].life) # {}
       THEN Exit(p) /\ UNCHANGED receipt
       ELSE Write(p, "worktree_removed") /\ Goto(p, "f_ref") /\ UNCHANGED locks
  /\ UNCHANGED <<ref, refLock, refClaim, tree>> /\ Rest

\* Fault: the ref is deleted whatever commit it is at.
FinishRef_AnyTip(p) ==
  /\ proc[p].pc = "f_ref"
  /\ ref' = [ref EXCEPT ![Mine(p).branch] = NoRef]
  /\ Goto(p, "f_deleted")
  /\ UNCHANGED <<receipt, refLock, refClaim, tree, locks>> /\ Rest

\* git update-ref -d <ref> <approved>: it needs the ref at the approved commit
\* and the ref's lock file.
FinishRef(p) ==
  LET b == Mine(p).branch
      deletable == ref[b].sha = Mine(p).approved
                   /\ refLock[b] = Free /\ ~Prepared(b)
  IN
  /\ proc[p].pc = "f_ref"
  /\ IF Exists(b) /\ ~deletable
       THEN Exit(p) /\ UNCHANGED ref
       ELSE /\ ref' = [ref EXCEPT ![b] = NoRef]
            /\ Goto(p, "f_deleted") /\ UNCHANGED locks
  /\ UNCHANGED <<receipt, refLock, refClaim, tree>> /\ Rest

FinishJournal(p) ==
  /\ proc[p].pc = "f_deleted"
  /\ IF Exists(Mine(p).branch)
       THEN Exit(p) /\ UNCHANGED receipt
       ELSE Write(p, "ref_deleted") /\ Goto(p, "f_forget") /\ UNCHANGED locks
  /\ UNCHANGED <<ref, refLock, refClaim, tree>> /\ Rest

FinishForget(p) ==
  /\ proc[p].pc = "f_forget"
  /\ IF At(proc[p].life) = {} THEN Forget(p) ELSE UNCHANGED receipt
  /\ Exit(p)
  /\ UNCHANGED <<ref, refLock, refClaim, tree>> /\ Rest

-----------------------------------------------------------------------------
(* Everything else that happens to the repository.                         *)

\* Killed between two durable steps: its flocks go, its lock files stay.
Crash(p) ==
  /\ proc[p].pc # "idle" /\ crashes < MaxCrashes
  /\ crashes' = crashes + 1
  /\ Exit(p)
  /\ UNCHANGED <<disk, landed, attempts, meddles>>

Meddle(kind) ==
  /\ kind \in Outside /\ meddles < MaxMeddles
  /\ meddles' = meddles + 1
  /\ UNCHANGED <<receipt, refLock, refClaim, landed, locks, proc, attempts,
                 crashes>>

Unlocked(b) == refLock[b] = Free /\ ~Prepared(b)
Visible(u) == tree[u].admin = "registered" /\ tree[u].place \in {"target", "elsewhere"}
SetRef(b, sha) ==
  ref' = [ref EXCEPT ![b] = [id |-> Foreign, sha |-> sha]] /\ UNCHANGED tree

\* A commit renames <ref>.lock over the ref: a new file at a new commit.
UserCommit(u) ==
  /\ \/ Visible(u) /\ Meddle("commit")
     \/ tree[u].place = "claim" /\ tree[u].admin = "registered"
        /\ Meddle("commit_in_claim")
  /\ tree[u].head # NoBranch /\ Unlocked(tree[u].head)
  /\ SetRef(tree[u].head, meddles + 1)

UserDetach(u) ==
  /\ Visible(u) /\ tree[u].head # NoBranch /\ Meddle("detach")
  /\ tree' = [tree EXCEPT ![u].head = NoBranch] /\ UNCHANGED ref

UserEdit(u) ==
  /\ Visible(u) /\ ~tree[u].dirty /\ Meddle("dirty")
  /\ tree' = [tree EXCEPT ![u].dirty = TRUE] /\ UNCHANGED ref

UserRemoveTree(u) ==
  /\ Visible(u) /\ Meddle("remove_tree")
  /\ tree' = [tree EXCEPT ![u] = NoTree] /\ UNCHANGED ref

UserAddTree(b, l) ==
  /\ Meddle("add_tree") /\ tree[Foreign] = NoTree
  /\ Exists(b) /\ Owners(b) = {}
  /\ \E place \in {"target", "elsewhere"} :
       /\ place = "target" => At(l) = {}
       /\ tree' = [tree EXCEPT ![Foreign] =
            [NoTree EXCEPT !.place = place, !.admin = "registered", !.head = b,
                           !.life = IF place = "target" THEN l ELSE NoLife]]
  /\ UNCHANGED ref

UserDeleteBranch(b) ==
  /\ Exists(b) /\ Owners(b) = {} /\ Unlocked(b) /\ Meddle("delete_branch")
  /\ ref' = [ref EXCEPT ![b] = NoRef] /\ UNCHANGED tree

UserCreateBranch(b) ==
  /\ ~Exists(b) /\ Unlocked(b) /\ Meddle("create_branch")
  /\ SetRef(b, Source)

\* The pull request with this exact head is merged to the live default branch.
Land(b) ==
  /\ Exists(b) /\ ref[b].sha \notin landed \cup {Source}
  /\ landed' = landed \cup {ref[b].sha}
  /\ UNCHANGED <<disk, locks, proc, bounds>>

-----------------------------------------------------------------------------
Create(p) ==
  \/ \E b \in Branches : CreateReceipt(p, b)
  \/ CreateRefused(p) \/ PrepareRef(p) \/ CommitRef(p) \/ JournalCommit(p)
  \/ AddWorktree(p) \/ BindToken(p) \/ VerifyWorktree(p) \/ Bootstrap(p)
  \/ FinalVerify(p) \/ UndoBootstrap(p)
Abort(p) ==
  \/ RecoverLock(p) \/ ClaimWorktree(p) \/ MoveToClaim(p) \/ VerifyClaim(p)
  \/ DetachTree(p) \/ DetachAdmin(p) \/ Dispose(p) \/ JournalRemoved(p)
  \/ BranchIntent(p) \/ LockRef(p) \/ CheckRef(p) \/ DetachRef(p)
  \/ RecheckOwners(p) \/ RestoreRef(p) \/ UnclaimRef(p) \/ DropRef(p)
  \/ JournalRefGone(p) \/ UnlockRef(p) \/ Settle(p)
Finish(p) ==
  \/ FinishLock(p) \/ FinishDecide(p) \/ FinishRecheck(p) \/ GitRemove(p)
  \/ FinishAgain(p) \/ FinishResume(p) \/ FinishRef(p) \/ FinishJournal(p)
  \/ FinishForget(p)
Run(p) == Create(p) \/ Abort(p) \/ Finish(p)

Meddling ==
  \/ \E u \in Ids : UserCommit(u) \/ UserDetach(u) \/ UserEdit(u) \/ UserRemoveTree(u)
  \/ \E b \in Branches :
       \/ UserDeleteBranch(b) \/ UserCreateBranch(b) \/ Land(b)
       \/ \E l \in Lifecycles : UserAddTree(b, l)

Next ==
  \/ \E p \in Procs :
       \/ Run(p) \/ Crash(p)
       \/ \E l \in Lifecycles :
            CreateStart(p, l) \/ RecoverStart(p, l) \/ FinishStart(p, l)
  \/ Meddling

Spec == Init /\ [][Next]_vars

\* One turn of the supervisor's reconcile for one receipt.
Reconcile(p, l) ==
  RecoverStart(p, l) \/ (receipt[l].phase \in FinishPhases /\ FinishStart(p, l))

\* A process that runs goes on, and gets a lock that is free again and again;
\* the supervisor comes back to every receipt.
Fairness ==
  /\ \A p \in Procs : SF_vars(Run(p))
  /\ \A l \in Lifecycles : SF_vars(\E p \in Procs : Reconcile(p, l))
LiveSpec == Spec /\ Fairness

-----------------------------------------------------------------------------
(* Properties.                                                             *)

Tool == meddles' = meddles     \* a step nobody outside the transaction took

\* Nothing the transaction made outlives its receipt: while a worktree, a ref
\* file, a detached ref or a ref lock of an attempt is on disk, a receipt with
\* the attempt's token is there for `recover` or `finish` to work from.
ResidueIsReceipted ==
  \A t \in Tokens :
    \/ tree[t].admin # "none" \/ tree[t].place # "none"
    \/ refClaim[t] # NoClaim
    \/ \E b \in Branches : ref[b].id = t \/ refLock[b] = t
    => \E l \in Lifecycles : receipt[l].token = t

\* No checkout is left without its administrative directory, whatever crash
\* or outside change came between the claim and the removal.
NoHeadlessCheckout ==
  \A u \in Ids : tree[u].place \in {"target", "claim"} => tree[u].admin = "registered"

\* The detached ref file is thrown away only while nobody has the branch
\* checked out: a worktree that took the branch while its ref was being deleted
\* gets the ref back.
LateOwnerKeepsBranch ==
  [][\A l \in Lifecycles :
       LET t == receipt[l].token
           b == receipt[l].branch
       IN  t # Foreign /\ refClaim[t] # NoClaim /\ refClaim'[t] = NoClaim
           => Owners(b) = {} \/ ref'[b].sha # NoSha]_vars

\* No step of the tool drops or rewinds a branch that holds a commit which is
\* not on the default branch, although people commit at any moment.
NoCommittedWorkLost ==
  [][Tool => \A b \in Branches :
       ref[b].sha # ref'[b].sha => ref[b].sha \in {Source, NoSha} \cup landed]_vars

\* While a process works on a lifecycle no other process changes its receipt.
CreatorKeepsItsReceipt ==
  [][\A l \in Lifecycles, p \in Procs :
       lifeLock[l] = p /\ proc'[p] = proc[p] => receipt'[l] = receipt[l]]_vars

\* A lifecycle handed to its user is never taken for an unfinished creation.
HandedOverIsNeverRolledBack ==
  [][\A l \in Lifecycles : receipt[l].phase \in FinishPhases
       => receipt'[l].phase \notin CREATION_PHASES]_vars

\* Only finish and the journaled rollback of the attempt that made a worktree
\* unregister it: whatever a name points to by then, a rollback takes nothing
\* else away.
RollbackRemovesOnlyItsOwn ==
  [][Tool => \A u \in Ids :
       tree[u].admin = "registered" /\ tree'[u].admin # "registered"
       => \E l \in Lifecycles :
            \/ receipt[l].phase = "approved" /\ u \in At(l)
            \/ receipt[l].phase = "rollback_claimed" /\ receipt[l].token = u]_vars

\* Someone took the worktree off its branch (git checkout, git switch --detach).
OffBranch(l) == \E u \in At(l) : tree[u].head # receipt[l].branch

\* What recover preserves on purpose: a worktree the crash left without its
\* token or its user took off its branch, a branch that was prepared and is not
\* there, a branch at another commit or made by somebody else.
Unprovable(l) ==
  LET r == receipt[l]
      b == r.branch
  IN
  \/ OffBranch(l) \/ \E u \in At(l) : ~tree[u].bound
  \/ r.alloc = "prepared" /\ ~Exists(b) /\ refClaim[r.token] = NoClaim
  \/ Exists(b) /\ ref[b] # [id |-> r.token, sha |-> Source]

\* A creation, wherever it is cut off and however often its recovery is, ends:
\* it is handed over, or rolled back to nothing, or cannot be proved its own.
CreationEnds ==
  \A l \in Lifecycles :
    receipt[l].phase \in CREATION_PHASES
      ~> (receipt[l].phase \notin CREATION_PHASES \/ Unprovable(l))

\* What finish preserves on purpose: a branch whose tip moved between the
\* approval and the removal of the worktree.
TipMoved(l) ==
  /\ receipt[l].phase = "worktree_removed" /\ Exists(receipt[l].branch)
  /\ ref[receipt[l].branch].sha # receipt[l].approved

\* Landed work in a clean worktree is retired, through every crash of finish,
\* unless its owner goes on committing or leaves the branch.
LandedWorkIsRetired ==
  \A l \in Lifecycles :
    /\ receipt[l].phase \in FinishPhases /\ Removable(l, receipt[l])
    /\ ref[receipt[l].branch].sha \in landed
    ~> \/ receipt[l].phase = "none" \/ TipMoved(l) \/ OffBranch(l)
       \/ ref[receipt[l].branch].sha \notin landed

=============================================================================
