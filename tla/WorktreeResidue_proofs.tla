----------------------- MODULE WorktreeResidue_proofs -----------------------
(***************************************************************************)
(* What create and its rollback leave behind, for any sets of processes,   *)
(* lifecycles and branches and for all bounds: no checkout without its     *)
(* administrative directory, and nothing that no receipt names.  Somebody  *)
(* who commits in a claimed worktree refutes both, somebody who detaches a *)
(* HEAD the second; no other outside change of the model does.  The second *)
(* invariant rests on the first.                                           *)
(***************************************************************************)
EXTENDS WorktreeLifecycle_proofs

-----------------------------------------------------------------------------
(* Checkouts and their administrative directories.                         *)

\* A checkout that anybody can find is registered, and no branch is checked out
\* twice.
Registered ==
  \A u \in Ids : tree[u].place \in {"target", "claim", "elsewhere"}
                   => tree[u].admin = "registered"
OneOwner ==
  \A u, v \in Ids :
    /\ tree[u].admin = "registered" /\ tree[v].admin = "registered"
    /\ tree[u].head = tree[v].head /\ tree[u].head # NoBranch
    => u = v

\* What a rollback has journaled as its claim is its own, and stays so.
OnlyClaim(l) ==
  LET t == receipt[l].token IN
  /\ Claimed(t) \subseteq {t}
  /\ tree[t].place \in {"none", "claim", "disposal"}
  /\ tree[t].place = "claim"
       => t \in Claimed(t) /\ tree[t].bound /\ OnSource(t, receipt[l])
ClaimsKept ==
  \A l \in Lifecycles : receipt[l].phase = "rollback_claimed" => OnlyClaim(l)

AddingPcs == {"c_prepare", "c_commit", "c_journal", "c_add"}
ClaimKnown(p) ==
  LET t == Token(p)
      pc == proc[p].pc
  IN
  /\ pc \in AddingPcs => Mine(p).phase = "allocating"
  /\ pc \in {"move", "verify_claim"} => Mine(p).phase \notin AfterTree
  /\ pc = "move" => ownership_token(p) /\ Mine(p).phase # "rollback_claimed"
  /\ pc = "verify_claim" => ownership_token(p) \/ Mine(p).phase = "rollback_claimed"
  /\ pc \in {"detach_admin", "dispose"} => tree[t].place \in {"none", "disposal"}
  /\ pc = "ref_detach" => Owners(Mine(p).branch) \subseteq {Foreign}

HInv ==
  /\ Registered /\ OneOwner /\ ClaimsKept /\ Source \notin landed
  /\ \A p \in Procs : ClaimKnown(p)

-----------------------------------------------------------------------------
(* Steps that touch neither refs nor worktrees.                            *)

\* No rollback has journaled a claim.
NoNewClaim ==
  \A l \in Lifecycles :
    receipt'[l].phase = "rollback_claimed"
      => /\ receipt[l].phase = "rollback_claimed"
         /\ receipt'[l].token = receipt[l].token
         /\ receipt'[l].branch = receipt[l].branch

ClaimPcs ==
  AddingPcs \cup
  {"move", "verify_claim", "detach_admin", "dispose", "ref_detach"}

\* What a step of p has to show; the other processes see to themselves.
DiskInOrder == Registered' /\ OneOwner' /\ ClaimsKept'
Tidy(p) == DiskInOrder /\ ClaimKnown(p)'

LEMMA ClaimKnowsNothing ==
  ASSUME NEW p \in Procs, proc'[p].pc \notin ClaimPcs
  PROVE  ClaimKnown(p)'
  BY DEF ClaimPcs, AddingPcs, ClaimKnown

LEMMA DiskStands ==
  ASSUME HInv, UNCHANGED <<ref, tree>>, NoNewClaim
  PROVE  DiskInOrder
<1>1. Registered' /\ OneOwner'
  BY DEF HInv, Registered, OneOwner
<1>2. ASSUME NEW l \in Lifecycles, receipt'[l].phase = "rollback_claimed"
      PROVE  OnlyClaim(l)'
  <2>1. OnlyClaim(l) /\ receipt'[l].token = receipt[l].token
        /\ receipt'[l].branch = receipt[l].branch
    BY <1>2 DEF HInv, ClaimsKept, NoNewClaim
  <2> QED BY <2>1 DEF OnlyClaim, Claimed, OnSource
<1> QED BY <1>1, <1>2 DEF DiskInOrder, ClaimsKept

\* What a process in the repository finds after somebody else's step.
LEMMA OthersStand ==
  ASSUME IInv, KInv, Shape, NEW p \in Procs, Apart(p),
         NEW q \in Procs, q # p, proc[q].pc \in RepoPcs
  PROVE  /\ proc'[q] = proc[q]
         /\ UNCHANGED <<ref, refLock, tree, repoLock>>
         /\ receipt'[proc[q].life] = receipt[proc[q].life]
<1>1. proc'[q] = proc[q] /\ repoLock = q
  BY AtWork DEF Apart
<1>2. UNCHANGED <<ref, refLock, tree, repoLock>>
  BY <1>1, NamesAssumption DEF Apart
<1>3. proc[q].life \in Lifecycles /\ lifeLock[proc[q].life] = q
  BY AtWork, Kinds DEF IInv, Control, LockDiscipline
<1> QED BY <1>1, <1>2, <1>3, KeepsStep

LEMMA TidyStep ==
  ASSUME IInv, KInv, HInv, Shape, NEW p \in Procs, Good(p), Tidy(p)
  PROVE  HInv'
<1>a. Apart(p)
  BY DEF Good
<1>1. ASSUME NEW q \in Procs PROVE ClaimKnown(q)'
  <2>1. CASE q = p
    BY <2>1 DEF Tidy
  <2>2. CASE q # p /\ proc[q].pc \in RepoPcs
    <3>1. /\ proc'[q] = proc[q] /\ UNCHANGED <<ref, tree>>
          /\ receipt'[proc[q].life] = receipt[proc[q].life]
      BY <1>a, <2>2, OthersStand
    <3> QED BY <3>1 DEF HInv, ClaimKnown, ownership_token, Owners, Mine, Token
  <2>3. CASE q # p /\ proc[q].pc \notin RepoPcs
    <3>1. proc'[q].pc \notin ClaimPcs
      BY <2>3, <1>a DEF Apart, ClaimPcs, AddingPcs, RepoPcs, AbortPcs
    <3> QED BY <3>1, ClaimKnowsNothing
  <2> QED BY <2>1, <2>2, <2>3
<1> QED BY <1>a, <1>1 DEF HInv, Tidy, DiskInOrder, Apart

\* A receipt that is written: what is new in it.
LEMMA Wrote ==
  ASSUME IInv, NEW p \in Procs, proc[p].life \in Lifecycles, NEW f, Write(p, f)
  PROVE  /\ receipt'[proc[p].life] = [receipt[proc[p].life] EXCEPT !.phase = f]
         /\ receipt'[proc[p].life].phase = f
         /\ \A l \in Lifecycles : l # proc[p].life => receipt'[l] = receipt[l]
  BY DEF Write, IInv, TypeOK, Receipts

\* Receipts that are not written, or written with something else than a claim.
LEMMA Unwritten ==
  ASSUME receipt' = receipt
  PROVE  NoNewClaim
  BY DEF NoNewClaim

LEMMA OtherWritten ==
  ASSUME IInv, NEW l \in Lifecycles, NEW r,
         receipt' = [receipt EXCEPT ![l] = r],
         r.phase = "rollback_claimed"
           => /\ receipt[l].phase = "rollback_claimed"
              /\ r.token = receipt[l].token /\ r.branch = receipt[l].branch
  PROVE  NoNewClaim
  BY DEF NoNewClaim, IInv, TypeOK

LEMMA PhaseWritten ==
  ASSUME IInv, NEW p \in Procs, proc[p].life \in Lifecycles,
         NEW f, f # "rollback_claimed", Write(p, f)
  PROVE  NoNewClaim
  BY DEF NoNewClaim, Write, IInv, TypeOK, Receipts

LEMMA PassesBy ==
  ASSUME HInv, NEW p \in Procs, UNCHANGED <<ref, tree>>, NoNewClaim,
         proc'[p].pc \notin ClaimPcs
  PROVE  Tidy(p)
  BY DiskStands, ClaimKnowsNothing DEF Tidy

-----------------------------------------------------------------------------
(* The steps that change neither refs nor worktrees.                       *)

LEMMA CreateTidy ==
  ASSUME IInv, KInv, HInv, NEW p \in Procs,
         CreateRefused(p) \/ VerifyWorktree(p) \/ Bootstrap(p)
           \/ FinalVerify(p) \/ UndoBootstrap(p)
  PROVE  Tidy(p)
<1>t. /\ proc \in [Procs -> ProcStates] /\ proc[p].life \in Lifecycles
  BY Kinds DEF IInv, TypeOK, Control, LockDiscipline, CreateRefused,
     VerifyWorktree, Bootstrap, FinalVerify, UndoBootstrap
<1>1. UNCHANGED <<ref, tree>>
  BY DEF CreateRefused, VerifyWorktree, Bootstrap, FinalVerify, UndoBootstrap, disk
<1>2. NoNewClaim
  BY <1>t, Unwritten, PhaseWritten
  DEF CreateRefused, VerifyWorktree, Bootstrap, FinalVerify, UndoBootstrap, disk
<1>3. proc'[p].pc \in {"idle", "c_boot", "claim", "c_final", "c_undo"}
  BY <1>t, Went
  DEF CreateRefused, VerifyWorktree, Bootstrap, FinalVerify, UndoBootstrap, Exit, Idle
<1> QED BY <1>1, <1>2, <1>3, PassesBy DEF ClaimPcs, AddingPcs

LEMMA AbortTidy ==
  ASSUME IInv, KInv, HInv, NEW p \in Procs,
         RecoverLock(p) \/ JournalRemoved(p) \/ BranchIntent(p) \/ LockRef(p)
           \/ RecheckOwners(p) \/ UnclaimRef(p) \/ DropRef(p)
           \/ JournalRefGone(p) \/ UnlockRef(p) \/ Settle(p)
  PROVE  Tidy(p)
<1>t. /\ proc \in [Procs -> ProcStates] /\ proc[p].life \in Lifecycles
      /\ receipt \in [Lifecycles -> Receipts]
  BY Kinds DEF IInv, TypeOK, Control, LockDiscipline, RecoverLock,
     JournalRemoved, BranchIntent, LockRef, RecheckOwners, UnclaimRef, DropRef,
     JournalRefGone, UnlockRef, Settle
<1>1. UNCHANGED <<ref, tree>>
  BY DEF RecoverLock, JournalRemoved, BranchIntent, LockRef, RecheckOwners,
         UnclaimRef, DropRef, JournalRefGone, UnlockRef, Settle, disk
<1>2. NoNewClaim
  <2>1. CASE Settle(p)
    <3> DEFINE l == proc[p].life
    <3>1. \/ receipt' = [receipt EXCEPT ![l] = NoReceipt]
          \/ receipt' = [receipt EXCEPT ![l] = [@ EXCEPT !.phase = "bootstrap_failed"]]
          \/ receipt' = [receipt EXCEPT ![l] = [@ EXCEPT !.phase = receipt[l].phase]]
      <4>1. CASE ~proc[p].residue
        BY <4>1, <2>1, <1>t DEF Settle, Mine
      <4>2. CASE proc[p].residue /\ receipt[l].phase \in RollbackPhases
        BY <4>2, <2>1, <1>t DEF Settle, Mine
      <4>3. CASE proc[p].residue /\ receipt[l].phase \notin RollbackPhases
        BY <4>3, <2>1, <1>t DEF Settle, Mine
      <4> QED BY <4>1, <4>2, <4>3
    <3> QED BY <3>1, <1>t DEF NoNewClaim, NoReceipt, Receipts
  <2> QED BY <2>1, <1>t, Unwritten, PhaseWritten
          DEF RecoverLock, JournalRemoved, BranchIntent, LockRef, RecheckOwners,
              UnclaimRef, DropRef, JournalRefGone, UnlockRef, disk
<1>3. proc'[p].pc \in {"idle", "claim", "branch", "settle", "ref_lock", "ref_check",
                       "ref_restore", "ref_drop", "ref_gone", "ref_release"}
  BY <1>t, Went
  DEF RecoverLock, JournalRemoved, BranchIntent, LockRef, RecheckOwners,
      UnclaimRef, DropRef, JournalRefGone, UnlockRef, Settle, Exit, Idle
<1> QED BY <1>1, <1>2, <1>3, PassesBy DEF ClaimPcs, AddingPcs

LEMMA FinishTidy ==
  ASSUME IInv, KInv, HInv, NEW p \in Procs,
         FinishLock(p) \/ FinishDecide(p) \/ FinishRecheck(p) \/ FinishAgain(p)
           \/ FinishResume(p) \/ FinishJournal(p) \/ FinishForget(p) \/ Crash(p)
  PROVE  Tidy(p)
<1>t. /\ proc \in [Procs -> ProcStates] /\ proc[p].life \in Lifecycles
      /\ receipt \in [Lifecycles -> Receipts]
  BY Kinds DEF IInv, TypeOK, Control, LockDiscipline, FinishLock, FinishDecide,
     FinishRecheck, FinishAgain, FinishResume, FinishJournal, FinishForget, Crash
<1>1. UNCHANGED <<ref, tree>>
  BY DEF FinishLock, FinishDecide, FinishRecheck, FinishAgain, FinishResume,
         FinishJournal, FinishForget, Crash, disk
<1>2. NoNewClaim
  <2>1. \A l \in Lifecycles : receipt'[l].phase = "rollback_claimed"
                               => receipt'[l] = receipt[l]
    <3>1. CASE Pending(p)
      BY <3>1, <1>t DEF Pending, Receipts
    <3>2. CASE FinishDecide(p)
      BY <3>1, <3>2, <1>t DEF FinishDecide, Receipts
    <3>3. CASE FinishForget(p)
      BY <3>3, <1>t DEF FinishForget, Forget, NoReceipt
    <3>4. ASSUME NEW f, f # "rollback_claimed", Write(p, f)
          PROVE  \A l \in Lifecycles : receipt'[l].phase = "rollback_claimed"
                               => receipt'[l] = receipt[l]
      BY <3>4, <1>t DEF Write, Receipts
    <3> QED BY <3>1, <3>2, <3>3, <3>4
            DEF FinishLock, FinishRecheck, FinishAgain, FinishResume,
                FinishJournal, Crash, disk
  <2> QED BY <2>1 DEF NoNewClaim
<1>3. proc'[p].pc \in {"idle", "f_again", "f_decide", "f_recheck", "f_remove",
                       "f_resume", "f_ref", "f_forget"}
  BY <1>t, Went
  DEF FinishLock, FinishDecide, FinishRecheck, FinishAgain, FinishResume,
      FinishJournal, FinishForget, Crash, Pending, Exit, Idle, ProcStates
<1> QED BY <1>1, <1>2, <1>3, PassesBy DEF ClaimPcs, AddingPcs

LEMMA StartsTidy ==
  ASSUME IInv, HInv, NEW p \in Procs, NEW l \in Lifecycles,
         CreateStart(p, l) \/ RecoverStart(p, l) \/ FinishStart(p, l)
  PROVE  Tidy(p)
<1>1. UNCHANGED <<receipt, ref, tree>>
  BY DEF CreateStart, RecoverStart, FinishStart, disk
<1>2. proc'[p].pc \in {"c_lock", "r_lock", "f_lock"}
  BY DEF CreateStart, RecoverStart, FinishStart, IInv, TypeOK, ProcStates
<1> QED BY <1>1, <1>2, Unwritten, PassesBy DEF ClaimPcs, AddingPcs

-----------------------------------------------------------------------------
(* The steps that start on a worktree or a ref.                            *)

LEMMA CreateReceiptTidy ==
  ASSUME IInv, KInv, HInv, NEW p \in Procs, NEW b \in Branches, CreateReceipt(p, b)
  PROVE  Tidy(p)
<1> DEFINE l == proc[p].life
           r == [NoReceipt EXCEPT !.phase = "allocating", !.branch = b,
                                  !.token = attempts + 1]
<1>t. /\ proc \in [Procs -> ProcStates] /\ l \in Lifecycles
      /\ receipt \in [Lifecycles -> Receipts] /\ r.phase = "allocating"
  BY Kinds DEF CreateReceipt, IInv, TypeOK, Control, LockDiscipline, NoReceipt
<1>1. receipt' = [receipt EXCEPT ![l] = r] /\ UNCHANGED <<ref, tree>>
  BY DEF CreateReceipt
<1>2. proc'[p].pc = "c_prepare" /\ proc'[p].life = l
  BY <1>t DEF CreateReceipt, Goto, ProcStates
<1>3. NoNewClaim
  BY <1>t, <1>1, OtherWritten
<1>4. ClaimKnown(p)'
  BY <1>t, <1>1, <1>2 DEF ClaimKnown, Mine
<1> QED BY <1>1, <1>3, <1>4, DiskStands DEF Tidy

LEMMA PrepareRefTidy ==
  ASSUME IInv, KInv, HInv, NEW p \in Procs, PrepareRef(p) \/ JournalCommit(p)
  PROVE  Tidy(p)
<1>m. /\ proc[p].pc \in AddingPcs /\ Continue(p)
      /\ proc \in [Procs -> ProcStates]
  BY PrepareRefMoves, JournalCommitMoves
  DEF PrepareRef, JournalCommit, AddingPcs, IInv, TypeOK
<1>1. UNCHANGED <<ref, tree>>
  BY DEF PrepareRef, JournalCommit
<1>2. /\ Mine(p).phase = "allocating" /\ proc[p].life \in Lifecycles
      /\ receipt \in [Lifecycles -> Receipts] /\ Mine(p) = receipt[proc[p].life]
  BY <1>m, Onward, Mined DEF HInv, ClaimKnown
<1>3. \/ receipt' = receipt
      \/ \E a \in {"prepared", "committed"} :
           receipt' = [receipt EXCEPT ![proc[p].life].alloc = a]
  BY DEF PrepareRef, JournalCommit
<1>4. receipt'[proc[p].life].phase = "allocating"
  BY <1>2, <1>3 DEF Receipts
<1>5. NoNewClaim
  BY <1>2, <1>3, <1>4 DEF NoNewClaim
<1>6. proc'[p].pc \in {"claim", "c_commit", "c_add"}
  BY <1>m, Went DEF PrepareRef, JournalCommit
<1>7. ClaimKnown(p)'
  BY <1>m, <1>4, <1>6, Onward DEF ClaimKnown, AddingPcs
<1> QED BY <1>1, <1>5, <1>7, DiskStands DEF Tidy

LEMMA ClaimWorktreeTidy ==
  ASSUME IInv, KInv, HInv, NEW p \in Procs, ClaimWorktree(p)
  PROVE  Tidy(p)
<1>m. /\ Continue(p) /\ proc \in [Procs -> ProcStates]
  BY ClaimWorktreeMoves DEF IInv, TypeOK
<1>1. UNCHANGED <<receipt, ref, tree>>
  BY DEF ClaimWorktree, disk
<1>2. Mine(p)' = Mine(p)
  BY <1>m, <1>1, Onward DEF Mine
<1>3. \/ /\ proc'[p].pc = "verify_claim" /\ Mine(p).phase \notin AfterTree
         /\ ownership_token(p) \/ Mine(p).phase = "rollback_claimed"
      \/ /\ proc'[p].pc = "move" /\ Mine(p).phase \notin RollbackPhases
         /\ ownership_token(p)
      \/ proc'[p].pc \in {"branch", "detach_tree", "journal_removed"}
  BY <1>m, Went DEF ClaimWorktree, RollbackPhases, AfterTree
<1>4. ownership_token(p) => ownership_token(p)'
  BY <1>m DEF ClaimWorktree, Goto, Refuse, ownership_token, ProcStates
<1>5. ClaimKnown(p)'
  BY <1>2, <1>3, <1>4 DEF ClaimKnown, AddingPcs, RollbackPhases
<1> QED BY <1>1, <1>5, Unwritten, DiskStands DEF Tidy

LEMMA CheckRefTidy ==
  ASSUME IInv, KInv, HInv, NEW p \in Procs, CheckRef(p)
  PROVE  Tidy(p)
<1>m. /\ proc[p].pc = "ref_check" /\ "ref_check" \in RepoPcs /\ Continue(p)
      /\ proc \in [Procs -> ProcStates] /\ receipt \in [Lifecycles -> Receipts]
  BY CheckRefMoves DEF CheckRef, RepoPcs, AbortPcs, IInv, TypeOK
<1>l. proc[p].life \in Lifecycles
  BY <1>m, BranchTyped
<1>1. UNCHANGED <<ref, tree>>
  BY DEF CheckRef
<1>2. NoNewClaim
  <2>1. \/ receipt' = receipt \/ Write(p, "rollback_ref_restoring")
        \/ Write(p, "rollback_ref_detached")
        \/ \E i : receipt' = [receipt EXCEPT ![proc[p].life].refId = i]
    BY DEF CheckRef, RefuseRef
  <2>2. ASSUME NEW i, receipt' = [receipt EXCEPT ![proc[p].life].refId = i]
        PROVE  NoNewClaim
    BY <2>2, <1>m, <1>l DEF NoNewClaim, Receipts
  <2> QED BY <2>1, <2>2, <1>l, Unwritten, PhaseWritten
<1>3. \/ proc'[p].pc = "ref_detach" /\ Owners(Mine(p).branch) = {}
      \/ proc'[p].pc \in {"settle", "ref_restore", "ref_drop", "ref_gone"}
  BY <1>m, Went DEF CheckRef, RefuseRef
<1>4. Owners(Mine(p).branch)' = Owners(Mine(p).branch)
  BY <1>m, <1>1, Onward DEF Owners
<1>5. ClaimKnown(p)'
  BY <1>3, <1>4 DEF ClaimKnown, AddingPcs
<1> QED BY <1>1, <1>2, <1>5, DiskStands DEF Tidy

-----------------------------------------------------------------------------
(* The steps that change refs or worktrees.                                *)

\* Worktrees at the target, at the token and at the claim of p may change, and
\* refs that are off the source commit or that no claim is on.
Within(p) ==
  /\ \A u \in Ids : \/ tree'[u] = tree[u] \/ u = Token(p)
                    \/ u \in At(proc[p].life) \/ u \in Claimed(Token(p))
  /\ \A u \in Ids : tree'[u].place = "claim"
       => \/ tree'[u].tok = Token(p)
          \/ tree[u].place = "claim" /\ tree'[u].tok = tree[u].tok
  /\ \A b \in Branches :
       \/ ref'[b].sha \in {ref[b].sha, Source} \/ ref[b].sha # Source
       \/ Owners(b) \subseteq {Foreign}

LEMMA OtherClaims ==
  ASSUME IInv, HInv, NEW p \in Procs, proc[p].pc \in Making \cup Finishing, Within(p),
         NEW l \in Lifecycles, receipt'[l].phase = "rollback_claimed",
         receipt'[l] = receipt[l], l # proc[p].life \/ tree' = tree
  PROVE  OnlyClaim(l)'
<1> DEFINE t == receipt[l].token
           b == receipt[l].branch
<1>1. OnlyClaim(l)
  BY DEF HInv, ClaimsKept
<1>2. t \in Tokens /\ t \in Ids /\ t # Foreign /\ b \in Branches
  BY BoundsAssumption DEF IInv, TypeOK, Control, Named, Tokens, Ids, Foreign
<1>3. l # proc[p].life => t # Token(p)
  BY Mined, Kinds DEF IInv, Control, Distinct
<1>4. tree'[t] = tree[t]
  BY <1>1, <1>2, <1>3 DEF Within, OnlyClaim, At, Claimed
<1>5. {u \in Ids : tree'[u].place = "claim" /\ tree'[u].tok = t} \subseteq Claimed(t)
  BY <1>3 DEF Within, Claimed
<1>6. tree[t].place = "claim" => ref'[b].sha = Source
  <2>1. tree[t].place = "claim" => t \in Owners(b) /\ ref[b].sha = Source
    BY <1>1, <1>2 DEF OnlyClaim, OnSource, Owners, HInv, Registered
  <2> QED BY <2>1, <1>2 DEF Within
<1> QED BY <1>1, <1>2, <1>4, <1>5, <1>6 DEF OnlyClaim, Claimed, OnSource

LEMMA DiskTidy ==
  ASSUME IInv, HInv, NEW p \in Procs, Continue(p), Within(p),
         Registered', OneOwner', ClaimKnown(p)',
         receipt'[proc[p].life].phase = "rollback_claimed"
           => OnlyClaim(proc[p].life)' \/ (receipt' = receipt /\ tree' = tree)
  PROVE  Tidy(p)
<1>1. ASSUME NEW l \in Lifecycles, receipt'[l].phase = "rollback_claimed"
      PROVE  OnlyClaim(l)'
  <2>1. l # proc[p].life => receipt'[l] = receipt[l]
    BY DEF Continue, OnlyMine, IInv, TypeOK
  <2>2. proc[p].pc \in Making \cup Finishing
    BY Onward
  <2>3. CASE l = proc[p].life /\ OnlyClaim(proc[p].life)'
    BY <2>3 DEF Continue, OnlyClaim, Claimed, OnSource
  <2>4. CASE l # proc[p].life \/ (receipt' = receipt /\ tree' = tree)
    BY <1>1, <2>1, <2>2, <2>4, OtherClaims
  <2> QED BY <1>1, <2>3, <2>4
<1> QED BY <1>1 DEF Tidy, DiskInOrder, ClaimsKept

\* No branch is checked out anew.
LEMMA NoNewOwner ==
  ASSUME HInv,
         \A u \in Ids : tree'[u].admin = "registered"
           => tree[u].admin = "registered" /\ tree'[u].head = tree[u].head
  PROVE  OneOwner'
  BY DEF HInv, OneOwner

LEMMA CommitRefTidy ==
  ASSUME IInv, KInv, HInv, NEW p \in Procs, CommitRef(p)
  PROVE  Tidy(p)
<1> DEFINE b == Mine(p).branch
<1>m. /\ proc[p].pc = "c_commit" /\ "c_commit" \in RepoPcs /\ Continue(p)
      /\ proc \in [Procs -> ProcStates] /\ ref[b].sha = NoSha
      /\ Mine(p).phase = "allocating"
  BY CommitRefMoves, AtWork
  DEF CommitRef, RepoPcs, IInv, TypeOK, RefKnown, Exists, HInv, ClaimKnown, AddingPcs
<1>u. UNCHANGED <<receipt, tree>>
  BY DEF CommitRef
<1>1. Within(p)
  <2>1. \A c \in Branches : c # b => ref'[c] = ref[c]
    BY <1>m, BranchTyped DEF CommitRef
  <2> QED BY <2>1, <1>m, <1>u, Values DEF Within
<1>2. Registered' /\ OneOwner'
  BY <1>u DEF HInv, Registered, OneOwner
<1>3. Mine(p)' = Mine(p)
  BY <1>m, <1>u, Onward DEF Mine
<1>4. proc'[p].pc = "c_journal"
  BY <1>m, Went DEF CommitRef
<1>5. ClaimKnown(p)'
  BY <1>m, <1>3, <1>4 DEF ClaimKnown
<1> QED BY <1>m, <1>u, <1>1, <1>2, <1>5, DiskTidy

LEMMA AddWorktreeTidy ==
  ASSUME IInv, KInv, HInv, NEW p \in Procs, AddWorktree(p)
  PROVE  Tidy(p)
<1> DEFINE b == Mine(p).branch
           t == Token(p)
           new == [NoTree EXCEPT !.place = "target", !.life = proc[p].life,
                                 !.admin = "registered", !.head = b]
<1>m. /\ proc[p].pc = "c_add" /\ "c_add" \in RepoPcs /\ Continue(p)
      /\ proc \in [Procs -> ProcStates] /\ Mine(p).phase = "allocating"
      /\ tree \in [Ids -> Trees]
  BY AddWorktreeMoves
  DEF AddWorktree, RepoPcs, IInv, TypeOK, HInv, ClaimKnown, AddingPcs
<1>u. UNCHANGED <<receipt, ref>>
  BY DEF AddWorktree
<1>n. new.place = "target" /\ new.admin = "registered" /\ new.head = b
  BY DEF NoTree
<1>w. proc'[p].pc \in {"c_bind", "claim"}
  BY <1>m, Went DEF AddWorktree
<1>c. proc'[p].pc \notin ClaimPcs
  BY <1>w DEF ClaimPcs, AddingPcs
<1>1. CASE tree' = tree
  BY <1>1, <1>u, <1>c, Unwritten, PassesBy
<1>2. CASE tree' # tree
  <2>1. tree' = [tree EXCEPT ![t] = new] /\ Owners(b) = {}
    BY <1>2 DEF AddWorktree
  <2>2. \A u \in Ids : tree'[u] = tree[u] \/ (u = t /\ tree'[u] = new)
    BY <2>1, <1>m
  <2>3. Within(p)
    BY <2>2, <1>n, <1>u DEF Within
  <2>4. Registered'
    BY <2>2, <1>n DEF HInv, Registered
  <2>5. OneOwner'
    BY <2>1, <2>2, <1>n DEF HInv, OneOwner, Owners
  <2>6. ClaimKnown(p)'
    BY <1>c, ClaimKnowsNothing
  <2> QED BY <1>m, <1>u, <2>3, <2>4, <2>5, <2>6, Onward, DiskTidy DEF Mine
<1> QED BY <1>1, <1>2

LEMMA BindTokenTidy ==
  ASSUME IInv, KInv, HInv, NEW p \in Procs, BindToken(p)
  PROVE  Tidy(p)
<1> DEFINE t == Token(p)
           l == proc[p].life
<1>m. /\ proc[p].pc = "c_bind" /\ "c_bind" \in RepoPcs /\ Continue(p)
      /\ proc \in [Procs -> ProcStates] /\ tree \in [Ids -> Trees]
  BY BindTokenMoves DEF BindToken, RepoPcs, IInv, TypeOK
<1>u. UNCHANGED <<receipt, ref>>
  BY DEF BindToken
<1>w. proc'[p].pc \in {"c_verify", "claim"}
  BY <1>m, Went DEF BindToken, Identify
<1>c. proc'[p].pc \notin ClaimPcs
  BY <1>w DEF ClaimPcs, AddingPcs
<1>1. CASE tree' = tree
  BY <1>1, <1>u, <1>c, Unwritten, PassesBy
<1>2. CASE tree' # tree
  <2>1. tree' = [tree EXCEPT ![t].bound = TRUE] /\ t \in At(l)
    BY <1>2 DEF BindToken
  <2>2. /\ \A u \in Ids : u # t => tree'[u] = tree[u]
        /\ tree'[t].place = "target" /\ tree[t].place = "target"
        /\ tree'[t].admin = tree[t].admin /\ tree'[t].head = tree[t].head
    BY <2>1, <1>m DEF At, Trees
  <2>3. Within(p)
    BY <2>2, <1>u DEF Within
  <2>4. Registered' /\ OneOwner'
    BY <2>2, NoNewOwner DEF HInv, Registered
  <2>5. ClaimKnown(p)'
    BY <1>c, ClaimKnowsNothing
  <2>6. Mine(p).phase # "rollback_claimed"
    <3>1. l \in Lifecycles
      BY <1>m, BranchTyped
    <3> QED BY <3>1, <2>2 DEF HInv, ClaimsKept, OnlyClaim, Mine, Token
  <2> QED BY <1>m, <1>u, <2>3, <2>4, <2>5, <2>6, DiskTidy DEF Mine
<1> QED BY <1>1, <1>2

LEMMA MoveToClaimTidy ==
  ASSUME IInv, KInv, HInv, NEW p \in Procs, MoveToClaim(p)
  PROVE  Tidy(p)
<1> DEFINE t == Token(p)
<1>m. /\ proc[p].pc = "move" /\ Continue(p)
      /\ proc \in [Procs -> ProcStates] /\ tree \in [Ids -> Trees]
      /\ ownership_token(p) /\ Mine(p).phase \notin AfterTree \cup {"rollback_claimed"}
  BY MoveToClaimMoves DEF MoveToClaim, IInv, TypeOK, HInv, ClaimKnown
<1>u. UNCHANGED <<receipt, ref>>
  BY DEF MoveToClaim
<1>1. CASE tree' = tree /\ Refuse(p, "branch")
  <2>1. proc'[p].pc \notin ClaimPcs
    BY <1>1, <1>m, Went DEF ClaimPcs, AddingPcs
  <2> QED BY <1>1, <1>u, <2>1, Unwritten, PassesBy
<1>2. ASSUME NEW u \in At(proc[p].life), tree[u].admin = "registered",
             tree' = [tree EXCEPT ![u].place = "claim", ![u].tok = t],
             Goto(p, "verify_claim")
      PROVE  Tidy(p)
  <2>1. u \in Ids
    BY DEF At
  <2>2. /\ \A v \in Ids : v # u => tree'[v] = tree[v]
        /\ tree'[u].place = "claim" /\ tree'[u].tok = t
        /\ tree'[u].admin = tree[u].admin /\ tree'[u].head = tree[u].head
    BY <1>2, <1>m, <2>1 DEF Trees
  <2>3. Within(p)
    BY <2>2, <1>2, <1>u DEF Within
  <2>4. Registered' /\ OneOwner'
    BY <2>2, <1>2, NoNewOwner DEF HInv, Registered
  <2>5. ClaimKnown(p)'
    <3>1. proc'[p].pc = "verify_claim" /\ (ownership_token(p) => ownership_token(p)')
      BY <1>2, <1>m, Went DEF Goto, ownership_token, ProcStates
    <3>2. Mine(p)' = Mine(p)
      BY <1>m, <1>u, Onward DEF Mine
    <3> QED BY <1>m, <3>1, <3>2 DEF ClaimKnown, AddingPcs
  <2> QED BY <1>m, <1>u, <2>3, <2>4, <2>5, DiskTidy DEF Mine
<1> QED BY <1>1, <1>2 DEF MoveToClaim

\* What the move brought along is the claim only if it is the worktree of the
\* attempt; the claim of an earlier pass still is.
LEMMA VerifyClaimTidy ==
  ASSUME IInv, KInv, HInv, NEW p \in Procs, VerifyClaim(p)
  PROVE  Tidy(p)
<1> DEFINE t == Token(p)
           l == proc[p].life
           here == Claimed(t)
           owned == here # {} /\ \A u \in here : target_owned_by_creation(p, u)
<1>m. /\ proc[p].pc = "verify_claim" /\ "verify_claim" \in RepoPcs /\ Continue(p)
      /\ proc \in [Procs -> ProcStates] /\ tree \in [Ids -> Trees]
      /\ receipt \in [Lifecycles -> Receipts]
      /\ ownership_token(p) \/ Mine(p).phase = "rollback_claimed"
  BY VerifyClaimMoves
  DEF VerifyClaim, RepoPcs, AbortPcs, IInv, TypeOK, HInv, ClaimKnown
<1>l. l \in Lifecycles /\ t \in Ids /\ Mine(p) = receipt[l]
  BY <1>m, BranchTyped DEF Ids, Mine
<1>u. UNCHANGED ref
  BY DEF VerifyClaim
<1>w. proc'[p].pc \in {"detach_tree", "branch"}
  BY <1>m, Went DEF VerifyClaim
<1>k. ClaimKnown(p)'
  BY <1>w, ClaimKnowsNothing DEF ClaimPcs, AddingPcs
<1>o. Mine(p).phase = "rollback_claimed" => OnlyClaim(l) /\ (here # {} => owned)
  <2>1. Mine(p).phase = "rollback_claimed" => OnlyClaim(l)
    BY <1>l DEF HInv, ClaimsKept
  <2>2. ASSUME OnlyClaim(l), NEW u \in here
        PROVE  target_owned_by_creation(p, u)
    <3>1. u = t /\ tree[t].place = "claim"
      BY <2>2, <1>l DEF OnlyClaim, Claimed, Token
    <3>2. tree[t].bound /\ OnSource(t, Mine(p)) /\ tree[t].admin = "registered"
      BY <2>2, <3>1, <1>l DEF OnlyClaim, HInv, Registered, Token
    <3> QED BY <3>1, <3>2 DEF target_owned_by_creation
  <2> QED BY <2>1, <2>2
<1>1. CASE owned
  <2>1. tree' = tree /\ Write(p, "rollback_claimed")
    BY <1>1 DEF VerifyClaim
  <2>2. here = {t} /\ tree[t].bound /\ OnSource(t, receipt[l])
    <3>1. CASE ownership_token(p)
      <4>1. \A u \in here : u = t /\ tree[u].bound /\ OnSource(u, receipt[l])
        BY <1>1, <3>1, <1>l DEF target_owned_by_creation
      <4>2. t \in here
        BY <1>1, <4>1
      <4> QED BY <4>1, <4>2
    <3>2. CASE OnlyClaim(l)
      <4>1. here = {t}
        BY <1>1, <3>2, <1>l DEF OnlyClaim, Token
      <4> QED BY <4>1, <3>2, <1>l DEF OnlyClaim, Claimed, Token
    <3> QED BY <3>1, <3>2, <1>m, <1>o
  <2>3. /\ receipt'[l].token = t /\ receipt'[l].branch = receipt[l].branch
        /\ proc'[p].life = l
    BY <2>1, <1>m, <1>l DEF Write, Receipts, Token, Continue
  <2>4. OnlyClaim(l)'
    BY <2>1, <2>2, <2>3, <1>u, <1>l DEF OnlyClaim, Claimed, OnSource
  <2>5. Within(p)
    BY <2>1, <1>u DEF Within
  <2>6. Registered' /\ OneOwner'
    BY <2>1, <1>u DEF HInv, Registered, OneOwner
  <2> QED BY <1>m, <1>k, <2>4, <2>5, <2>6, DiskTidy
<1>2. CASE ~owned
  <2>1. /\ receipt' = receipt
        /\ tree' = [u \in Ids |->
             IF u \in here /\ At(l) = {} /\ tree[u].admin = "registered"
               THEN [tree[u] EXCEPT !.place = "target", !.life = l, !.tok = Foreign]
               ELSE tree[u]]
    BY <1>2 DEF VerifyClaim
  <2>2. ASSUME NEW u \in Ids
        PROVE  \/ tree'[u] = tree[u]
               \/ /\ u \in here /\ tree'[u].place = "target"
                  /\ tree[u].admin = "registered"
                  /\ tree'[u].admin = tree[u].admin /\ tree'[u].head = tree[u].head
    BY <2>1, <1>m DEF Trees
  <2>3. Within(p)
    BY <2>2, <1>u DEF Within
  <2>4. Registered' /\ OneOwner'
    BY <2>2, NoNewOwner DEF HInv, Registered
  <2>5. Mine(p).phase = "rollback_claimed" => tree' = tree
    BY <2>1, <1>2, <1>o, <1>m
  <2> QED BY <1>m, <1>k, <1>l, <2>1, <2>3, <2>4, <2>5, DiskTidy
<1> QED BY <1>1, <1>2

LEMMA DetachTreeTidy ==
  ASSUME IInv, KInv, HInv, NEW p \in Procs, DetachTree(p)
  PROVE  Tidy(p)
<1> DEFINE t == Token(p)
           l == proc[p].life
<1>m. /\ proc[p].pc = "detach_tree" /\ "detach_tree" \in RepoPcs /\ Continue(p)
      /\ proc \in [Procs -> ProcStates] /\ tree \in [Ids -> Trees]
      /\ Mine(p).phase = "rollback_claimed"
  BY DetachTreeMoves, AtWork DEF DetachTree, RepoPcs, AbortPcs, IInv, TypeOK, PhaseKnown
<1>l. /\ l \in Lifecycles /\ t \in Ids /\ OnlyClaim(l) /\ t = receipt[l].token
      /\ proc'[p].life = l
  BY <1>m, BranchTyped DEF Ids, Mine, Token, HInv, ClaimsKept, Continue
<1>u. UNCHANGED <<receipt, ref>>
  BY DEF DetachTree
<1>1. /\ tree' = [u \in Ids |-> IF u \in Claimed(t)
                                  THEN [tree[u] EXCEPT !.place = "disposal"]
                                  ELSE tree[u]]
      /\ Goto(p, "detach_admin")
  BY <1>l DEF DetachTree, OnlyClaim
<1>2. /\ \A u \in Ids : u # t => tree'[u] = tree[u]
      /\ tree'[t].admin = tree[t].admin /\ tree'[t].head = tree[t].head
      /\ tree'[t].place \in {"none", "disposal"}
  BY <1>1, <1>l, <1>m DEF OnlyClaim, Trees
<1>3. Within(p)
  BY <1>2, <1>u DEF Within
<1>4. Registered' /\ OneOwner'
  BY <1>2, NoNewOwner DEF HInv, Registered
<1>5. OnlyClaim(l)'
  BY <1>2, <1>l, <1>u DEF OnlyClaim, Claimed
<1>6. ClaimKnown(p)'
  <2>1. proc'[p].pc = "detach_admin"
    BY <1>1, <1>m, Went
  <2> QED BY <2>1, <1>2, <1>m, Onward DEF ClaimKnown, AddingPcs
<1> QED BY <1>m, <1>3, <1>4, <1>5, <1>6, DiskTidy

LEMMA DetachAdminTidy ==
  ASSUME IInv, KInv, HInv, NEW p \in Procs, DetachAdmin(p) \/ Dispose(p)
  PROVE  Tidy(p)
<1> DEFINE t == Token(p)
           l == proc[p].life
<1>m. /\ proc[p].pc \in {"detach_admin", "dispose"} /\ Continue(p)
      /\ proc \in [Procs -> ProcStates] /\ tree \in [Ids -> Trees]
      /\ tree[t].place \in {"none", "disposal"}
      /\ {"detach_admin", "dispose"} \subseteq RepoPcs
  BY DetachAdminMoves, DisposeMoves
  DEF DetachAdmin, Dispose, RepoPcs, AbortPcs, IInv, TypeOK, HInv, ClaimKnown
<1>l. /\ l \in Lifecycles /\ t \in Ids /\ t = receipt[l].token
      /\ proc'[p].life = l
  BY <1>m, BranchTyped DEF Ids, Mine, Token, Continue
<1>u. UNCHANGED <<receipt, ref>>
  BY DEF DetachAdmin, Dispose
<1>1. CASE Refuse(p, "branch") /\ tree' = tree
  <2>1. proc'[p].pc \notin ClaimPcs
    BY <1>1, <1>m, Went DEF ClaimPcs, AddingPcs
  <2> QED BY <1>1, <1>u, <2>1, Unwritten, PassesBy
<1>2. CASE Goto(p, "dispose") \/ Goto(p, "journal_removed")
  <2>1. /\ \A u \in Ids : u # t => tree'[u] = tree[u]
        /\ tree'[t].place \in {"none", "disposal"} /\ tree'[t].admin # "registered"
    <3>1. CASE DetachAdmin(p)
      <4>1. tree' = [tree EXCEPT ![t].admin = IF @ = "registered" THEN "disposal" ELSE @]
        BY <1>2, <3>1, <1>m DEF DetachAdmin, Refuse, Goto, ProcStates
      <4> QED BY <4>1, <1>m, <1>l DEF Trees
    <3>2. CASE Dispose(p)
      <4>1. tree' = [tree EXCEPT ![t] = NoTree]
        BY <1>2, <3>2, <1>m DEF Dispose, Refuse, Goto, ProcStates
      <4> QED BY <4>1, <1>m, <1>l DEF NoTree
    <3> QED BY <3>1, <3>2
  <2>2. Within(p)
    BY <2>1, <1>u DEF Within
  <2>3. Registered' /\ OneOwner'
    BY <2>1, NoNewOwner DEF HInv, Registered
  <2>4. receipt[l].phase = "rollback_claimed" => OnlyClaim(l)'
    BY <2>1, <1>l, <1>u DEF HInv, ClaimsKept, OnlyClaim, Claimed
  <2>5. ClaimKnown(p)'
    <3>1. proc'[p].pc \in {"dispose", "journal_removed"}
      BY <1>2, <1>m, Went
    <3> QED BY <3>1, <2>1, <1>m, Onward DEF ClaimKnown, AddingPcs
  <2> QED BY <1>m, <1>u, <2>2, <2>3, <2>4, <2>5, DiskTidy
<1> QED BY <1>1, <1>2 DEF DetachAdmin, Dispose

LEMMA GitRemoveTidy ==
  ASSUME IInv, KInv, HInv, NEW p \in Procs, GitRemove(p)
  PROVE  Tidy(p)
<1> DEFINE gone == {u \in At(proc[p].life) :
                      tree[u].admin = "registered" /\ ~tree[u].dirty}
<1>m. /\ proc[p].pc = "f_remove" /\ "f_remove" \in RepoPcs
      /\ proc \in [Procs -> ProcStates] /\ tree \in [Ids -> Trees]
      /\ Mine(p).phase = "approved"
      /\ Continue(p) \/ Leave(p)
  BY GitRemoveMoves, AtWork DEF GitRemove, RepoPcs, IInv, TypeOK, PhaseKnown
<1>u. UNCHANGED <<receipt, ref>>
  BY DEF GitRemove
<1>w. proc'[p].pc \in {"idle", "f_resume"}
  BY <1>m, Went DEF GitRemove, Exit, Idle
<1>k. proc'[p].pc \notin ClaimPcs
  BY <1>w DEF ClaimPcs, AddingPcs
<1>1. CASE tree' = tree
  BY <1>1, <1>u, <1>k, Unwritten, PassesBy
<1>2. CASE tree' # tree
  <2>1. /\ tree' = [u \in Ids |-> IF u \in gone THEN NoTree ELSE tree[u]]
        /\ Goto(p, "f_resume")
    BY <1>2 DEF GitRemove
  <2>2. Continue(p)
    <3>1. proc'[p].pc = "f_resume"
      BY <2>1, <1>m, Went
    <3> QED BY <3>1, <1>m DEF Leave, Exit, Idle
  <2>3. ASSUME NEW u \in Ids
        PROVE  \/ tree'[u] = tree[u]
               \/ u \in At(proc[p].life) /\ tree'[u] = NoTree
    BY <2>1
  <2>4. NoTree.place = "none" /\ NoTree.admin = "none"
    BY DEF NoTree
  <2>5. Within(p)
    BY <2>3, <2>4, <1>u DEF Within
  <2>6. Registered' /\ OneOwner'
    BY <2>3, <2>4, NoNewOwner DEF HInv, Registered
  <2>7. ClaimKnown(p)'
    BY <1>k, ClaimKnowsNothing
  <2> QED BY <1>m, <1>u, <2>2, <2>5, <2>6, <2>7, DiskTidy DEF Mine
<1> QED BY <1>1, <1>2

LEMMA DetachRefTidy ==
  ASSUME IInv, KInv, HInv, NEW p \in Procs, DetachRef(p)
  PROVE  Tidy(p)
<1> DEFINE b == Mine(p).branch
<1>m. /\ proc[p].pc = "ref_detach" /\ "ref_detach" \in RepoPcs /\ Continue(p)
      /\ proc \in [Procs -> ProcStates] /\ Owners(b) \subseteq {Foreign}
  BY DetachRefMoves DEF DetachRef, RepoPcs, AbortPcs, IInv, TypeOK, HInv, ClaimKnown
<1>u. UNCHANGED <<receipt, tree>>
  BY DEF DetachRef, RefuseRef
<1>w. proc'[p].pc \in {"settle", "ref_recheck"}
  BY <1>m, Went DEF DetachRef, RefuseRef
<1>1. ClaimKnown(p)'
  BY <1>w, ClaimKnowsNothing DEF ClaimPcs, AddingPcs
<1>2. Within(p)
  <2>1. \A c \in Branches : c # b => ref'[c] = ref[c]
    BY <1>m, BranchTyped DEF DetachRef
  <2> QED BY <2>1, <1>m, <1>u DEF Within
<1>3. Registered' /\ OneOwner'
  BY <1>u DEF HInv, Registered, OneOwner
<1> QED BY <1>m, <1>u, <1>1, <1>2, <1>3, DiskTidy

LEMMA RestoreRefTidy ==
  ASSUME IInv, KInv, HInv, NEW p \in Procs, RestoreRef(p)
  PROVE  Tidy(p)
<1> DEFINE b == Mine(p).branch
<1>m. /\ proc[p].pc = "ref_restore" /\ "ref_restore" \in RepoPcs /\ Continue(p)
      /\ proc \in [Procs -> ProcStates]
  BY RestoreRefMoves DEF RestoreRef, RepoPcs, AbortPcs, IInv, TypeOK
<1>u. UNCHANGED <<receipt, tree>>
  BY DEF RestoreRef
<1>w. proc'[p].pc = "ref_unclaim"
  BY <1>m, Went DEF RestoreRef
<1>1. ClaimKnown(p)'
  BY <1>w, ClaimKnowsNothing DEF ClaimPcs, AddingPcs
<1>2. Within(p)
  <2>1. ref'[b].sha = Source /\ \A c \in Branches : c # b => ref'[c] = ref[c]
    BY <1>m, BranchTyped DEF RestoreRef
  <2> QED BY <2>1, <1>u DEF Within
<1>3. Registered' /\ OneOwner'
  BY <1>u DEF HInv, Registered, OneOwner
<1> QED BY <1>m, <1>u, <1>1, <1>2, <1>3, DiskTidy

\* The branch that goes is at a commit that landed, and a claim never is.
LEMMA FinishRefTidy ==
  ASSUME IInv, KInv, HInv, NEW p \in Procs, FinishRef(p)
  PROVE  Tidy(p)
<1> DEFINE b == Mine(p).branch
<1>m. /\ proc[p].pc = "f_ref" /\ "f_ref" \in RepoPcs
      /\ proc \in [Procs -> ProcStates]
      /\ Continue(p) \/ Leave(p)
  BY FinishRefMoves DEF FinishRef, RepoPcs, IInv, TypeOK
<1>u. UNCHANGED <<receipt, tree>>
  BY DEF FinishRef
<1>w. proc'[p].pc \in {"idle", "f_deleted"}
  BY <1>m, Went DEF FinishRef, Exit, Idle
<1>k. proc'[p].pc \notin ClaimPcs
  BY <1>w DEF ClaimPcs, AddingPcs
<1>1. CASE ref' = ref
  BY <1>1, <1>u, <1>k, Unwritten, PassesBy
<1>2. CASE ref' # ref
  <2>1. /\ ref' = [ref EXCEPT ![b] = NoRef] /\ Goto(p, "f_deleted")
        /\ ref[b].sha \in {NoSha, Mine(p).approved}
    BY <1>2 DEF FinishRef, Exists
  <2>2. Continue(p)
    <3>1. proc'[p].pc = "f_deleted"
      BY <2>1, <1>m, Went
    <3> QED BY <3>1, <1>m DEF Leave, Exit, Idle
  <2>3. ref[b].sha # Source
    <3>1. Mine(p).approved \in landed \cup {NoSha}
      BY <1>m, BranchTyped DEF KInv, Approved, Mine
    <3> QED BY <3>1, <2>1, Values DEF HInv
  <2>4. Within(p)
    <3>1. \A c \in Branches : c # b => ref'[c] = ref[c]
      BY <2>1, <1>m, BranchTyped
    <3> QED BY <3>1, <2>3, <1>u DEF Within
  <2>5. Registered' /\ OneOwner'
    BY <1>u DEF HInv, Registered, OneOwner
  <2>6. ClaimKnown(p)'
    BY <1>k, ClaimKnowsNothing
  <2> QED BY <1>u, <2>2, <2>4, <2>5, <2>6, DiskTidy
<1> QED BY <1>1, <1>2

-----------------------------------------------------------------------------
(* What people do to worktrees and refs.                                   *)

\* They change what they can find, and check out only what nobody has.
LEMMA OutsideTrees ==
  ASSUME IInv, Meddling, NEW u \in Ids
  PROVE  \/ tree'[u] = tree[u]
         \/ Visible(u) /\ tree'[u] = NoTree
         \/ Visible(u) /\ tree'[u] \in {[tree[u] EXCEPT !.dirty = TRUE],
                                        [tree[u] EXCEPT !.head = NoBranch]}
         \/ /\ u = Foreign /\ tree[u] = NoTree /\ \A v \in Ids : v # u => tree'[v] = tree[v]
            /\ tree'[u].place \in {"target", "elsewhere"}
            /\ tree'[u].admin = "registered"
            /\ \E b \in Branches : tree'[u].head = b /\ Owners(b) = {}
<1>t. tree \in [Ids -> Trees]
  BY DEF IInv, TypeOK
<1>1. CASE \E v \in Ids : UserEdit(v) \/ UserDetach(v) \/ UserRemoveTree(v)
  BY <1>1, <1>t DEF UserEdit, UserDetach, UserRemoveTree
<1>2. ASSUME NEW b \in Branches, NEW l \in Lifecycles, UserAddTree(b, l)
      PROVE  \/ tree'[u] = tree[u]
             \/ /\ u = Foreign /\ tree[u] = NoTree
                /\ \A v \in Ids : v # u => tree'[v] = tree[v]
                /\ tree'[u].place \in {"target", "elsewhere"}
                /\ tree'[u].admin = "registered"
                /\ tree'[u].head = b /\ Owners(b) = {}
  <2>1. PICK place \in {"target", "elsewhere"} :
          tree' = [tree EXCEPT ![Foreign] =
            [NoTree EXCEPT !.place = place, !.admin = "registered", !.head = b,
                           !.life = IF place = "target" THEN l ELSE NoLife]]
    BY <1>2 DEF UserAddTree
  <2> DEFINE new == [NoTree EXCEPT !.place = place, !.admin = "registered", !.head = b,
                           !.life = IF place = "target" THEN l ELSE NoLife]
  <2>2. new.place = place /\ new.admin = "registered" /\ new.head = b
    BY DEF NoTree
  <2>3. tree[Foreign] = NoTree /\ Owners(b) = {}
    BY <1>2 DEF UserAddTree
  <2> QED BY <2>1, <2>2, <2>3, <1>t
<1>3. CASE tree' = tree
  BY <1>3
<1>4. \/ \E v \in Ids : UserEdit(v) \/ UserDetach(v) \/ UserRemoveTree(v)
      \/ \E b \in Branches, l \in Lifecycles : UserAddTree(b, l)
      \/ tree' = tree
  BY DEF Meddling, UserCommit, SetRef, UserDeleteBranch, UserCreateBranch, Land, disk
<1> QED BY <1>1, <1>2, <1>3, <1>4

LEMMA OutsideRefs ==
  ASSUME IInv, Meddling, "commit_in_claim" \notin Outside, NEW b \in Branches
  PROVE  \/ ref'[b] = ref[b]
         \/ /\ \E u \in Ids : Visible(u) /\ tree[u].head = b
            /\ ref'[b] = [id |-> Foreign, sha |-> meddles + 1]
         \/ Exists(b) /\ Owners(b) = {} /\ ref'[b] = NoRef
         \/ ~Exists(b) /\ ref'[b] = [id |-> Foreign, sha |-> Source]
<1>t. ref \in [Branches -> Refs]
  BY DEF IInv, TypeOK
<1>1. ASSUME NEW u \in Ids, UserCommit(u)
      PROVE  \/ ref'[b] = ref[b]
             \/ /\ Visible(u) /\ tree[u].head = b
                /\ ref'[b] = [id |-> Foreign, sha |-> meddles + 1]
  BY <1>1, <1>t DEF UserCommit, SetRef, Meddle
<1>2. CASE \E c \in Branches : UserDeleteBranch(c) \/ UserCreateBranch(c)
  BY <1>2, <1>t DEF UserDeleteBranch, UserCreateBranch, SetRef
<1>3. \/ \E u \in Ids : UserCommit(u)
      \/ \E c \in Branches : UserDeleteBranch(c) \/ UserCreateBranch(c)
      \/ ref' = ref
  BY DEF Meddling, UserDetach, UserEdit, UserRemoveTree, UserAddTree, Land, disk
<1> QED BY <1>1, <1>2, <1>3

LEMMA OutsideHInv ==
  ASSUME IInv, HInv, Meddling, "commit_in_claim" \notin Outside
  PROVE  HInv'
<1>t. /\ tree \in [Ids -> Trees] /\ NoTree.place = "none" /\ NoTree.admin = "none"
      /\ NoSha # Source /\ NoRef.sha = NoSha
  BY Values DEF IInv, TypeOK, NoTree, NoRef
<1>q. UNCHANGED <<receipt, proc>>
  BY OutsideMoves DEF Quiet
<1>1. ASSUME NEW u \in Ids
      PROVE  \/ tree'[u] = tree[u]
             \/ Visible(u) /\ tree'[u] = NoTree
             \/ /\ Visible(u) /\ tree'[u].admin = "registered"
                /\ tree'[u].place = tree[u].place /\ tree'[u].tok = tree[u].tok
                /\ tree'[u].head \in {tree[u].head, NoBranch}
             \/ /\ u = Foreign /\ tree'[u].place \in {"target", "elsewhere"}
                /\ \A v \in Ids : v # u => tree'[v] = tree[v]
                /\ tree'[u].admin = "registered"
                /\ \E b \in Branches : tree'[u].head = b /\ Owners(b) = {}
  BY OutsideTrees, <1>t DEF Trees, Visible
<1>2. Registered'
  BY <1>1, <1>t DEF HInv, Registered, Visible
<1>3. OneOwner'
  BY <1>1, <1>t DEF HInv, OneOwner, Visible, Owners
<1>4. ASSUME NEW l \in Lifecycles, receipt[l].phase = "rollback_claimed"
      PROVE  OnlyClaim(l)'
  <2> DEFINE t == receipt[l].token
             b == receipt[l].branch
  <2>1. OnlyClaim(l)
    BY <1>4 DEF HInv, ClaimsKept
  <2>2. t \in Ids /\ t # Foreign /\ b \in Branches
    BY <1>4, BoundsAssumption DEF IInv, TypeOK, Control, Named, Tokens, Ids, Foreign
  <2>3. tree'[t] = tree[t]
    BY <1>1, <2>1, <2>2 DEF OnlyClaim, Visible
  <2>4. {u \in Ids : tree'[u].place = "claim" /\ tree'[u].tok = t} \subseteq Claimed(t)
    BY <1>1, <1>t DEF Claimed
  <2>5. ASSUME tree[t].place = "claim" PROVE ref'[b] = ref[b]
    <3>1. /\ tree[t].admin = "registered" /\ tree[t].head = b /\ ref[b].sha = Source
          /\ b # NoBranch
      BY <2>1, <2>2, <2>5, NamesAssumption DEF OnlyClaim, OnSource, HInv, Registered
    <3>2. t \in Owners(b) /\ Exists(b)
      BY <3>1, <2>2, <1>t DEF Owners, Exists
    <3>3. \A u \in Ids : Visible(u) => tree[u].head # b
      BY <3>1, <2>2, <2>5 DEF HInv, OneOwner, Visible
    <3> QED BY <3>2, <3>3, <2>2, OutsideRefs
  <2> QED BY <1>q, <2>1, <2>2, <2>3, <2>4, <2>5 DEF OnlyClaim, Claimed, OnSource
<1>5. ASSUME NEW p \in Procs PROVE ClaimKnown(p)'
  <2> DEFINE t == Token(p)
             b == Mine(p).branch
  <2>1. ClaimKnown(p)
    BY DEF HInv
  <2>2. CASE proc[p].pc \in {"detach_admin", "dispose", "ref_detach"}
    <3>1. t \in Tokens /\ t \in Ids /\ t # Foreign /\ b \in Branches
      <4>1. proc[p].pc \in Making
        BY <2>2 DEF Making, AbortPcs
      <4>2. t \in Tokens /\ b \in Branches
        BY <4>1, Mined
      <4> QED BY <4>2 DEF Tokens, Ids, Foreign
    <3>2. tree[t].place \in {"none", "disposal"} => tree'[t].place \in {"none", "disposal"}
      BY <1>1, <1>t, <3>1 DEF Visible
    <3>3. Owners(b) \subseteq {Foreign}
            => {u \in Ids : tree'[u].admin = "registered" /\ tree'[u].head = b}
                  \subseteq {Foreign}
      BY <1>1, <1>t, <3>1, NamesAssumption DEF Visible, Owners
    <3> QED BY <1>q, <2>1, <2>2, <3>2, <3>3 DEF ClaimKnown, Owners, Mine, Token, AddingPcs
  <2>3. CASE proc[p].pc \notin {"detach_admin", "dispose", "ref_detach"}
    BY <1>q, <2>1, <2>3 DEF ClaimKnown, ownership_token, Mine
  <2> QED BY <2>2, <2>3
<1>6. Source \notin landed'
  <2>1. landed' = landed \/ \E b \in Branches : Land(b)
    BY DEF Meddling, Meddle, UserCommit, UserDetach, UserEdit, UserRemoveTree,
           UserAddTree, UserDeleteBranch, UserCreateBranch
  <2> QED BY <2>1 DEF HInv, Land
<1> QED BY <1>2, <1>3, <1>4, <1>5, <1>6, <1>q DEF HInv, ClaimsKept

LEMMA EveryTidy ==
  ASSUME IInv, KInv, HInv, [Next]_vars
  PROVE  (\E p \in Procs : Good(p) /\ Tidy(p)) \/ Meddling \/ UNCHANGED vars
<1>1. ASSUME NEW p \in Procs, Create(p) PROVE Good(p) /\ Tidy(p)
  <2>1. Tidy(p)
    BY <1>1, CreateReceiptTidy, CreateTidy, PrepareRefTidy, CommitRefTidy,
       AddWorktreeTidy, BindTokenTidy
    DEF Create
  <2> QED BY <1>1, <2>1, CreateGood
<1>2. ASSUME NEW p \in Procs, Abort(p) PROVE Good(p) /\ Tidy(p)
  <2>1. Tidy(p)
    BY <1>2, AbortTidy, ClaimWorktreeTidy, MoveToClaimTidy, VerifyClaimTidy,
       DetachTreeTidy, DetachAdminTidy, CheckRefTidy, DetachRefTidy, RestoreRefTidy
    DEF Abort
  <2> QED BY <1>2, <2>1, AbortGood
<1>3. ASSUME NEW p \in Procs, Finish(p) PROVE Good(p) /\ Tidy(p)
  <2>1. Tidy(p)
    BY <1>3, FinishTidy, GitRemoveTidy, FinishRefTidy DEF Finish
  <2> QED BY <1>3, <2>1, FinishGood
<1> QED BY <1>1, <1>2, <1>3, CrashGood, StartsGood, FinishTidy, StartsTidy DEF Next, Run

LEMMA InitHInv == Init => HInv
<1> SUFFICES ASSUME Init PROVE HInv
  OBVIOUS
<1>1. ASSUME NEW p \in Procs PROVE ClaimKnown(p)
  BY DEF Init, Idle, ClaimKnown, AddingPcs
<1>2. Registered /\ OneOwner /\ ClaimsKept /\ Source \notin landed
  BY DEF Init, NoTree, NoReceipt, Registered, OneOwner, ClaimsKept
<1> QED BY <1>1, <1>2 DEF HInv

LEMMA NextHInv ==
  ASSUME "commit_in_claim" \notin Outside
  PROVE  IInv /\ KInv /\ HInv /\ [Next]_vars => HInv'
<1> SUFFICES ASSUME IInv, KInv, HInv, [Next]_vars PROVE HInv'
  OBVIOUS
<1>1. Shape
  BY NextIInv
<1>2. CASE \E p \in Procs : Good(p) /\ Tidy(p)
  BY <1>1, <1>2, TidyStep
<1>3. CASE Meddling
  BY <1>3, OutsideHInv
<1>4. CASE UNCHANGED vars
  BY <1>4 DEF vars, HInv, Registered, OneOwner, ClaimsKept, OnlyClaim, Claimed,
              OnSource, ClaimKnown, ownership_token, Owners, Mine, Token
<1> QED BY <1>2, <1>3, <1>4, EveryTidy

\* A claim that a rollback journals is the attempt's own worktree and nothing
\* else, and its checkout goes before its administrative directory: whatever is
\* killed and whatever people change meanwhile, no checkout is left headless,
\* unless somebody commits in the claimed worktree.
THEOREM NothingHeadless ==
  ASSUME "commit_in_claim" \notin Outside
  PROVE  Spec => []NoHeadlessCheckout
<1>1. Spec => [](IInv /\ KInv /\ HInv)
  BY InitIInv, InitKInv, InitHInv, NextIInv, NextKInv, NextHInv, PTL DEF Spec
<1>2. HInv => NoHeadlessCheckout
  BY DEF HInv, Registered, NoHeadlessCheckout
<1> QED BY <1>1, <1>2, PTL

-----------------------------------------------------------------------------
(* What is left of an attempt, and which receipt names it.                 *)

Nothing(t) == tree[t].admin = "none" /\ tree[t].place = "none"
Names(t) == \E b \in Branches : ref[b].id = t \/ refLock[b] = t
Clean(t) == Nothing(t) /\ refClaim[t] = NoClaim /\ ~Names(t)

NamesExist == \A b \in Branches : ref[b].sha = NoSha => ref[b].id = Foreign

\* The worktree is where its phase looks for it, and still on its branch.
Home(l) ==
  LET t == receipt[l].token
      phase == receipt[l].phase
  IN
  \/ Nothing(t)
  \/ /\ tree[t].admin = "registered" /\ tree[t].head = receipt[l].branch
     /\ t \in At(l) \/ (t \in Claimed(t) /\ phase \notin FinishPhases)
  \/ phase = "rollback_claimed" /\ tree[t].place = "disposal"

\* The ref, its claim and its lock file are there only in the phases that look
\* for them.
Trace(l) ==
  LET t == receipt[l].token
      b == receipt[l].branch
      phase == receipt[l].phase
  IN
  /\ \A c \in Branches : ref[c].id = t \/ refLock[c] = t => c = b
  /\ receipt[l].alloc = "unstarted" => Clean(t)
  /\ refClaim[t] \in {t, Foreign, NoClaim}
  /\ refClaim[t] # NoClaim => phase \in RefPhases \ {"rollback_ref_removed"}
  /\ refLock[b] = t => phase \in RefPhases
  /\ phase = "rollback_ref_removed" => Nothing(t) /\ ref[b].id # t

Kept == \A l \in Lifecycles : receipt[l].phase # "none" => Home(l) /\ Trace(l)

BranchPcs == {"ref_lock"} \cup LockedPcs
OwnPcs == {"ref_lock", "ref_check", "ref_detach"}
BarePcs == {"ref_detach", "ref_recheck", "ref_drop", "ref_gone", "ref_release"}
ResidueKnown(p) ==
  LET t == Token(p)
      b == Mine(p).branch
      pc == proc[p].pc
      phase == Mine(p).phase
  IN
  /\ pc \in CreatePcs \ {"c_lock"} => phase \in {"allocating", "bootstrap_pending"}
  /\ pc \in {"c_commit", "c_journal", "c_add"} => Mine(p).alloc # "unstarted"
  /\ pc = "journal_removed" => Nothing(t) /\ phase \notin AfterTree
  /\ pc = "branch" /\ phase = "rollback_claimed" => proc[p].residue
  /\ pc \in BranchPcs => Mine(p).alloc # "unstarted"
  /\ pc \in BranchPcs \ {"ref_release"}
       => phase \in RefPhases \ {"rollback_ref_removed"}
  /\ pc \in OwnPcs => ref[b].id \in {t, Foreign}
  /\ pc \in BarePcs => Nothing(t)
  /\ pc = "ref_gone" => refClaim[t] = NoClaim
  /\ pc = "ref_gone" \/ pc = "f_forget" => ref[b].id # t
  /\ pc = "ref_release" => phase = "rollback_ref_removed"
  /\ pc = "settle" /\ ~proc[p].residue => Clean(t)

RInv ==
  /\ ResidueIsReceipted /\ NamesExist /\ Kept
  /\ \A p \in Procs : ResidueKnown(p)

-----------------------------------------------------------------------------
(* What a step of p has to show of its own receipt, and what it leaves of  *)
(* the others'.                                                            *)

\* It touches the worktrees at its target and its claim, and gives no name to
\* a token but its own.
Spares(p) ==
  /\ \A u \in Tokens : \/ u = Token(p) \/ tree'[u] = tree[u]
                       \/ u \in At(proc[p].life) \/ u \in Claimed(Token(p))
  /\ \A c \in Branches : ref'[c] = ref[c] \/ ref'[c].id \in {Token(p), Foreign}
  /\ \A c \in Branches : refLock'[c] \in {refLock[c], Token(p), Free}
  /\ \A u \in Tokens : u # Token(p) => refClaim'[u] = refClaim[u]
Receipted(p) ==
  /\ Spares(p) /\ NamesExist' /\ ResidueKnown(p)'
  /\ proc[p].pc = "idle" => UNCHANGED disk
  /\ proc[p].pc \notin Making => UNCHANGED refClaim
  /\ \A l \in Lifecycles : l # proc[p].life => receipt'[l] = receipt[l]
  /\ \A l \in Lifecycles : l = proc[p].life =>
       /\ receipt'[l].phase # "none" => Home(l)' /\ Trace(l)'
       /\ \A t \in Tokens : receipt[l].token = t => receipt'[l].token = t \/ Clean(t)'

\* A process that has a receipt to write, and what is known of its residue.
HasReceipt(p) ==
  \/ proc[p].pc \in Making \cup Finishing
  \/ proc[p].pc = "f_lock" /\ Mine(p).phase # "none"

LEMMA Own ==
  ASSUME IInv, RInv, NEW p \in Procs, HasReceipt(p), NEW l, l = proc[p].life
  PROVE  /\ l \in Lifecycles /\ receipt[l] \in Receipts /\ receipt \in [Lifecycles -> Receipts]
         /\ Mine(p) = receipt[l] /\ Token(p) = receipt[l].token
         /\ Token(p) \in Tokens /\ Token(p) \in Ids
         /\ Token(p) # Foreign /\ Token(p) # Free /\ Token(p) # NoClaim
         /\ receipt[l].branch \in Branches
         /\ receipt[l].phase \in CREATION_PHASES \cup FinishPhases
         /\ Home(l) /\ Trace(l) /\ ResidueKnown(p)
<1>1. /\ l \in Lifecycles /\ receipt[l] \in Receipts
      /\ receipt \in [Lifecycles -> Receipts]
      /\ Mine(p) = receipt[l] /\ Token(p) = receipt[l].token
      /\ receipt[l].phase \in CREATION_PHASES \cup FinishPhases
  <2>1. CASE proc[p].pc \in Making \cup Finishing
    BY <2>1, Mined
  <2>2. CASE proc[p].pc = "f_lock" /\ Mine(p).phase # "none"
    BY <2>2 DEF IInv, TypeOK, Control, LockDiscipline, Receipts, LIFECYCLE_PHASES,
                Mine, Token
  <2> QED BY <2>1, <2>2 DEF HasReceipt
<1>2. receipt[l].branch \in Branches /\ Token(p) \in Tokens
  BY <1>1, Kinds, BoundsAssumption DEF IInv, TypeOK, Control, Named, Tokens
<1>3. Token(p) \in Ids /\ Token(p) # Foreign /\ Token(p) # Free /\ Token(p) # NoClaim
  BY <1>2, BoundsAssumption DEF Tokens, Ids, Foreign, Free, NoClaim
<1>4. Home(l) /\ Trace(l) /\ ResidueKnown(p)
  BY <1>1, Kinds DEF RInv, Kept
<1> QED BY <1>1, <1>2, <1>3, <1>4

LEMMA TraceStands ==
  ASSUME NEW l \in Lifecycles, NEW t, NEW b \in Branches,
         receipt[l].token = t, receipt[l].branch = b, Trace(l),
         receipt'[l].token = t, receipt'[l].branch = b,
         \A c \in Branches : c # b => /\ ref'[c].id = t => ref[c].id = t
                                      /\ refLock'[c] = t => refLock[c] = t,
         refClaim'[t] \in {t, Foreign, NoClaim},
         receipt'[l].alloc = "unstarted"
           => receipt[l].alloc = "unstarted" /\ (Clean(t) => Clean(t)'),
         refClaim'[t] # NoClaim => receipt'[l].phase \in RefPhases \ {"rollback_ref_removed"},
         refLock'[b] = t => receipt'[l].phase \in RefPhases,
         receipt'[l].phase = "rollback_ref_removed" => Nothing(t)' /\ ref'[b].id # t
  PROVE  Trace(l)'
  BY DEF Trace

LEMMA HomeStands ==
  ASSUME NEW l \in Lifecycles, NEW t, receipt[l].token = t,
         receipt'[l].token = t, receipt'[l].branch = receipt[l].branch,
         Home(l), tree'[t] = tree[t],
         receipt[l].phase = "rollback_claimed" /\ receipt'[l].phase # "rollback_claimed"
           => tree[t].place # "disposal",
         receipt'[l].phase \in FinishPhases
           => receipt[l].phase \in FinishPhases \/ tree[t].place # "claim"
  PROVE  Home(l)'
  BY DEF Home, Nothing, At, Claimed

\* A token nobody gives a name to and whose worktree stands stays clean.
LEMMA CleanStands ==
  ASSUME NEW t, Clean(t), tree'[t] = tree[t], refClaim'[t] = refClaim[t],
         \A c \in Branches : /\ ref'[c].id = t => ref[c].id = t
                             /\ refLock'[c] = t => refLock[c] = t
  PROVE  Clean(t)'
  BY DEF Clean, Nothing, Names

LEMMA OthersResidue ==
  ASSUME IInv, RInv, NEW p \in Procs, Spares(p), NEW l \in Lifecycles,
         receipt'[l] = receipt[l], receipt[l].phase # "none",
         receipt[l].token # Token(p), l # proc[p].life
  PROVE  Home(l)' /\ Trace(l)'
<1> DEFINE t == receipt[l].token
           b == receipt[l].branch
<1>1. /\ t \in Tokens /\ t \in Ids /\ t # Foreign /\ t # Free /\ b \in Branches
      /\ Home(l) /\ Trace(l)
  BY BoundsAssumption
  DEF IInv, TypeOK, Control, Named, Tokens, Ids, Foreign, Free, RInv, Kept
<1>2. tree'[t] = tree[t]
  BY <1>1 DEF Home, Nothing, Spares, At, Claimed
<1>3. /\ refClaim'[t] = refClaim[t]
      /\ \A c \in Branches : /\ ref'[c].id = t => ref[c].id = t
                             /\ refLock'[c] = t => refLock[c] = t
  BY <1>1 DEF Spares
<1>4. Home(l)'
  BY <1>1, <1>2, HomeStands
<1>5. Clean(t) => {c \in Branches : ref'[c].id = t \/ refLock'[c] = t} = {}
  BY <1>3 DEF Clean, Names
<1>6. Trace(l)'
  BY <1>1, <1>2, <1>3, <1>5 DEF Trace, Clean, Nothing, Names
<1> QED BY <1>4, <1>6

LEMMA AllClean ==
  ResidueIsReceipted
    <=> \A t \in Tokens : Clean(t) \/ \E l \in Lifecycles : receipt[l].token = t
  BY DEF ResidueIsReceipted, Clean, Nothing, Names

LEMMA ResidueStep ==
  ASSUME IInv, KInv, RInv, Shape, NEW p \in Procs, Good(p), Receipted(p)
  PROVE  RInv'
<1>a. Apart(p)
  BY DEF Good
<1>1. ASSUME NEW q \in Procs PROVE ResidueKnown(q)'
  <2>1. CASE q = p
    BY <2>1 DEF Receipted
  <2>2. CASE q # p /\ proc[q].pc \in RepoPcs
    <3> DEFINE t == Token(q)
    <3>1. /\ proc'[q] = proc[q] /\ UNCHANGED <<ref, refLock, tree>>
          /\ receipt'[proc[q].life] = receipt[proc[q].life]
      BY <1>a, <2>2, OthersStand
    <3>2. t \in Tokens /\ refClaim'[t] = refClaim[t]
      <4>1. t \in Tokens /\ proc[q].pc \in Held
        BY <2>2, AtWork, Mined, Kinds
      <4>2. CASE proc[p].pc \in Making
        <5>1. proc[p].life # proc[q].life
          BY <2>2, <4>1, <4>2, Alone, Kinds
        <5>2. Token(p) # t
          BY <2>2, <5>1, <4>2, AtWork, Mined, Kinds DEF IInv, Control, Distinct
        <5> QED BY <4>1, <5>2 DEF Receipted, Spares
      <4> QED BY <4>1, <4>2 DEF Receipted
    <3>3. ResidueKnown(q)
      BY DEF RInv
    <3>4. Clean(t) => Clean(t)'
      BY <3>1, <3>2 DEF Clean, Nothing, Names, Token, Mine
    <3> QED BY <3>1, <3>2, <3>3, <3>4, SMTT(30) DEF ResidueKnown, Mine, Token, Nothing
  <2>3. CASE q # p /\ proc[q].pc \notin RepoPcs
    <3>1. proc'[q] = proc[q]
      BY <2>3, <1>a DEF Apart
    <3>2. CASE proc[q].pc \in CreatePcs \ {"c_lock"}
      <4>1. proc[q].life \in Lifecycles /\ lifeLock[proc[q].life] = q
        BY <3>2, Kinds DEF IInv, Control, LockDiscipline, Making
      <4>2. receipt'[proc[q].life] = receipt[proc[q].life]
        BY <3>1, <4>1, KeepsStep
      <4>3. Mine(q).phase \in {"allocating", "bootstrap_pending"}
        BY <3>2 DEF RInv, ResidueKnown
      <4> QED BY <2>3, <3>1, <4>2, <4>3
              DEF ResidueKnown, Mine, RepoPcs, AbortPcs, BranchPcs, LockedPcs, OwnPcs,
                  BarePcs
    <3>3. CASE proc[q].pc \notin CreatePcs \ {"c_lock"}
      BY <2>3, <3>1, <3>3
      DEF ResidueKnown, CreatePcs, RepoPcs, AbortPcs, BranchPcs, LockedPcs, OwnPcs, BarePcs
    <3> QED BY <3>2, <3>3
  <2> QED BY <2>1, <2>2, <2>3
<1>2. CASE proc[p].pc = "idle"
  <2>1. UNCHANGED disk
    BY <1>2 DEF Receipted
  <2>2. ResidueIsReceipted' /\ NamesExist' /\ Kept'
    BY <2>1 DEF disk, RInv, ResidueIsReceipted, NamesExist, Kept, Home, Trace,
                Nothing, Clean, Names, At, Claimed
  <2> QED BY <1>1, <2>2 DEF RInv
<1>3. CASE proc[p].pc # "idle"
  <2> DEFINE m == proc[p].life
  <2>1. m \in Lifecycles /\ Token(p) = receipt[m].token
    BY <1>3 DEF IInv, Control, LockDiscipline, Token, Mine
  <2>2. ASSUME NEW l \in Lifecycles, receipt'[l].phase # "none"
        PROVE  Home(l)' /\ Trace(l)'
    <3>1. CASE l = m
      BY <3>1, <2>2 DEF Receipted
    <3>2. CASE l # m
      <4>1. receipt'[l] = receipt[l]
        BY <3>2 DEF Receipted
      <4>2. receipt[l].token # Token(p)
        BY <2>1, <2>2, <3>2, <4>1
        DEF IInv, Control, Distinct, Named, KInv, Blank, Foreign
      <4> QED BY <2>2, <3>2, <4>1, <4>2, OthersResidue DEF Receipted
    <3> QED BY <3>1, <3>2
  <2>3. ASSUME NEW t \in Tokens
        PROVE  Clean(t)' \/ \E l \in Lifecycles : receipt'[l].token = t
    <3>1. CASE t = Token(p)
      BY <2>1, <3>1 DEF Receipted
    <3>2. CASE t # Token(p) /\ Clean(t)
      <4>1. /\ tree'[t] = tree[t] /\ refClaim'[t] = refClaim[t]
            /\ \A c \in Branches : /\ ref'[c].id = t => ref[c].id = t
                                   /\ refLock'[c] = t => refLock[c] = t
        BY <3>2 DEF Receipted, Spares, Clean, Nothing, At, Claimed, Tokens, Foreign, Free
      <4> QED BY <3>2, <4>1, CleanStands
    <3>3. CASE t # Token(p) /\ ~Clean(t)
      <4>1. PICK l \in Lifecycles : receipt[l].token = t
        BY <3>3, AllClean DEF RInv
      <4>2. l # m
        BY <2>1, <3>3, <4>1
      <4> QED BY <4>1, <4>2 DEF Receipted
    <3> QED BY <3>1, <3>2, <3>3
  <2>4. ResidueIsReceipted'
    BY <2>3 DEF ResidueIsReceipted, Clean, Nothing, Names
  <2> QED BY <1>1, <2>2, <2>4 DEF RInv, Kept, Receipted
<1> QED BY <1>2, <1>3

-----------------------------------------------------------------------------
(* The steps that write at most the receipt.                               *)

ResiduePcs ==
  (CreatePcs \ {"c_lock"}) \cup BranchPcs
    \cup {"journal_removed", "branch", "settle", "f_forget"}

LEMMA ResidueKnowsNothing ==
  ASSUME NEW p \in Procs, proc'[p].pc \notin ResiduePcs
  PROVE  ResidueKnown(p)'
  BY DEF ResiduePcs, CreatePcs, BranchPcs, LockedPcs, OwnPcs, BarePcs, ResidueKnown

LEMMA Unaltered ==
  ASSUME RInv, NEW p \in Procs, UNCHANGED disk, ResidueKnown(p)'
  PROVE  Receipted(p)
<1>1. Spares(p) /\ NamesExist'
  BY DEF disk, Spares, RInv, NamesExist
<1>2. ASSUME NEW l \in Lifecycles, receipt'[l].phase # "none"
      PROVE  Home(l)' /\ Trace(l)'
  <2>1. Home(l) /\ Trace(l)
    BY <1>2 DEF disk, RInv, Kept
  <2> QED BY <2>1 DEF disk, Home, Trace, Nothing, Clean, Names, At, Claimed
<1> QED BY <1>1, <1>2 DEF Receipted, disk

\* A receipt of p that is written over, and the residue its new phase allows.
Allows(p, r) ==
  LET t == Token(p)
      b == Mine(p).branch
      phase == Mine(p).phase
  IN
  /\ r.token = t /\ r.branch = b
  /\ r.alloc = "unstarted" => Mine(p).alloc = "unstarted"
  /\ phase = "rollback_claimed" /\ r.phase # "rollback_claimed"
       => tree[t].place # "disposal"
  /\ r.phase \in FinishPhases => phase \in FinishPhases \/ tree[t].place # "claim"
  /\ refClaim[t] # NoClaim => r.phase \in RefPhases \ {"rollback_ref_removed"}
  /\ refLock[b] = t => r.phase \in RefPhases
  /\ r.phase = "rollback_ref_removed" => Nothing(t) /\ ref[b].id # t

LEMMA Rewritten ==
  ASSUME IInv, RInv, NEW p \in Procs, HasReceipt(p),
         UNCHANGED <<ref, refLock, refClaim, tree>>, ResidueKnown(p)',
         NEW r, receipt' = [receipt EXCEPT ![proc[p].life] = r], Allows(p, r)
  PROVE  Receipted(p)
<1> DEFINE b == Mine(p).branch
<1>t. PICK t : t = Token(p)
  OBVIOUS
<1>1. Spares(p) /\ NamesExist'
  BY DEF Spares, RInv, NamesExist
<1>2. proc[p].pc # "idle"
  BY DEF HasReceipt, Making, Finishing, CreatePcs, AbortPcs, FinishPcs
<1>3. ASSUME NEW l \in Lifecycles, l = proc[p].life
      PROVE  Home(l)' /\ Trace(l)' /\ receipt'[l].token = receipt[l].token
  <2>1. /\ Mine(p) = receipt[l] /\ t = receipt[l].token /\ t \in Tokens
        /\ receipt \in [Lifecycles -> Receipts] /\ Home(l) /\ Trace(l) /\ b \in Branches
    BY <1>3, <1>t, Own
  <2>2. receipt'[l] = r
    BY <1>3, <2>1
  <2>3. Home(l)'
    BY <2>1, <2>2, <1>t, HomeStands DEF Allows
  <2>4. Clean(t) => Clean(t)'
    BY CleanStands
  <2>5. refClaim'[t] \in {t, Foreign, NoClaim}
    BY <2>1 DEF Trace
  <2>6. r.phase = "rollback_ref_removed" => Nothing(t)'
    BY <2>1, <2>2, <1>t DEF Allows, Nothing
  <2>7. Trace(l)'
    BY <2>1, <2>2, <2>4, <2>5, <2>6, <1>t, TraceStands, ZenonT(60) DEF Allows
  <2> QED BY <2>1, <2>2, <2>3, <2>7, <1>t DEF Allows
<1>4. \A l \in Lifecycles : l # proc[p].life => receipt'[l] = receipt[l]
  BY DEF IInv, TypeOK
<1> QED BY <1>1, <1>2, <1>3, <1>4 DEF Receipted

\* A phase that allows what the last one allowed.
LEMMA AllowsPhase ==
  ASSUME IInv, RInv, NEW p \in Procs, HasReceipt(p),
         NEW r \in Receipts, r.token = Token(p), r.branch = Mine(p).branch,
         r.alloc = "unstarted" => Mine(p).alloc = "unstarted",
         \/ r.phase = Mine(p).phase
         \/ /\ Mine(p).phase = "rollback_claimed" => tree[Token(p)].place # "disposal"
            /\ r.phase \in FinishPhases
                 => Mine(p).phase \in FinishPhases \/ tree[Token(p)].place # "claim"
            /\ Mine(p).phase \in RefPhases
                 => r.phase \in RefPhases /\ Mine(p).phase # "rollback_ref_removed"
            /\ r.phase # "rollback_ref_removed"
  PROVE  Allows(p, r)
<1> PICK l : l = proc[p].life
  OBVIOUS
<1>1. /\ Mine(p) = receipt[l] /\ Token(p) = receipt[l].token
      /\ Home(l) /\ Trace(l)
  BY Own
<1> QED BY <1>1 DEF Allows, Trace

LEMMA AwayReceipted ==
  ASSUME IInv, RInv, NEW p \in Procs, UNCHANGED disk,
         proc'[p].pc \notin ResiduePcs
  PROVE  Receipted(p)
  BY Unaltered, ResidueKnowsNothing

LEMMA StartsReceipted ==
  ASSUME IInv, RInv, NEW p \in Procs, NEW l \in Lifecycles,
         CreateStart(p, l) \/ RecoverStart(p, l) \/ FinishStart(p, l)
  PROVE  Receipted(p)
<1>1. UNCHANGED disk
  BY DEF CreateStart, RecoverStart, FinishStart
<1>2. proc'[p].pc \in {"c_lock", "r_lock", "f_lock"}
  BY DEF CreateStart, RecoverStart, FinishStart, IInv, TypeOK, ProcStates
<1>3. proc'[p].pc \notin ResiduePcs
  BY <1>2 DEF ResiduePcs, CreatePcs, BranchPcs, LockedPcs
<1> QED BY <1>1, <1>3, AwayReceipted

LEMMA LocksReceipted ==
  ASSUME IInv, RInv, NEW p \in Procs,
         CreateRefused(p) \/ UndoBootstrap(p) \/ RecoverLock(p)
           \/ FinishAgain(p) \/ Crash(p)
  PROVE  Receipted(p)
<1>1. UNCHANGED disk
  BY DEF CreateRefused, UndoBootstrap, RecoverLock, FinishAgain, Crash
<1>2. proc'[p].pc \in {"idle", "claim", "f_resume"}
  BY Went DEF CreateRefused, UndoBootstrap, RecoverLock, FinishAgain, Crash, Exit,
              Idle, IInv, TypeOK
<1>3. proc'[p].pc \notin ResiduePcs
  BY <1>2 DEF ResiduePcs, CreatePcs, BranchPcs, LockedPcs
<1> QED BY <1>1, <1>3, AwayReceipted

LEMMA BootstrapReceipted ==
  ASSUME IInv, RInv, NEW p \in Procs, Bootstrap(p)
  PROVE  Receipted(p)
<1>1. UNCHANGED disk /\ proc[p].pc = "c_boot" /\ Continue(p)
  BY BootstrapMoves DEF Bootstrap
<1>2. proc'[p].pc \in {"c_final", "c_undo"}
  BY Went DEF Bootstrap, IInv, TypeOK
<1>3. Mine(p)' = Mine(p) /\ Mine(p).phase \in {"allocating", "bootstrap_pending"}
  BY <1>1, Onward DEF disk, Mine, RInv, ResidueKnown, CreatePcs
<1>4. ResidueKnown(p)'
  BY <1>2, <1>3 DEF ResidueKnown, BranchPcs, LockedPcs, OwnPcs, BarePcs
<1> QED BY <1>1, <1>4, Unaltered

\* A token that is drawn is a new one: nothing has its name yet.
LEMMA CreateReceiptReceipted ==
  ASSUME IInv, KInv, RInv, NEW p \in Procs, NEW b \in Branches, CreateReceipt(p, b)
  PROVE  Receipted(p)
<1> DEFINE r == [NoReceipt EXCEPT !.phase = "allocating", !.branch = b,
                                  !.token = attempts + 1]
<1>n. PICK n : n = attempts + 1
  OBVIOUS
<1>t. /\ proc \in [Procs -> ProcStates] /\ proc[p].life \in Lifecycles
      /\ receipt \in [Lifecycles -> Receipts] /\ attempts \in 0 .. MaxAttempts
  BY Kinds DEF CreateReceipt, IInv, TypeOK, Control, LockDiscipline
<1>1. /\ receipt' = [receipt EXCEPT ![proc[p].life] = r]
      /\ UNCHANGED <<ref, refLock, refClaim, tree>>
      /\ proc[p].pc = "c_lock" /\ Mine(p).phase = "none" /\ attempts < MaxAttempts
  BY DEF CreateReceipt
<1>2. r.phase = "allocating" /\ r.branch = b /\ r.token = n /\ r.alloc = "unstarted"
  BY <1>n DEF NoReceipt
<1>3. Clean(n) /\ n \in Tokens /\ n # Free
  <2>1. n \in Tokens /\ n # Foreign /\ n # Free /\ n \notin 1 .. attempts
    BY <1>1, <1>n, <1>t, BoundsAssumption DEF Tokens, Foreign, Free
  <2>2. \A l \in Lifecycles : receipt[l].token # n
    BY <2>1 DEF IInv, Control, Named, KInv, Blank
  <2> QED BY <2>1, <2>2, AllClean DEF RInv
<1>4. Spares(p) /\ NamesExist'
  BY <1>1 DEF Spares, RInv, NamesExist
<1>5. ASSUME NEW l \in Lifecycles, l = proc[p].life
      PROVE  Home(l)' /\ Trace(l)' /\ receipt[l].token = Foreign
  <2>1. receipt'[l] = r
    BY <1>1, <1>5, <1>t
  <2>2. Clean(n)'
    BY <1>1, <1>3 DEF Clean, Nothing, Names
  <2>3. Home(l)'
    BY <2>1, <2>2, <1>2 DEF Home, Clean
  <2>4. Trace(l)'
    BY <2>1, <2>2, <1>2 DEF Trace, Clean, Names
  <2> QED BY <2>3, <2>4, <1>1, <1>5 DEF KInv, Blank, Mine
<1>6. ResidueKnown(p)'
  <2>1. proc'[p].pc = "c_prepare" /\ proc'[p].life = proc[p].life
    BY <1>t DEF CreateReceipt, Goto, ProcStates
  <2>2. Mine(p)'.phase = "allocating"
    BY <2>1, <1>1, <1>2, <1>t DEF Mine
  <2> QED BY <2>1, <2>2 DEF ResidueKnown, BranchPcs, LockedPcs, OwnPcs, BarePcs
<1>7. \A t \in Tokens : t # Foreign
  BY DEF Tokens, Foreign
<1>8. \A l \in Lifecycles : l # proc[p].life => receipt'[l] = receipt[l]
  BY <1>1, <1>t
<1> QED BY <1>1, <1>4, <1>5, <1>6, <1>7, <1>8 DEF Receipted

LEMMA PrepareRefReceipted ==
  ASSUME IInv, KInv, HInv, RInv, NEW p \in Procs, PrepareRef(p) \/ JournalCommit(p)
  PROVE  Receipted(p)
<1>m. /\ proc[p].pc \in {"c_prepare", "c_journal"} /\ Continue(p)
      /\ proc \in [Procs -> ProcStates]
  BY PrepareRefMoves, JournalCommitMoves DEF PrepareRef, JournalCommit, IInv, TypeOK
<1>o. /\ HasReceipt(p) /\ Mine(p) \in Receipts
      /\ Token(p) = Mine(p).token /\ proc[p].life \in Lifecycles
      /\ receipt \in [Lifecycles -> Receipts] /\ Mine(p) = receipt[proc[p].life]
      /\ ResidueKnown(p)
  BY <1>m, Onward, Own DEF HasReceipt
<1>u. UNCHANGED <<ref, refLock, refClaim, tree>>
  BY DEF PrepareRef, JournalCommit
<1>c. /\ Mine(p).phase \in {"allocating", "bootstrap_pending"}
      /\ proc[p].pc = "c_journal" => Mine(p).alloc # "unstarted"
  BY <1>m, <1>o DEF ResidueKnown, CreatePcs
<1>1. PICK r \in Receipts :
        /\ receipt' = [receipt EXCEPT ![proc[p].life] = r]
        /\ r.token = Token(p) /\ r.branch = Mine(p).branch /\ r.phase = Mine(p).phase
        /\ r.alloc = Mine(p).alloc \/ r.alloc # "unstarted"
        /\ proc'[p].pc \in {"c_commit", "c_add"} => r.alloc # "unstarted"
  <2>1. CASE receipt' = receipt /\ Goto(p, "claim")
    <3>1. proc'[p].pc = "claim"
      BY <1>m, <2>1, Went
    <3>2. receipt' = [receipt EXCEPT ![proc[p].life] = Mine(p)]
      BY <1>o, <2>1
    <3> QED BY <3>1, <3>2, <1>o
  <2>2. ASSUME NEW a \in {"prepared", "committed"},
               receipt' = [receipt EXCEPT ![proc[p].life].alloc = a]
        PROVE  \E r \in Receipts :
                 /\ receipt' = [receipt EXCEPT ![proc[p].life] = r]
                 /\ r.token = Token(p) /\ r.branch = Mine(p).branch
                 /\ r.phase = Mine(p).phase /\ r.alloc = a
    <3> DEFINE r == [Mine(p) EXCEPT !.alloc = a]
    <3>1. /\ r \in Receipts /\ r.alloc = a
          /\ r.token = Token(p) /\ r.branch = Mine(p).branch /\ r.phase = Mine(p).phase
      BY <1>o DEF Receipts
    <3>2. receipt' = [receipt EXCEPT ![proc[p].life] = r]
      BY <2>2, <1>o
    <3> QED BY <3>1, <3>2
  <2>3. \/ receipt' = receipt /\ Goto(p, "claim")
        \/ \E a \in {"prepared", "committed"} :
             receipt' = [receipt EXCEPT ![proc[p].life].alloc = a]
    BY DEF PrepareRef, JournalCommit
  <2> QED BY <2>1, <2>2, <2>3
<1>2. Allows(p, r)
  BY <1>1, <1>o, AllowsPhase
<1>3. ResidueKnown(p)'
  <2>1. proc'[p].pc \in {"claim", "c_commit", "c_add"}
    BY <1>m, Went DEF PrepareRef, JournalCommit
  <2>2. Mine(p)' = r
    BY <1>m, <1>o, <1>1, Onward
  <2> QED BY <2>1, <2>2, <1>1, <1>c
          DEF ResidueKnown, CreatePcs, BranchPcs, LockedPcs, OwnPcs, BarePcs
<1> QED BY <1>u, <1>o, <1>1, <1>2, <1>3, Rewritten

\* A step that writes at most the phase.
LEMMA PhaseReceipted ==
  ASSUME IInv, RInv, NEW p \in Procs, HasReceipt(p),
         UNCHANGED <<ref, refLock, refClaim, tree>>, ResidueKnown(p)',
         NEW f \in LIFECYCLE_PHASES, Write(p, f),
         Mine(p).phase = "rollback_claimed" => tree[Token(p)].place # "disposal",
         f \in FinishPhases
           => Mine(p).phase \in FinishPhases \/ tree[Token(p)].place # "claim",
         Mine(p).phase \in RefPhases
           => f \in RefPhases /\ Mine(p).phase # "rollback_ref_removed",
         f # "rollback_ref_removed"
  PROVE  Receipted(p)
<1> DEFINE r == [Mine(p) EXCEPT !.phase = f]
<1>1. /\ Mine(p) \in Receipts /\ proc[p].life \in Lifecycles
      /\ receipt \in [Lifecycles -> Receipts] /\ Mine(p) = receipt[proc[p].life]
      /\ Token(p) = Mine(p).token
  BY Own
<1>2. /\ r \in Receipts /\ r.token = Token(p) /\ r.branch = Mine(p).branch
      /\ r.alloc = Mine(p).alloc /\ r.phase = f
  BY <1>1 DEF Receipts
<1>3. receipt' = [receipt EXCEPT ![proc[p].life] = r]
  BY <1>1 DEF Write
<1>4. Allows(p, r)
  BY <1>2, AllowsPhase
<1> QED BY <1>3, <1>4, Rewritten

\* What a phase that is written leaves of the receipt.
LEMMA OwnPhase ==
  ASSUME IInv, RInv, NEW p \in Procs, HasReceipt(p), NEW f, Write(p, f),
         proc'[p].life = proc[p].life
  PROVE  /\ Mine(p)'.phase = f /\ Mine(p)'.alloc = Mine(p).alloc
         /\ Mine(p)'.branch = Mine(p).branch /\ Token(p)' = Token(p)
  BY Own DEF Write, Mine, Token, Receipts

\* A worktree that is handed over is at its target.
LEMMA VerifiedReceipted ==
  ASSUME IInv, RInv, NEW p \in Procs, VerifyWorktree(p) \/ FinalVerify(p)
  PROVE  Receipted(p)
<1> PICK l : l = proc[p].life
  OBVIOUS
<1>m. /\ proc[p].pc \in {"c_verify", "c_final"} /\ proc \in [Procs -> ProcStates]
      /\ HasReceipt(p)
  BY DEF VerifyWorktree, FinalVerify, IInv, TypeOK, HasReceipt, Making, CreatePcs
<1>c. Mine(p).phase \in {"allocating", "bootstrap_pending"}
  BY <1>m, Own DEF ResidueKnown, CreatePcs
<1>u. UNCHANGED <<ref, refLock, refClaim, tree>>
  BY DEF VerifyWorktree, FinalVerify
<1>p. /\ {"created", "bootstrap_pending"} \subseteq LIFECYCLE_PHASES
      /\ "bootstrap_pending" \notin FinishPhases
      /\ Mine(p).phase \notin RefPhases
  BY <1>c DEF LIFECYCLE_PHASES, CREATION_PHASES, FinishPhases, RefPhases, AfterTree
<1>1. CASE Goto(p, "claim") /\ UNCHANGED receipt
  <2>1. proc'[p].pc = "claim"
    BY <1>1, <1>m, Went
  <2> QED BY <1>1, <1>u, <2>1, AwayReceipted
          DEF disk, ResiduePcs, CreatePcs, BranchPcs, LockedPcs
<1>2. CASE Write(p, "created") /\ Exit(p) /\ At(l) = {Token(p)}
  <2>1. proc'[p].pc = "idle"
    BY <1>2, <1>m DEF Exit, Idle
  <2>2. ResidueKnown(p)'
    BY <2>1, ResidueKnowsNothing DEF ResiduePcs, CreatePcs, BranchPcs, LockedPcs
  <2>3. tree[Token(p)].place # "claim"
    BY <1>2 DEF At
  <2> QED BY <1>2, <1>m, <1>c, <1>u, <1>p, <2>2, <2>3, PhaseReceipted
<1>3. CASE Write(p, "bootstrap_pending") /\ Goto(p, "c_boot")
  <2>1. proc'[p].pc = "c_boot" /\ proc'[p].life = proc[p].life
    BY <1>3, <1>m, Went DEF Goto, ProcStates
  <2>2. Mine(p)'.phase = "bootstrap_pending"
    BY <1>3, <1>m, <2>1, OwnPhase
  <2>3. ResidueKnown(p)'
    BY <2>1, <2>2 DEF ResidueKnown, BranchPcs, LockedPcs, OwnPcs, BarePcs
  <2> QED BY <1>3, <1>m, <1>c, <1>u, <1>p, <2>3, PhaseReceipted
<1> QED BY <1>1, <1>2, <1>3 DEF VerifyWorktree, FinalVerify

\* A rollback that journals a removed worktree without having moved one has
\* found neither a target nor a claim.
LEMMA ClaimWorktreeReceipted ==
  ASSUME IInv, RInv, NEW p \in Procs, ClaimWorktree(p)
  PROVE  Receipted(p)
<1> PICK l : l = proc[p].life
  OBVIOUS
<1> PICK t : t = Token(p)
  OBVIOUS
<1>m. /\ Continue(p) /\ proc \in [Procs -> ProcStates] /\ HasReceipt(p)
  BY ClaimWorktreeMoves, Onward DEF IInv, TypeOK, HasReceipt
<1>u. UNCHANGED disk
  BY DEF ClaimWorktree
<1>1. Mine(p)' = Mine(p) /\ Token(p)' = t
  BY <1>m, <1>u, Onward DEF Mine, disk
<1>2. \/ proc'[p].pc = "branch" /\ Mine(p).phase # "rollback_claimed"
      \/ proc'[p].pc \in {"verify_claim", "move", "detach_tree"}
      \/ /\ proc'[p].pc = "journal_removed" /\ Mine(p).phase \notin RollbackPhases
         /\ At(l) = {} /\ Claimed(t) = {}
  <2>1. \/ /\ Goto(p, "branch") \/ Refuse(p, "branch")
           /\ Mine(p).phase # "rollback_claimed"
        \/ Goto(p, "verify_claim") \/ Goto(p, "move") \/ Goto(p, "detach_tree")
        \/ /\ Goto(p, "journal_removed") /\ Mine(p).phase \notin RollbackPhases
           /\ At(l) = {} /\ Claimed(t) = {}
    BY DEF ClaimWorktree, Token, RollbackPhases, AfterTree
  <2> QED BY <2>1, <1>m, Went
<1>3. CASE proc'[p].pc \in {"verify_claim", "move", "detach_tree"}
  BY <1>3, <1>u, AwayReceipted DEF ResiduePcs, CreatePcs, BranchPcs, LockedPcs
<1>4. CASE proc'[p].pc = "branch" /\ Mine(p).phase # "rollback_claimed"
  <2>1. ResidueKnown(p)'
    BY <1>1, <1>4 DEF ResidueKnown, CreatePcs, BranchPcs, LockedPcs, OwnPcs, BarePcs
  <2> QED BY <2>1, <1>u, Unaltered
<1>5. CASE /\ proc'[p].pc = "journal_removed" /\ Mine(p).phase \notin RollbackPhases
           /\ At(l) = {} /\ Claimed(t) = {}
  <2>1. Nothing(t)
    BY <1>m, <1>5, Own DEF Home, RollbackPhases
  <2>2. Nothing(Token(p))'
    BY <1>1, <1>u, <2>1 DEF Nothing, disk
  <2>3. ResidueKnown(p)'
    BY <1>1, <1>5, <2>2
    DEF ResidueKnown, CreatePcs, BranchPcs, LockedPcs, OwnPcs, BarePcs, RollbackPhases
  <2> QED BY <2>3, <1>u, Unaltered
<1> QED BY <1>2, <1>3, <1>4, <1>5

LEMMA JournalRemovedReceipted ==
  ASSUME IInv, RInv, NEW p \in Procs, JournalRemoved(p)
  PROVE  Receipted(p)
<1>m. /\ Continue(p) /\ proc \in [Procs -> ProcStates] /\ HasReceipt(p)
      /\ proc[p].pc = "journal_removed" /\ Write(p, "rollback_worktree_removed")
      /\ proc'[p].life = proc[p].life
  BY JournalRemovedMoves, Onward
  DEF JournalRemoved, IInv, TypeOK, HasReceipt, Continue
<1>u. UNCHANGED <<ref, refLock, refClaim, tree>>
  BY DEF JournalRemoved
<1>1. Nothing(Token(p)) /\ Mine(p).phase \notin AfterTree
  BY <1>m, Own DEF ResidueKnown
<1>2. proc'[p].pc = "branch" /\ Mine(p)'.phase = "rollback_worktree_removed"
  BY <1>m, OwnPhase, Went DEF JournalRemoved
<1>3. ResidueKnown(p)'
  BY <1>2 DEF ResidueKnown, CreatePcs, BranchPcs, LockedPcs, OwnPcs, BarePcs
<1>4. /\ "rollback_worktree_removed" \in LIFECYCLE_PHASES \ FinishPhases
      /\ RefPhases \subseteq AfterTree
  BY DEF LIFECYCLE_PHASES, CREATION_PHASES, RollbackPhases, AfterTree, FinishPhases,
         RefPhases
<1> QED BY <1>m, <1>u, <1>1, <1>3, <1>4, PhaseReceipted DEF Nothing

LEMMA RecheckOwnersReceipted ==
  ASSUME IInv, RInv, NEW p \in Procs, RecheckOwners(p)
  PROVE  Receipted(p)
<1>m. /\ Continue(p) /\ proc \in [Procs -> ProcStates] /\ HasReceipt(p)
      /\ proc[p].pc = "ref_recheck" /\ proc'[p].life = proc[p].life
  BY RecheckOwnersMoves, Onward
  DEF RecheckOwners, IInv, TypeOK, HasReceipt, Continue
<1>u. UNCHANGED <<ref, refLock, refClaim, tree>>
  BY DEF RecheckOwners
<1>1. /\ Nothing(Token(p)) /\ Mine(p).alloc # "unstarted"
      /\ Mine(p).phase \in RefPhases \ {"rollback_ref_removed"}
  BY <1>m, Own DEF ResidueKnown, BranchPcs, LockedPcs, BarePcs
<1>2. PICK f \in {"rollback_ref_restoring", "rollback_ref_detached"} :
        Write(p, f) /\ proc'[p].pc \in {"ref_restore", "ref_drop"}
  BY <1>m, Went DEF RecheckOwners
<1>3. /\ f \in LIFECYCLE_PHASES \ FinishPhases
      /\ f \in RefPhases \ {"rollback_ref_removed"}
      /\ "rollback_claimed" \notin RefPhases
  BY DEF LIFECYCLE_PHASES, CREATION_PHASES, RollbackPhases, AfterTree, FinishPhases,
         RefPhases
<1>4. /\ Mine(p)'.phase = f /\ Mine(p)'.alloc # "unstarted"
      /\ Nothing(Token(p))'
  BY <1>m, <1>u, <1>1, <1>2, OwnPhase DEF Nothing
<1>5. ResidueKnown(p)'
  BY <1>2, <1>3, <1>4
  DEF ResidueKnown, CreatePcs, BranchPcs, LockedPcs, OwnPcs, BarePcs
<1> QED BY <1>m, <1>u, <1>1, <1>2, <1>3, <1>5, PhaseReceipted

LEMMA JournalRefGoneReceipted ==
  ASSUME IInv, RInv, NEW p \in Procs, JournalRefGone(p)
  PROVE  Receipted(p)
<1> DEFINE r == [Mine(p) EXCEPT !.phase = "rollback_ref_removed"]
<1>m. /\ Continue(p) /\ proc \in [Procs -> ProcStates] /\ HasReceipt(p)
      /\ proc[p].pc = "ref_gone" /\ Write(p, "rollback_ref_removed")
      /\ proc'[p].life = proc[p].life
  BY JournalRefGoneMoves, Onward
  DEF JournalRefGone, IInv, TypeOK, HasReceipt, Continue
<1>u. UNCHANGED <<ref, refLock, refClaim, tree>>
  BY DEF JournalRefGone
<1>o. /\ Mine(p) \in Receipts /\ proc[p].life \in Lifecycles
      /\ receipt \in [Lifecycles -> Receipts] /\ Mine(p) = receipt[proc[p].life]
      /\ Token(p) = Mine(p).token /\ ResidueKnown(p)
  BY <1>m, Own
<1>1. /\ Nothing(Token(p)) /\ Mine(p).alloc # "unstarted"
      /\ Mine(p).phase \in RefPhases /\ refClaim[Token(p)] = NoClaim
      /\ ref[Mine(p).branch].id # Token(p)
  BY <1>m, <1>o DEF ResidueKnown, BranchPcs, LockedPcs, BarePcs
<1>2. /\ "rollback_ref_removed" \in RefPhases /\ "rollback_claimed" \notin RefPhases
      /\ "rollback_ref_removed" \notin FinishPhases
  BY DEF AfterTree, FinishPhases, RefPhases
<1>3. /\ r.token = Token(p) /\ r.branch = Mine(p).branch /\ r.alloc = Mine(p).alloc
      /\ r.phase = "rollback_ref_removed"
  BY <1>o DEF Receipts
<1>4. Allows(p, r)
  BY <1>1, <1>2, <1>3 DEF Allows
<1>5. receipt' = [receipt EXCEPT ![proc[p].life] = r]
  BY <1>m, <1>o DEF Write
<1>6. proc'[p].pc = "ref_release"
  BY <1>m, Went DEF JournalRefGone
<1>7. /\ Mine(p)'.phase = "rollback_ref_removed" /\ Mine(p)'.alloc # "unstarted"
      /\ Nothing(Token(p))'
  BY <1>m, <1>u, <1>1, OwnPhase DEF Nothing
<1>8. ResidueKnown(p)'
  BY <1>6, <1>7 DEF ResidueKnown, CreatePcs, BranchPcs, LockedPcs, OwnPcs, BarePcs
<1> QED BY <1>m, <1>u, <1>4, <1>5, <1>8, Rewritten

-----------------------------------------------------------------------------
(* The steps that change the ref's lock file.                              *)

\* A step of a process that goes on, by what it leaves at its own names.
LEMMA GoesOn ==
  ASSUME IInv, RInv, NEW p \in Procs, Continue(p), Spares(p), NamesExist',
         ResidueKnown(p)', proc[p].pc \notin Making => UNCHANGED refClaim,
         NEW l, l = proc[p].life, Home(l)', Trace(l)'
  PROVE  Receipted(p)
<1>1. proc[p].pc # "idle" /\ l \in Lifecycles
  BY Onward, Kinds
<1>2. \A m \in Lifecycles : m # proc[p].life => receipt'[m] = receipt[m]
  BY DEF Continue, OnlyMine, IInv, TypeOK
<1>3. receipt'[l].token = receipt[l].token
  BY DEF Continue, SameName, Mine
<1>4. \A m \in Lifecycles : m = proc[p].life => Home(m)' /\ Trace(m)'
  BY DEF Home, Trace, Nothing, Clean, Names, At, Claimed
<1> QED BY <1>1, <1>2, <1>3, <1>4 DEF Receipted

LEMMA LockRefReceipted ==
  ASSUME IInv, KInv, RInv, NEW p \in Procs, LockRef(p)
  PROVE  Receipted(p)
<1> PICK l : l = proc[p].life
  OBVIOUS
<1> PICK t : t = Token(p)
  OBVIOUS
<1> PICK b : b = Mine(p).branch
  OBVIOUS
<1>m. /\ Continue(p) /\ proc \in [Procs -> ProcStates] /\ HasReceipt(p)
      /\ proc[p].pc = "ref_lock" /\ proc'[p].life = proc[p].life
      /\ refLock \in [Branches -> Ids] /\ proc[p].pc \in Making
  BY LockRefMoves, Onward
  DEF LockRef, IInv, TypeOK, HasReceipt, Continue, Making, AbortPcs
<1>o. /\ Mine(p) = receipt[l] /\ l \in Lifecycles /\ t \in Tokens /\ b \in Branches
      /\ t = receipt[l].token /\ Home(l) /\ Trace(l) /\ ResidueKnown(p)
      /\ receipt \in [Lifecycles -> Receipts]
  BY <1>m, Own
<1>u. UNCHANGED <<receipt, ref, refClaim, tree>>
  BY DEF LockRef
<1>k. /\ Mine(p).alloc # "unstarted" /\ Mine(p).phase \in RefPhases \ {"rollback_ref_removed"}
      /\ ref[b].id \in {t, Foreign}
  BY <1>m, <1>o DEF ResidueKnown, BranchPcs, LockedPcs, OwnPcs
<1>1. \/ refLock' = refLock /\ proc'[p].pc = "settle" /\ proc'[p].residue
      \/ refLock' = [refLock EXCEPT ![b] = t] /\ proc'[p].pc = "ref_check"
  BY <1>m, Went DEF LockRef, Refuse, ProcStates
<1>2. Spares(p) /\ NamesExist'
  BY <1>u, <1>1, <1>m DEF Spares, RInv, NamesExist
<1>3. Home(l)'
  BY <1>o, <1>u, HomeStands
<1>4. Trace(l)'
  <2>1. refClaim'[t] \in {t, Foreign, NoClaim}
    BY <1>o, <1>u DEF Trace
  <2> QED BY <1>o, <1>u, <1>k, <1>1, <1>m, <2>1, TraceStands
<1>5. Mine(p)' = Mine(p) /\ Token(p)' = t
  BY <1>m, <1>u, Onward DEF Mine
<1>6. ResidueKnown(p)'
  BY <1>1, <1>5, <1>u, <1>k
  DEF ResidueKnown, CreatePcs, BranchPcs, LockedPcs, OwnPcs, BarePcs
<1> QED BY <1>m, <1>2, <1>3, <1>4, <1>6, GoesOn

\* A step that changes at most the receipt and the lock file of its branch.
LEMMA LockReceipted ==
  ASSUME IInv, RInv, NEW p \in Procs, Continue(p), HasReceipt(p),
         UNCHANGED <<ref, refClaim, tree>>, ResidueKnown(p)',
         NEW t, t = Token(p), NEW b, b = Mine(p).branch,
         \/ refLock' = refLock
         \/ \E k \in {t, Free} : refLock' = [refLock EXCEPT ![b] = k],
         NEW r, r = receipt'[proc[p].life],
         r.alloc = "unstarted" => Mine(p).alloc = "unstarted" /\ refLock'[b] # t,
         r.phase # Mine(p).phase => Mine(p).phase # "rollback_claimed",
         r.phase \in FinishPhases => Mine(p).phase \in FinishPhases,
         refClaim[t] # NoClaim => r.phase \in RefPhases \ {"rollback_ref_removed"},
         refLock'[b] = t => r.phase \in RefPhases,
         r.phase = "rollback_ref_removed" => Mine(p).phase = "rollback_ref_removed"
  PROVE  Receipted(p)
<1> PICK l : l = proc[p].life
  OBVIOUS
<1>o. /\ Mine(p) = receipt[l] /\ l \in Lifecycles /\ t \in Tokens /\ b \in Branches
      /\ t = receipt[l].token /\ Home(l) /\ Trace(l)
  BY Own
<1>m. /\ receipt'[l].token = t /\ receipt'[l].branch = b
      /\ refLock \in [Branches -> Ids]
  BY <1>o DEF Continue, SameName, IInv, TypeOK
<1>1. Spares(p) /\ NamesExist'
  BY <1>m DEF Spares, RInv, NamesExist
<1>2. Home(l)'
  BY <1>o, <1>m, HomeStands
<1>3. \A c \in Branches : c # b => refLock'[c] = refLock[c]
  BY <1>m
<1>4. Clean(t) /\ refLock'[b] # t => Clean(t)'
  BY <1>3 DEF Clean, Nothing, Names
<1>5. refClaim'[t] \in {t, Foreign, NoClaim}
  BY <1>o DEF Trace
<1>6. r.phase = "rollback_ref_removed" => Nothing(t)' /\ ref'[b].id # t
  BY <1>o DEF Trace, Nothing
<1>7. Trace(l)'
  BY <1>o, <1>m, <1>3, <1>4, <1>5, <1>6, TraceStands, SMTT(30)
<1> QED BY <1>1, <1>2, <1>7, GoesOn

LEMMA UnlockRefReceipted ==
  ASSUME IInv, KInv, RInv, NEW p \in Procs, UnlockRef(p)
  PROVE  Receipted(p)
<1> PICK l : l = proc[p].life
  OBVIOUS
<1> PICK t : t = Token(p)
  OBVIOUS
<1> PICK b : b = Mine(p).branch
  OBVIOUS
<1>m. /\ Continue(p) /\ proc \in [Procs -> ProcStates] /\ HasReceipt(p)
      /\ proc[p].pc = "ref_release" /\ refLock \in [Branches -> Ids]
  BY UnlockRefMoves, Onward DEF UnlockRef, IInv, TypeOK, HasReceipt
<1>o. /\ Mine(p) = receipt[l] /\ l \in Lifecycles /\ t \in Tokens /\ b \in Branches
      /\ t = receipt[l].token /\ Trace(l) /\ ResidueKnown(p) /\ t # Free
      /\ receipt \in [Lifecycles -> Receipts]
  BY <1>m, Own
<1>u. UNCHANGED <<receipt, ref, refClaim, tree>>
  BY DEF UnlockRef
<1>k. /\ Mine(p).alloc # "unstarted" /\ Mine(p).phase = "rollback_ref_removed"
      /\ refLock[b] = t
  BY <1>m, <1>o, AtWork
  DEF ResidueKnown, BranchPcs, LockedPcs, RefKnown, RepoPcs, AbortPcs
<1>1. refLock' = [refLock EXCEPT ![b] = Free] /\ proc'[p].pc = "settle"
  BY <1>m, <1>k, <1>o, Went DEF UnlockRef, ReleaseRef, Token
<1>2. /\ Nothing(t) /\ ref[b].id # t /\ refClaim[t] = NoClaim
      /\ \A c \in Branches : ref[c].id = t \/ refLock[c] = t => c = b
  BY <1>o, <1>k DEF Trace
<1>3. \A c \in Branches : refLock'[c] # t
  BY <1>1, <1>2, <1>m, <1>o
<1>4. Clean(t)'
  BY <1>2, <1>3, <1>u DEF Clean, Nothing, Names
<1>5. Mine(p)' = Mine(p) /\ Token(p)' = t
  BY <1>m, <1>u, Onward DEF Mine
<1>6. ResidueKnown(p)'
  BY <1>1, <1>4, <1>5 DEF ResidueKnown, CreatePcs, BranchPcs, LockedPcs, OwnPcs, BarePcs
<1>7. /\ receipt'[proc[p].life] = Mine(p) /\ refLock'[b] # t /\ refClaim[t] = NoClaim
  BY <1>o, <1>u, <1>2, <1>3
<1> QED BY <1>m, <1>u, <1>1, <1>6, <1>7, <1>k, LockReceipted, ZenonT(60)

\* What a process that goes on takes along to its next point.
LEMMA Taken ==
  ASSUME IInv, RInv, NEW p \in Procs, Continue(p), HasReceipt(p)
  PROVE  \A l, t, b : l = proc[p].life /\ t = Token(p) /\ b = Mine(p).branch
           => /\ Token(p)' = t /\ Mine(p)'.branch = b /\ Mine(p)' = receipt'[l]
              /\ proc'[p].life = l /\ l \in Lifecycles /\ t \in Tokens /\ b \in Branches
              /\ Mine(p) = receipt[l] /\ t = receipt[l].token /\ b = receipt[l].branch
              /\ receipt'[l].token = t /\ receipt'[l].branch = b
              /\ t \in Ids /\ t # Foreign /\ t # Free /\ t # NoClaim
              /\ receipt[l] \in Receipts /\ receipt \in [Lifecycles -> Receipts]
              /\ Home(l) /\ Trace(l) /\ ResidueKnown(p)
<1> SUFFICES ASSUME NEW l, l = proc[p].life, NEW t, t = Token(p), NEW b, b = Mine(p).branch
             PROVE  /\ Token(p)' = t /\ Mine(p)'.branch = b /\ Mine(p)' = receipt'[l]
                    /\ proc'[p].life = l /\ l \in Lifecycles /\ t \in Tokens /\ b \in Branches
                    /\ Mine(p) = receipt[l] /\ t = receipt[l].token /\ b = receipt[l].branch
                    /\ receipt'[l].token = t /\ receipt'[l].branch = b
                    /\ t \in Ids /\ t # Foreign /\ t # Free /\ t # NoClaim
                    /\ receipt[l] \in Receipts /\ receipt \in [Lifecycles -> Receipts]
                    /\ Home(l) /\ Trace(l) /\ ResidueKnown(p)
  OBVIOUS
<1>1. /\ receipt'[l].token = t /\ receipt'[l].branch = b /\ proc'[p].life = l
  BY DEF Continue, SameName, Token
<1> QED BY <1>1, Own, Onward

\* Under the lock, what is found of the ref and of its owners.
LEMMA CheckRefReceipted ==
  ASSUME IInv, KInv, RInv, NEW p \in Procs, CheckRef(p)
  PROVE  Receipted(p)
<1> PICK l : l = proc[p].life
  OBVIOUS
<1> PICK t : t = Token(p)
  OBVIOUS
<1> PICK b : b = Mine(p).branch
  OBVIOUS
<1> PICK r : r = receipt'[l]
  OBVIOUS
<1>m. /\ Continue(p) /\ proc \in [Procs -> ProcStates] /\ HasReceipt(p)
      /\ proc[p].pc = "ref_check" /\ refLock \in [Branches -> Ids]
  BY CheckRefMoves, Onward DEF CheckRef, IInv, TypeOK, HasReceipt
<1>o. /\ Token(p)' = t /\ Mine(p)' = r /\ Mine(p)'.branch = b
      /\ l \in Lifecycles /\ t \in Tokens /\ b \in Branches /\ t \in Ids
      /\ Mine(p) = receipt[l] /\ t = receipt[l].token /\ b = receipt[l].branch
      /\ receipt \in [Lifecycles -> Receipts]
      /\ t # Foreign /\ Home(l) /\ Trace(l) /\ ResidueKnown(p)
  BY <1>m, Taken
<1>u. UNCHANGED <<ref, refClaim, tree>>
  BY DEF CheckRef
<1>k. /\ Mine(p).alloc # "unstarted" /\ ref[b].id \in {t, Foreign}
      /\ Mine(p).phase \in RefPhases \ {"rollback_ref_removed"}
  BY <1>m, <1>o DEF ResidueKnown, BranchPcs, LockedPcs, OwnPcs
<1>p. /\ {"rollback_ref_restoring", "rollback_ref_detached"} \subseteq RefPhases
      /\ RefPhases \cap FinishPhases = {} /\ "rollback_claimed" \notin RefPhases
  BY DEF RefPhases, AfterTree, FinishPhases
<1>1. /\ r.alloc = Mine(p).alloc
      /\ r.phase \in {Mine(p).phase, "rollback_ref_restoring", "rollback_ref_detached"}
  <2>1. CASE receipt' = receipt
    BY <2>1, <1>o
  <2>2. ASSUME NEW f \in {"rollback_ref_restoring", "rollback_ref_detached"}, Write(p, f)
        PROVE  r.alloc = Mine(p).alloc /\ r.phase = f
    BY <2>2, <1>o DEF Write, Receipts
  <2>3. ASSUME NEW i, receipt' = [receipt EXCEPT ![proc[p].life].refId = i]
        PROVE  r.alloc = Mine(p).alloc /\ r.phase = Mine(p).phase
    BY <2>3, <1>o DEF Receipts
  <2>4. \/ receipt' = receipt \/ Write(p, "rollback_ref_restoring")
        \/ Write(p, "rollback_ref_detached")
        \/ \E i : receipt' = [receipt EXCEPT ![proc[p].life].refId = i]
    BY DEF CheckRef, RefuseRef
  <2> QED BY <2>1, <2>2, <2>3, <2>4
<1>2. Owners(b) = {} => Nothing(t)
  <2>1. ~(tree[t].admin = "registered" /\ tree[t].head = b) \/ t \in Owners(b)
    BY <1>o DEF Owners
  <2> QED BY <2>1, <1>o, <1>k, <1>p DEF Home
<1>3. refLock' = refLock \/ \E k \in {t, Free} : refLock' = [refLock EXCEPT ![b] = k]
  BY <1>m, <1>o DEF CheckRef, RefuseRef, ReleaseRef
<1>4. \/ proc'[p].pc = "settle" /\ proc'[p].residue
      \/ proc'[p].pc = "ref_restore"
      \/ proc'[p].pc \in {"ref_drop", "ref_detach"} /\ Owners(b) = {}
      \/ /\ proc'[p].pc = "ref_gone" /\ Owners(b) = {} /\ refClaim[t] = NoClaim
         /\ ~Exists(b)
  <2>1. \/ Refuse(p, "settle") \/ Goto(p, "ref_restore")
        \/ (Goto(p, "ref_drop") \/ Goto(p, "ref_detach")) /\ Owners(b) = {}
        \/ /\ Goto(p, "ref_gone") /\ Owners(b) = {} /\ refClaim[t] = NoClaim
           /\ ~Exists(b)
    BY DEF CheckRef, RefuseRef, Token
  <2>2. Refuse(p, "settle") => proc'[p].residue
    BY <1>m DEF Refuse, ProcStates
  <2> QED BY <2>1, <2>2, <1>m, Went
<1>5. ~Exists(b) => ref[b].id # t
  BY <1>o DEF RInv, NamesExist, Exists
<1>7. r.phase \in RefPhases \ {"rollback_ref_removed"} /\ r.alloc # "unstarted"
  BY <1>1, <1>k, <1>p DEF RefPhases, AfterTree
<1>6. ResidueKnown(p)'
  <2>1. Nothing(t) => Nothing(t)'
    BY <1>u DEF Nothing
  <2>2. CASE proc'[p].pc = "settle" /\ proc'[p].residue
    BY <2>2 DEF ResidueKnown, CreatePcs, BranchPcs, LockedPcs, OwnPcs, BarePcs
  <2>3. CASE proc'[p].pc = "ref_restore"
    BY <2>3, <1>o, <1>7 DEF ResidueKnown, CreatePcs, BranchPcs, LockedPcs, OwnPcs, BarePcs
  <2>4. CASE proc'[p].pc \in {"ref_drop", "ref_detach"} /\ Owners(b) = {}
    BY <2>1, <2>4, <1>o, <1>u, <1>k, <1>2, <1>7
    DEF ResidueKnown, CreatePcs, BranchPcs, LockedPcs, OwnPcs, BarePcs
  <2>5. CASE /\ proc'[p].pc = "ref_gone" /\ Owners(b) = {} /\ refClaim[t] = NoClaim
             /\ ~Exists(b)
    BY <2>1, <2>5, <1>o, <1>u, <1>2, <1>5, <1>7
    DEF ResidueKnown, CreatePcs, BranchPcs, LockedPcs, OwnPcs, BarePcs
  <2> QED BY <2>2, <2>3, <2>4, <2>5, <1>4
<1> QED BY <1>m, <1>u, <1>o, <1>k, <1>p, <1>1, <1>3, <1>6, <1>7, LockReceipted

\* A lock file that is left or given back, under a receipt that stays.
LEMMA UnlockedReceipted ==
  ASSUME IInv, RInv, NEW p \in Procs, Continue(p), HasReceipt(p),
         UNCHANGED <<receipt, ref, refClaim, tree>>, ResidueKnown(p)',
         NEW t, t = Token(p), NEW b, b = Mine(p).branch,
         \/ refLock' = refLock
         \/ \E k \in {t, Free} : refLock' = [refLock EXCEPT ![b] = k],
         refLock'[b] = t => refLock[b] = t
  PROVE  Receipted(p)
<1> PICK l : l = proc[p].life
  OBVIOUS
<1> PICK r : r = receipt[l]
  OBVIOUS
<1>1. r = receipt'[proc[p].life] /\ Mine(p) = r
  BY Own
<1>2. /\ r.alloc = "unstarted" => refLock'[b] # t
      /\ refClaim[t] # NoClaim => r.phase \in RefPhases \ {"rollback_ref_removed"}
      /\ refLock'[b] = t => r.phase \in RefPhases
  BY <1>1, Taken DEF Trace, Clean, Names
<1>3. /\ r.alloc = Mine(p).alloc /\ r.phase = Mine(p).phase
  BY <1>1
<1> QED BY <1>1, <1>2, <1>3, LockReceipted

\* The ref goes only after the worktree, and a rollback that gives up with
\* nothing left behind says so.
LEMMA BranchIntentReceipted ==
  ASSUME IInv, KInv, RInv, NEW p \in Procs, BranchIntent(p)
  PROVE  Receipted(p)
<1> PICK l : l = proc[p].life
  OBVIOUS
<1> PICK t : t = Token(p)
  OBVIOUS
<1> PICK b : b = Mine(p).branch
  OBVIOUS
<1> PICK r : r = receipt'[l]
  OBVIOUS
<1>m. /\ Continue(p) /\ proc \in [Procs -> ProcStates] /\ HasReceipt(p)
      /\ proc[p].pc = "branch" /\ refLock \in [Branches -> Ids]
  BY BranchIntentMoves, Onward DEF BranchIntent, IInv, TypeOK, HasReceipt
<1>o. /\ Token(p)' = t /\ Mine(p)' = r /\ Mine(p)'.branch = b
      /\ l \in Lifecycles /\ t \in Tokens /\ b \in Branches /\ t \in Ids
      /\ Mine(p) = receipt[l] /\ t = receipt[l].token /\ b = receipt[l].branch
      /\ receipt[l] \in Receipts /\ receipt \in [Lifecycles -> Receipts]
      /\ t # Foreign /\ t # Free /\ Trace(l) /\ ResidueKnown(p)
  BY <1>m, Taken
<1>u. UNCHANGED <<ref, refClaim, tree>>
  BY DEF BranchIntent
<1>p. /\ {"rollback_ref_claimed", "rollback_ref_restoring", "rollback_ref_detached"}
           \subseteq RefPhases \ {"rollback_ref_removed"}
      /\ RefPhases \cap FinishPhases = {} /\ "rollback_ref_removed" \in RefPhases
      /\ "rollback_claimed" \in RollbackPhases \ RefPhases
  BY DEF RefPhases, AfterTree, FinishPhases, RollbackPhases
<1>f. \/ refLock' = refLock /\ (branch_created(p) => Mine(p).phase \notin RefPhases)
      \/ refLock' = [refLock EXCEPT ![b] = IF @ = t THEN Free ELSE @]
  BY DEF BranchIntent, ReleaseRef, Token
<1>k. refLock' = refLock \/ \E k \in {t, Free} : refLock' = [refLock EXCEPT ![b] = k]
  BY <1>f, <1>m, <1>o
<1>c. Clean(t) => Clean(t)'
  BY <1>u, <1>f, <1>m, <1>o DEF Clean, Nothing, Names
<1>t. refClaim[t] # NoClaim => Mine(p).phase \in RefPhases \ {"rollback_ref_removed"}
  BY <1>o DEF Trace
<1>1. CASE Goto(p, "settle") /\ ~branch_created(p) /\ UNCHANGED receipt
  <2>1. Clean(t)'
    BY <1>1, <1>c, <1>o DEF Trace, branch_created
  <2>2. proc'[p].pc = "settle"
    BY <1>1, <1>m, Went
  <2>3. ResidueKnown(p)'
    BY <2>1, <2>2, <1>o DEF ResidueKnown, CreatePcs, BranchPcs, LockedPcs, OwnPcs, BarePcs
  <2>4. r = Mine(p) /\ refLock'[b] # t
    BY <1>1, <2>1, <1>o DEF Clean, Names
  <2> QED BY <1>1, <1>m, <1>u, <1>k, <2>3, <2>4, UnlockedReceipted
<1>2. CASE Refuse(p, "settle") /\ UNCHANGED receipt
  <2>1. proc'[p].pc = "settle" /\ proc'[p].residue
    <3>1. proc'[p].pc = "settle"
      BY <1>2, <1>m, Went
    <3>2. proc'[p].residue
      BY <1>2, <1>m DEF Refuse, ProcStates
    <3> QED BY <3>1, <3>2
  <2>2. ResidueKnown(p)'
    BY <2>1 DEF ResidueKnown, CreatePcs, BranchPcs, LockedPcs, OwnPcs, BarePcs
  <2>3. r = Mine(p) /\ (refLock'[b] = t => refLock[b] = t)
    BY <1>2, <1>f, <1>m, <1>o
  <2> QED BY <1>2, <1>m, <1>u, <1>k, <2>2, <2>3, UnlockedReceipted
<1>3. CASE /\ Goto(p, "settle") /\ UNCHANGED receipt /\ branch_created(p)
           /\ \/ Mine(p).phase = "rollback_ref_removed"
              \/ ~Exists(b) /\ Mine(p).alloc = "unstarted"
  <2>1. ASSUME Mine(p).phase = "rollback_ref_removed" PROVE Clean(t)'
    <3>1. refLock' = [refLock EXCEPT ![b] = IF @ = t THEN Free ELSE @]
      BY <1>3, <2>1, <1>f, <1>p
    <3>2. /\ Nothing(t) /\ ref[b].id # t /\ refClaim[t] = NoClaim
          /\ \A c \in Branches : ref[c].id = t \/ refLock[c] = t => c = b
      BY <2>1, <1>o DEF Trace
    <3>3. \A c \in Branches : refLock'[c] # t
      BY <3>1, <3>2, <1>m, <1>o
    <3> QED BY <3>2, <3>3, <1>u DEF Clean, Nothing, Names
  <2>2. Clean(t)'
    BY <1>3, <2>1, <1>c, <1>o DEF Trace
  <2>3. proc'[p].pc = "settle"
    BY <1>3, <1>m, Went
  <2>4. ResidueKnown(p)'
    BY <2>2, <2>3, <1>o DEF ResidueKnown, CreatePcs, BranchPcs, LockedPcs, OwnPcs, BarePcs
  <2>5. r = Mine(p) /\ refLock'[b] # t
    BY <1>3, <2>2, <1>o DEF Clean, Names
  <2> QED BY <1>3, <1>m, <1>u, <1>k, <2>4, <2>5, UnlockedReceipted
<1>4. CASE /\ Goto(p, "ref_lock") /\ branch_cleanup_authorized(p)
           /\ ~Exists(b) \/ ref[b] = [id |-> t, sha |-> Source]
           /\ Mine(p).phase # "rollback_ref_removed"
           /\ Exists(b) \/ Mine(p).alloc # "unstarted"
           /\ \/ /\ Mine(p).phase \in {"rollback_ref_detached", "rollback_ref_restoring"}
                 /\ UNCHANGED receipt
              \/ Write(p, "rollback_ref_claimed")
  <2>1. ref[b].id \in {t, Foreign}
    BY <1>4, <1>o DEF RInv, NamesExist, Exists
  <2>2. Mine(p).alloc # "unstarted"
    BY <1>4, <1>o, SMTT(30) DEF Trace, Clean, Names
  <2>3. r.alloc = Mine(p).alloc /\ r.phase \in RefPhases \ {"rollback_ref_removed"}
    <3>1. CASE /\ Mine(p).phase \in {"rollback_ref_detached", "rollback_ref_restoring"}
               /\ UNCHANGED receipt
      BY <3>1, <1>o, <1>p
    <3>2. CASE Write(p, "rollback_ref_claimed")
      BY <3>2, <1>o, <1>p DEF Write, Receipts
    <3> QED BY <1>4, <3>1, <3>2
  <2>4. Mine(p).phase # "rollback_claimed"
    BY <1>4, <1>m, <1>o, <1>p
    DEF ResidueKnown, branch_cleanup_authorized, branch_cleanup_safe
  <2>5. proc'[p].pc = "ref_lock"
    BY <1>4, <1>m, Went
  <2>6. ResidueKnown(p)'
    BY <2>1, <2>2, <2>3, <2>5, <1>o, <1>u
    DEF ResidueKnown, CreatePcs, BranchPcs, LockedPcs, OwnPcs, BarePcs
  <2> QED BY <1>m, <1>u, <1>o, <1>k, <1>p, <2>2, <2>3, <2>4, <2>6, LockReceipted
<1> QED BY <1>1, <1>2, <1>3, <1>4 DEF BranchIntent, Token

-----------------------------------------------------------------------------
(* The steps that change the ref or its claim.                             *)

LEMMA RefReceipted ==
  ASSUME IInv, RInv, NEW p \in Procs, Continue(p), HasReceipt(p),
         UNCHANGED tree, ResidueKnown(p)',
         NEW t, t = Token(p), NEW b, b = Mine(p).branch,
         ref' = ref \/ \E k : /\ ref' = [ref EXCEPT ![b] = k] /\ k.id \in {t, Foreign}
                              /\ k.sha = NoSha => k.id = Foreign,
         refLock' = refLock \/ refLock' = [refLock EXCEPT ![b] = Free],
         \/ refClaim' = refClaim
         \/ /\ proc[p].pc \in Making
            /\ \E k \in {t, Foreign, NoClaim} : refClaim' = [refClaim EXCEPT ![t] = k],
         NEW r, r = receipt'[proc[p].life],
         r.alloc = "unstarted"
           => /\ Mine(p).alloc = "unstarted" /\ refClaim' = refClaim
              /\ ref'[b].id # t,
         r.phase # Mine(p).phase => Mine(p).phase # "rollback_claimed",
         r.phase \in FinishPhases => Mine(p).phase \in FinishPhases,
         refClaim'[t] # NoClaim => r.phase \in RefPhases \ {"rollback_ref_removed"},
         refLock'[b] = t => r.phase \in RefPhases,
         r.phase # "rollback_ref_removed"
  PROVE  Receipted(p)
<1> PICK l : l = proc[p].life
  OBVIOUS
<1>o. /\ Mine(p) = receipt[l] /\ l \in Lifecycles /\ t \in Tokens /\ b \in Branches
      /\ t = receipt[l].token /\ b = receipt[l].branch /\ t # Free
      /\ receipt'[l].token = t /\ receipt'[l].branch = b /\ Home(l) /\ Trace(l)
  BY Taken
<1>m. /\ refLock \in [Branches -> Ids] /\ ref \in [Branches -> Refs]
      /\ refClaim \in [Tokens -> Ids \cup {NoClaim}]
  BY DEF IInv, TypeOK
<1>r. /\ \A c \in Branches : c # b => ref'[c] = ref[c]
      /\ ref'[b] = ref[b] \/ ref'[b].id \in {t, Foreign}
      /\ \A c \in Branches : c # b => refLock'[c] = refLock[c]
      /\ refLock'[b] \in {refLock[b], Free}
      /\ \A u \in Tokens : u # t => refClaim'[u] = refClaim[u]
      /\ refClaim'[t] = refClaim[t] \/ refClaim'[t] \in {t, Foreign, NoClaim}
  BY <1>o, <1>m
<1>n. NamesExist'
  BY <1>o, <1>m DEF RInv, NamesExist
<1>1. Spares(p)
  BY <1>r DEF Spares
<1>2. Home(l)'
  BY <1>o, HomeStands
<1>3. ASSUME r.alloc = "unstarted", Clean(t) PROVE Clean(t)'
  <2>1. \A c \in Branches : ref[c].id # t /\ refLock[c] # t
    BY <1>3 DEF Clean, Names
  <2>2. /\ \A c \in Branches : /\ ref'[c].id = t => ref[c].id = t
                               /\ refLock'[c] = t => refLock[c] = t
        /\ refClaim'[t] = refClaim[t]
    BY <2>1, <1>3, <1>r, <1>o
  <2> QED BY <2>2, <1>3, CleanStands
<1>4. refClaim'[t] \in {t, Foreign, NoClaim}
  BY <1>o, <1>r DEF Trace
<1>5. Trace(l)'
  <2>1. \A c \in Branches : c # b => /\ ref'[c].id = t => ref[c].id = t
                                     /\ refLock'[c] = t => refLock[c] = t
    BY <1>r
  <2>2. receipt'[l].alloc = "unstarted"
          => receipt[l].alloc = "unstarted" /\ (Clean(t) => Clean(t)')
    BY <1>o, <1>3
  <2>3. /\ refClaim'[t] # NoClaim => receipt'[l].phase \in RefPhases \ {"rollback_ref_removed"}
        /\ refLock'[b] = t => receipt'[l].phase \in RefPhases
        /\ receipt'[l].phase = "rollback_ref_removed" => Nothing(t)' /\ ref'[b].id # t
    OBVIOUS
  <2>4. /\ Trace(l) /\ l \in Lifecycles /\ b \in Branches
        /\ receipt[l].token = t /\ receipt[l].branch = b
        /\ receipt'[l].token = t /\ receipt'[l].branch = b
    BY <1>o
  <2> QED BY ONLY <1>4, <2>1, <2>2, <2>3, <2>4, TraceStands
<1>6. proc[p].pc \notin Making => UNCHANGED refClaim
  OBVIOUS
<1> QED BY <1>1, <1>n, <1>2, <1>5, <1>6, GoesOn

LEMMA CommitRefReceipted ==
  ASSUME IInv, KInv, RInv, NEW p \in Procs, CommitRef(p)
  PROVE  Receipted(p)
<1> PICK t : t = Token(p)
  OBVIOUS
<1> PICK b : b = Mine(p).branch
  OBVIOUS
<1> DEFINE k == [id |-> t, sha |-> Source]
<1>m. /\ Continue(p) /\ proc \in [Procs -> ProcStates] /\ HasReceipt(p)
      /\ proc[p].pc = "c_commit"
  BY CommitRefMoves, Onward DEF CommitRef, IInv, TypeOK, HasReceipt
<1>o. Mine(p)' = receipt'[proc[p].life] /\ Mine(p) = receipt[proc[p].life] /\ Trace(proc[p].life)
  BY <1>m, Taken
<1>u. UNCHANGED <<receipt, refLock, refClaim, tree>>
  BY DEF CommitRef
<1>k. Mine(p).alloc # "unstarted" /\ Mine(p).phase \in {"allocating", "bootstrap_pending"}
  BY <1>m, Taken DEF ResidueKnown, CreatePcs
<1>1. ref' = [ref EXCEPT ![b] = k] /\ proc'[p].pc = "c_journal"
  BY <1>m, Went DEF CommitRef
<1>2. Mine(p)' = Mine(p)
  BY <1>o, <1>u
<1>3. ResidueKnown(p)'
  BY <1>1, <1>2, <1>k DEF ResidueKnown, BranchPcs, LockedPcs, OwnPcs, BarePcs
<1>4. k.id = t /\ k.sha # NoSha
  BY Values
<1>5. /\ refClaim[t] = NoClaim /\ refLock[b] # t
  BY <1>k, <1>o DEF Trace, Token, RefPhases, AfterTree
<1>6. receipt'[proc[p].life] = Mine(p)
  BY <1>o, <1>u
<1>7. Mine(p).phase \notin FinishPhases
  BY <1>k DEF FinishPhases
<1> QED BY <1>m, <1>u, <1>k, <1>1, <1>3, <1>4, <1>5, <1>6, <1>7, RefReceipted

LEMMA DetachRefReceipted ==
  ASSUME IInv, KInv, RInv, NEW p \in Procs, DetachRef(p)
  PROVE  Receipted(p)
<1> PICK t : t = Token(p)
  OBVIOUS
<1> PICK b : b = Mine(p).branch
  OBVIOUS
<1>m. /\ Continue(p) /\ proc \in [Procs -> ProcStates] /\ HasReceipt(p)
      /\ proc[p].pc = "ref_detach" /\ refLock \in [Branches -> Ids]
      /\ proc[p].pc \in Making
  BY DetachRefMoves, Onward
  DEF DetachRef, IInv, TypeOK, HasReceipt, Making, AbortPcs
<1>o. /\ Token(p)' = t /\ Mine(p)' = receipt'[proc[p].life] /\ b \in Branches
      /\ Mine(p) = receipt[proc[p].life] /\ ResidueKnown(p)
  BY <1>m, Taken
<1>k. /\ Mine(p).alloc # "unstarted" /\ ref[b].id \in {t, Foreign} /\ Nothing(t)
      /\ Mine(p).phase \in RefPhases \ {"rollback_ref_removed"}
  BY <1>m, <1>o DEF ResidueKnown, BranchPcs, LockedPcs, OwnPcs, BarePcs
<1>u. UNCHANGED <<receipt, tree>>
  BY DEF DetachRef, RefuseRef
<1>1. CASE RefuseRef(p) /\ UNCHANGED <<ref, refClaim>>
  <2>1. proc'[p].pc = "settle" /\ proc'[p].residue
    <3>1. Refuse(p, "settle")
      BY <1>1 DEF RefuseRef
    <3>2. proc'[p].pc = "settle"
      BY <3>1, <1>m, Went
    <3>3. proc'[p].residue
      BY <3>1, <1>m DEF Refuse, ProcStates
    <3> QED BY <3>2, <3>3
  <2>2. ResidueKnown(p)'
    BY <2>1 DEF ResidueKnown, CreatePcs, BranchPcs, LockedPcs, OwnPcs, BarePcs
  <2>3. /\ refLock' = refLock \/ \E k \in {t, Free} : refLock' = [refLock EXCEPT ![b] = k]
        /\ refLock'[b] = t => refLock[b] = t
    BY <1>1, <1>m, <1>o DEF RefuseRef, ReleaseRef
  <2> QED BY <1>m, <1>u, <1>1, <2>2, <2>3, UnlockedReceipted
<1>2. CASE /\ ref' = [ref EXCEPT ![b] = NoRef]
           /\ refClaim' = [refClaim EXCEPT ![t] = ref[b].id]
           /\ Goto(p, "ref_recheck") /\ UNCHANGED refLock
  <2>1. proc'[p].pc = "ref_recheck"
    BY <1>2, <1>m, Went
  <2>2. Mine(p)' = Mine(p) /\ Nothing(t)'
    BY <1>o, <1>u, <1>k DEF Nothing
  <2>3. ResidueKnown(p)'
    BY <2>1, <2>2, <1>o, <1>k
    DEF ResidueKnown, CreatePcs, BranchPcs, LockedPcs, OwnPcs, BarePcs
  <2>4. NoRef.id = Foreign
    BY DEF NoRef
  <2>5. receipt'[proc[p].life] = Mine(p)
    BY <1>o, <1>u
  <2>6. Mine(p).phase # "rollback_ref_removed" /\ Mine(p).phase \in RefPhases
    BY <1>k
  <2> QED BY <1>2, <1>m, <1>u, <1>k, <2>3, <2>4, <2>5, <2>6, RefReceipted
<1> QED BY <1>1, <1>2 DEF DetachRef

LEMMA RestoreRefReceipted ==
  ASSUME IInv, KInv, RInv, NEW p \in Procs, RestoreRef(p)
  PROVE  Receipted(p)
<1> PICK t : t = Token(p)
  OBVIOUS
<1> PICK b : b = Mine(p).branch
  OBVIOUS
<1> DEFINE k == [id |-> refClaim[t], sha |-> Source]
<1>m. /\ Continue(p) /\ proc \in [Procs -> ProcStates] /\ HasReceipt(p)
      /\ proc[p].pc = "ref_restore"
  BY RestoreRefMoves, Onward DEF RestoreRef, IInv, TypeOK, HasReceipt
<1>o. /\ Token(p)' = t /\ Mine(p)' = receipt'[proc[p].life] /\ Trace(proc[p].life)
      /\ Mine(p) = receipt[proc[p].life] /\ ResidueKnown(p) /\ t = receipt[proc[p].life].token
  BY <1>m, Taken
<1>u. UNCHANGED <<receipt, refLock, refClaim, tree>>
  BY DEF RestoreRef
<1>k. /\ Mine(p).alloc # "unstarted"
      /\ Mine(p).phase \in RefPhases \ {"rollback_ref_removed"}
  BY <1>m, <1>o DEF ResidueKnown, BranchPcs, LockedPcs
<1>1. ref' = [ref EXCEPT ![b] = k] /\ proc'[p].pc = "ref_unclaim"
  BY <1>m, Went DEF RestoreRef
<1>2. k.id \in {t, Foreign} /\ k.sha # NoSha
  BY <1>m, <1>o, Values DEF Trace, IInv, Control, RestoreHasClaim, Detached
<1>3. Mine(p)' = Mine(p) /\ receipt'[proc[p].life] = Mine(p)
  BY <1>o, <1>u
<1>4. ResidueKnown(p)'
  BY <1>1, <1>3, <1>k DEF ResidueKnown, CreatePcs, BranchPcs, LockedPcs, OwnPcs, BarePcs
<1>5. Mine(p).phase # "rollback_ref_removed" /\ Mine(p).phase \in RefPhases
  BY <1>k
<1> QED BY <1>m, <1>u, <1>k, <1>1, <1>2, <1>3, <1>4, <1>5, RefReceipted

LEMMA DropRefReceipted ==
  ASSUME IInv, KInv, RInv, NEW p \in Procs, DropRef(p)
  PROVE  Receipted(p)
<1> PICK t : t = Token(p)
  OBVIOUS
<1> PICK b : b = Mine(p).branch
  OBVIOUS
<1>m. /\ Continue(p) /\ proc \in [Procs -> ProcStates] /\ HasReceipt(p)
      /\ proc[p].pc = "ref_drop" /\ proc[p].pc \in Making
      /\ refClaim \in [Tokens -> Ids \cup {NoClaim}]
  BY DropRefMoves, Onward DEF DropRef, IInv, TypeOK, HasReceipt, Making, AbortPcs
<1>o. /\ Token(p)' = t /\ Mine(p)' = receipt'[proc[p].life] /\ t \in Tokens
      /\ Mine(p) = receipt[proc[p].life] /\ ResidueKnown(p) /\ b \in Branches
      /\ t # Foreign
  BY <1>m, Taken
<1>u. UNCHANGED <<receipt, ref, refLock, tree>>
  BY DEF DropRef
<1>k. /\ Mine(p).alloc # "unstarted" /\ Nothing(t)
      /\ Mine(p).phase \in RefPhases \ {"rollback_ref_removed"}
      /\ ref[b].id # t
  <2>1. ~Exists(b)
    BY <1>m, AtWork DEF RefKnown, RepoPcs, AbortPcs
  <2> QED BY <2>1, <1>m, <1>o
          DEF ResidueKnown, BranchPcs, LockedPcs, BarePcs, Exists, RInv, NamesExist
<1>1. refClaim' = [refClaim EXCEPT ![t] = NoClaim] /\ proc'[p].pc = "ref_gone"
  BY <1>m, Went DEF DropRef
<1>2. /\ Mine(p)' = Mine(p) /\ receipt'[proc[p].life] = Mine(p) /\ Nothing(t)'
      /\ refClaim'[t] = NoClaim
  BY <1>o, <1>u, <1>k, <1>1, <1>m DEF Nothing
<1>3. ResidueKnown(p)'
  BY <1>1, <1>2, <1>k, <1>o, <1>u
  DEF ResidueKnown, CreatePcs, BranchPcs, LockedPcs, OwnPcs, BarePcs
<1>4. Mine(p).phase # "rollback_ref_removed" /\ Mine(p).phase \in RefPhases
  BY <1>k
<1> QED BY <1>m, <1>u, <1>k, <1>1, <1>2, <1>3, <1>4, RefReceipted

LEMMA UnclaimRefReceipted ==
  ASSUME IInv, KInv, RInv, NEW p \in Procs, UnclaimRef(p)
  PROVE  Receipted(p)
<1> PICK l : l = proc[p].life
  OBVIOUS
<1> PICK t : t = Token(p)
  OBVIOUS
<1> PICK b : b = Mine(p).branch
  OBVIOUS
<1> PICK r : r = receipt'[l]
  OBVIOUS
<1>m. /\ Continue(p) /\ proc \in [Procs -> ProcStates] /\ HasReceipt(p)
      /\ proc[p].pc = "ref_unclaim" /\ proc[p].pc \in Making
      /\ refClaim \in [Tokens -> Ids \cup {NoClaim}] /\ refLock \in [Branches -> Ids]
  BY UnclaimRefMoves, Onward DEF UnclaimRef, IInv, TypeOK, HasReceipt, Making, AbortPcs
<1>o. /\ l \in Lifecycles /\ t \in Tokens /\ b \in Branches /\ ResidueKnown(p)
      /\ Mine(p) = receipt[l] /\ receipt \in [Lifecycles -> Receipts] /\ t # Free
  BY <1>m, Taken
<1>u. UNCHANGED <<ref, tree>>
  BY DEF UnclaimRef
<1>k. /\ Mine(p).alloc # "unstarted"
      /\ Mine(p).phase \in RefPhases \ {"rollback_ref_removed"}
  BY <1>m, <1>o DEF ResidueKnown, BranchPcs, LockedPcs
<1>1. /\ refClaim' = [refClaim EXCEPT ![t] = NoClaim]
      /\ refLock' = refLock \/ refLock' = [refLock EXCEPT ![b] = Free]
      /\ refLock'[b] # t /\ refClaim'[t] = NoClaim
  BY <1>m, <1>o DEF UnclaimRef, ReleaseRef
<1>2. r.alloc = Mine(p).alloc /\ r.phase = "rollback_worktree_removed"
  BY <1>o DEF UnclaimRef, Write, Receipts
<1>3. proc'[p].pc = "settle" /\ proc'[p].residue
  <2>1. Refuse(p, "settle")
    BY DEF UnclaimRef
  <2>2. proc'[p].pc = "settle"
    BY <2>1, <1>m, Went
  <2>3. proc'[p].residue
    BY <2>1, <1>m DEF Refuse, ProcStates
  <2> QED BY <2>2, <2>3
<1>4. ResidueKnown(p)'
  BY <1>3 DEF ResidueKnown, CreatePcs, BranchPcs, LockedPcs, OwnPcs, BarePcs
<1>5. /\ Mine(p).phase # "rollback_claimed"
      /\ r.phase \notin FinishPhases /\ r.phase # "rollback_ref_removed"
  BY <1>k, <1>2 DEF RefPhases, AfterTree, FinishPhases
<1>6. refLock' = refLock \/ refLock' = [refLock EXCEPT ![b] = Free]
  BY <1>1
<1>7. \/ refClaim' = refClaim
      \/ /\ proc[p].pc \in Making
         /\ \E k \in {t, Foreign, NoClaim} : refClaim' = [refClaim EXCEPT ![t] = k]
  BY <1>1, <1>m
<1>8. r.alloc = "unstarted" => /\ Mine(p).alloc = "unstarted" /\ refClaim' = refClaim
                               /\ ref'[b].id # t
  BY <1>2, <1>k
<1>9. r.phase # Mine(p).phase => Mine(p).phase # "rollback_claimed"
  BY <1>5
<1>10. r.phase \in FinishPhases => Mine(p).phase \in FinishPhases
  BY <1>5
<1>11. refClaim'[t] # NoClaim => r.phase \in RefPhases \ {"rollback_ref_removed"}
  BY <1>1
<1>12. refLock'[b] = t => r.phase \in RefPhases
  BY <1>1
<1>13. r.phase # "rollback_ref_removed" /\ r = receipt'[proc[p].life]
  BY <1>5
<1>14. /\ HasReceipt(p) /\ Continue(p) /\ UNCHANGED tree /\ ResidueKnown(p)'
       /\ t = Token(p) /\ b = Mine(p).branch /\ ref' = ref
  BY <1>m, <1>u, <1>4
<1> QED BY <1>6, <1>7, <1>8, <1>9, <1>10, <1>11, <1>12, <1>13, <1>14, RefReceipted

-----------------------------------------------------------------------------
(* The steps that forget a receipt, and those of finish.                   *)

LEMMA Forgotten ==
  ASSUME IInv, RInv, NEW p \in Procs, HasReceipt(p),
         UNCHANGED <<ref, refLock, refClaim, tree>>, ResidueKnown(p)',
         receipt' = [receipt EXCEPT ![proc[p].life] = NoReceipt], Clean(Token(p))
  PROVE  Receipted(p)
<1>1. Spares(p) /\ NamesExist'
  BY DEF Spares, RInv, NamesExist
<1>2. proc[p].pc # "idle"
  BY DEF HasReceipt, Making, Finishing, CreatePcs, AbortPcs, FinishPcs
<1>3. \A l \in Lifecycles : l # proc[p].life => receipt'[l] = receipt[l]
  BY DEF IInv, TypeOK
<1>4. ASSUME NEW l \in Lifecycles, l = proc[p].life
      PROVE  /\ receipt'[l].phase = "none"
             /\ \A t \in Tokens : receipt[l].token = t => Clean(t)'
  <2>1. receipt'[l].phase = "none" /\ receipt[l].token = Token(p)
    BY <1>4, Own DEF NoReceipt
  <2> QED BY <2>1 DEF Clean, Nothing, Names
<1> QED BY <1>1, <1>2, <1>3, <1>4 DEF Receipted

LEMMA SettleReceipted ==
  ASSUME IInv, RInv, NEW p \in Procs, Settle(p)
  PROVE  Receipted(p)
<1> DEFINE phase == Mine(p).phase
           f == IF phase \in RollbackPhases THEN phase ELSE "bootstrap_failed"
<1>m. /\ proc[p].pc = "settle" /\ proc \in [Procs -> ProcStates] /\ HasReceipt(p)
  BY DEF Settle, IInv, TypeOK, HasReceipt, Making, AbortPcs
<1>u. UNCHANGED <<ref, refLock, refClaim, tree>>
  BY DEF Settle
<1>1. ResidueKnown(p)'
  <2>1. proc'[p].pc = "idle"
    BY <1>m DEF Settle, Exit, Idle
  <2> QED BY <2>1, ResidueKnowsNothing DEF ResiduePcs, CreatePcs, BranchPcs, LockedPcs
<1>2. CASE ~proc[p].residue
  <2>1. Clean(Token(p))
    BY <1>2, <1>m, Own DEF ResidueKnown
  <2> QED BY <1>1, <1>2, <1>m, <1>u, <2>1, Forgotten DEF Settle
<1>3. CASE proc[p].residue
  <2>1. /\ proc[p].life \in Lifecycles /\ receipt \in [Lifecycles -> Receipts]
        /\ Mine(p) = receipt[proc[p].life]
    BY <1>m, Own
  <2>2. Write(p, f)
    BY <1>3, <2>1 DEF Settle, Write
  <2>3. CASE f = phase
    <3>1. receipt' = receipt
      BY <2>1, <2>2, <2>3 DEF Write, Receipts
    <3> QED BY <3>1, <1>1, <1>u, Unaltered DEF disk
  <2>4. CASE f # phase
    <3>1. /\ f \in LIFECYCLE_PHASES \ FinishPhases /\ f # "rollback_ref_removed"
          /\ phase # "rollback_claimed" /\ phase \notin RefPhases
      BY <2>4 DEF LIFECYCLE_PHASES, CREATION_PHASES, RollbackPhases, AfterTree,
                  FinishPhases, RefPhases
    <3> QED BY <1>1, <1>m, <1>u, <2>2, <3>1, PhaseReceipted
  <2> QED BY <2>3, <2>4
<1> QED BY <1>2, <1>3

\* Finish rewrites its receipt and stays in its phases.
LEMMA FinishReceipted ==
  ASSUME IInv, RInv, NEW p \in Procs, HasReceipt(p), Mine(p).phase \in FinishPhases,
         UNCHANGED <<ref, refLock, refClaim, tree>>, ResidueKnown(p)',
         NEW r \in Receipts, r.phase \in FinishPhases, r.token = Token(p),
         r.branch = Mine(p).branch, r.alloc = Mine(p).alloc,
         receipt' = [receipt EXCEPT ![proc[p].life] = r]
  PROVE  Receipted(p)
<1>1. /\ Mine(p).phase # "rollback_claimed" /\ Mine(p).phase \notin RefPhases
      /\ r.phase # "rollback_ref_removed"
  BY DEF FinishPhases, RefPhases, AfterTree
<1>2. Allows(p, r)
  BY <1>1, AllowsPhase
<1> QED BY <1>2, Rewritten

LEMMA FinishLockReceipted ==
  ASSUME IInv, RInv, NEW p \in Procs, FinishLock(p)
  PROVE  Receipted(p)
<1> DEFINE l == proc[p].life
<1>m. /\ proc[p].pc = "f_lock" /\ proc \in [Procs -> ProcStates] /\ l \in Lifecycles
  BY DEF FinishLock, IInv, TypeOK, Control, LockDiscipline
<1>u. UNCHANGED <<ref, refLock, refClaim, tree>>
  BY DEF FinishLock
<1>1. proc'[p].pc \in {"idle", "f_again", "f_decide"}
  <2>1. \/ proc' = [proc EXCEPT ![p] = Idle]
        \/ proc' = [proc EXCEPT ![p].pc = "f_again", ![p].seen = NoReceipt]
        \/ proc' = [proc EXCEPT ![p].pc = "f_decide", ![p].seen = NoReceipt]
    BY DEF FinishLock, Exit
  <2> QED BY <2>1, <1>m DEF ProcStates, Idle
<1>2. ResidueKnown(p)'
  BY <1>1, ResidueKnowsNothing DEF ResiduePcs, CreatePcs, BranchPcs, LockedPcs
<1>3. CASE UNCHANGED receipt
  BY <1>2, <1>3, <1>u, Unaltered DEF disk
<1>4. CASE ~UNCHANGED receipt
  <2>1. /\ Write(p, "requested") /\ receipt[l] = proc[p].seen
        /\ receipt[l].phase \notin CREATION_PHASES
    BY <1>4 DEF FinishLock
  <2>2. Mine(p).phase \in FinishPhases
    BY <2>1, <1>m DEF IInv, Control, PhaseDiscipline, LIFECYCLE_PHASES, Mine
  <2>3. HasReceipt(p)
    BY <1>m, <2>2, Kinds DEF HasReceipt
  <2>4. /\ "requested" \in LIFECYCLE_PHASES /\ "rollback_claimed" \notin FinishPhases
        /\ RefPhases \cap FinishPhases = {}
    BY DEF LIFECYCLE_PHASES, FinishPhases, RefPhases, AfterTree
  <2> QED BY <1>2, <1>u, <2>1, <2>2, <2>3, <2>4, PhaseReceipted
<1> QED BY <1>3, <1>4

\* What every step of finish under its lock starts from.
LEMMA InFinish ==
  ASSUME IInv, RInv, NEW p \in Procs, proc[p].pc \in Finishing
  PROVE  /\ HasReceipt(p) /\ Mine(p).phase \in FinishPhases
         /\ proc \in [Procs -> ProcStates] /\ proc[p].life \in Lifecycles
         /\ receipt \in [Lifecycles -> Receipts] /\ Mine(p) = receipt[proc[p].life]
         /\ Mine(p) \in Receipts /\ Token(p) = Mine(p).token
<1>1. HasReceipt(p) /\ proc \in [Procs -> ProcStates]
  BY DEF HasReceipt, IInv, TypeOK
<1>2. Mine(p).phase \in FinishPhases
  BY DEF IInv, Control, PhaseDiscipline, Mine
<1> QED BY <1>1, <1>2, Own

LEMMA Exited ==
  ASSUME IInv, RInv, NEW p \in Procs, Exit(p)
  PROVE  ResidueKnown(p)'
<1>1. proc'[p].pc = "idle"
  BY DEF IInv, TypeOK, Exit, Idle
<1> QED BY <1>1, ResidueKnowsNothing DEF ResiduePcs, CreatePcs, BranchPcs, LockedPcs

LEMMA PendingReceipted ==
  ASSUME IInv, RInv, NEW p \in Procs, proc[p].pc \in Finishing, Pending(p),
         UNCHANGED <<ref, refLock, refClaim, tree>>
  PROVE  Receipted(p)
<1> DEFINE r == [Mine(p) EXCEPT !.phase = "requested", !.approved = NoSha]
<1>1. /\ r \in Receipts /\ r.phase \in FinishPhases /\ r.token = Token(p)
      /\ r.branch = Mine(p).branch /\ r.alloc = Mine(p).alloc
  BY InFinish DEF Receipts, LIFECYCLE_PHASES, FinishPhases
<1>2. receipt' = [receipt EXCEPT ![proc[p].life] = r]
  BY InFinish DEF Pending
<1>3. ResidueKnown(p)'
  BY Exited DEF Pending
<1> QED BY <1>1, <1>2, <1>3, InFinish, FinishReceipted

LEMMA DecideReceipted ==
  ASSUME IInv, RInv, NEW p \in Procs, FinishDecide(p) \/ FinishRecheck(p)
  PROVE  Receipted(p)
<1> DEFINE sha == ref[Mine(p).branch].sha
           r == [Mine(p) EXCEPT !.phase = "approved", !.approved = sha]
<1>m. proc[p].pc \in Finishing
  BY DEF FinishDecide, FinishRecheck, Finishing, FinishPcs
<1>u. UNCHANGED <<ref, refLock, refClaim, tree>>
  BY DEF FinishDecide, FinishRecheck
<1>1. CASE Pending(p)
  BY <1>1, <1>m, <1>u, PendingReceipted
<1>2. CASE Goto(p, "f_recheck") \/ Goto(p, "f_remove")
  <2>1. proc'[p].pc \in {"f_recheck", "f_remove"}
    BY <1>2, <1>m, InFinish, Went
  <2>2. ResidueKnown(p)'
    BY <2>1, ResidueKnowsNothing DEF ResiduePcs, CreatePcs, BranchPcs, LockedPcs
  <2>3. CASE UNCHANGED receipt
    BY <2>2, <2>3, <1>u, Unaltered DEF disk
  <2>4. CASE receipt' = [receipt EXCEPT ![proc[p].life].phase = "approved",
                                        ![proc[p].life].approved = sha]
    <3>1. receipt' = [receipt EXCEPT ![proc[p].life] = r]
      BY <2>4, <1>m, InFinish
    <3>2. sha \in Shas \cup {NoSha}
      BY <1>m, InFinish, Own DEF IInv, TypeOK, Refs
    <3>3. /\ r \in Receipts /\ r.phase \in FinishPhases /\ r.token = Token(p)
          /\ r.branch = Mine(p).branch /\ r.alloc = Mine(p).alloc
      BY <3>2, <1>m, InFinish DEF Receipts, LIFECYCLE_PHASES, FinishPhases
    <3> QED BY <3>1, <3>3, <2>2, <1>m, <1>u, InFinish, FinishReceipted
  <2>5. CASE Pending(p)
    BY <2>5, <1>m, <1>u, PendingReceipted
  <2> QED BY <2>3, <2>4, <2>5 DEF FinishDecide, FinishRecheck
<1> QED BY <1>1, <1>2 DEF FinishDecide, FinishRecheck

\* The ref is gone before the receipt says so, and stays gone for the process
\* that will forget the receipt.
LEMMA JournalReceipted ==
  ASSUME IInv, RInv, NEW p \in Procs, FinishResume(p) \/ FinishJournal(p)
  PROVE  Receipted(p)
<1> DEFINE b == Mine(p).branch
<1>m. proc[p].pc \in Finishing
  BY DEF FinishResume, FinishJournal, Finishing, FinishPcs
<1>u. UNCHANGED <<ref, refLock, refClaim, tree>>
  BY DEF FinishResume, FinishJournal
<1>1. CASE Exit(p) /\ UNCHANGED receipt
  BY <1>1, <1>u, Exited, Unaltered DEF disk
<1>2. ASSUME NEW f \in {"worktree_removed", "ref_deleted"}, Write(p, f), ResidueKnown(p)'
      PROVE  Receipted(p)
  <2>1. /\ f \in LIFECYCLE_PHASES /\ f # "rollback_ref_removed"
        /\ Mine(p).phase # "rollback_claimed" /\ Mine(p).phase \notin RefPhases
    BY <1>m, InFinish DEF LIFECYCLE_PHASES, FinishPhases, RefPhases, AfterTree
  <2> QED BY <1>2, <1>m, <1>u, <2>1, InFinish, PhaseReceipted
<1>3. CASE Write(p, "worktree_removed") /\ Goto(p, "f_ref")
  <2>1. proc'[p].pc = "f_ref"
    BY <1>3, <1>m, InFinish, Went
  <2>2. ResidueKnown(p)'
    BY <2>1, ResidueKnowsNothing DEF ResiduePcs, CreatePcs, BranchPcs, LockedPcs
  <2> QED BY <1>2, <1>3, <2>2
<1>4. CASE Write(p, "ref_deleted") /\ Goto(p, "f_forget") /\ ~Exists(b)
  <2>1. proc'[p].pc = "f_forget" /\ proc'[p].life = proc[p].life
    BY <1>4, <1>m, InFinish, Went DEF Goto, ProcStates
  <2>2. ref[b].id # Token(p)
    BY <1>4, <1>m, InFinish, Own DEF RInv, NamesExist, Exists
  <2>3. Mine(p)'.branch = b /\ Token(p)' = Token(p)
    BY <1>4, <1>m, <2>1, InFinish, OwnPhase
  <2>4. ResidueKnown(p)'
    BY <2>1, <2>2, <2>3, <1>u
    DEF ResidueKnown, CreatePcs, BranchPcs, LockedPcs, OwnPcs, BarePcs
  <2> QED BY <1>2, <1>4, <2>4
<1> QED BY <1>1, <1>3, <1>4 DEF FinishResume, FinishJournal

\* With the worktree and the ref gone nothing of the attempt is left.
LEMMA FinishForgetReceipted ==
  ASSUME IInv, RInv, NEW p \in Procs, FinishForget(p)
  PROVE  Receipted(p)
<1> PICK l : l = proc[p].life
  OBVIOUS
<1> PICK t : t = Token(p)
  OBVIOUS
<1> PICK b : b = Mine(p).branch
  OBVIOUS
<1>m. proc[p].pc = "f_forget" /\ proc[p].pc \in Finishing /\ Exit(p)
  BY DEF FinishForget, Finishing, FinishPcs
<1>u. UNCHANGED <<ref, refLock, refClaim, tree>>
  BY DEF FinishForget
<1>1. CASE UNCHANGED receipt
  BY <1>1, <1>m, <1>u, Exited, Unaltered DEF disk
<1>2. CASE Forget(p) /\ At(l) = {}
  <2>1. /\ Mine(p) = receipt[l] /\ t = receipt[l].token /\ Home(l) /\ Trace(l)
        /\ ResidueKnown(p) /\ Mine(p).phase \in FinishPhases
    BY <1>m, InFinish, Own
  <2>2. Mine(p).phase # "rollback_claimed" /\ Mine(p).phase \notin RefPhases
    BY <2>1 DEF FinishPhases, RefPhases, AfterTree
  <2>3. Nothing(t)
    BY <1>2, <2>1, <2>2 DEF Home
  <2>4. ref[b].id # t
    BY <1>m, <2>1 DEF ResidueKnown
  <2>5. refClaim[t] = NoClaim /\ ~Names(t)
    BY <2>1, <2>2, <2>4 DEF Trace, Names
  <2>6. Clean(Token(p))
    BY <2>3, <2>5 DEF Clean
  <2> QED BY <1>2, <1>m, <1>u, <2>6, InFinish, Exited, Forgotten DEF Forget
<1> QED BY <1>1, <1>2 DEF FinishForget

LEMMA FinishRefReceipted ==
  ASSUME IInv, RInv, NEW p \in Procs, FinishRef(p)
  PROVE  Receipted(p)
<1> PICK t : t = Token(p)
  OBVIOUS
<1> PICK b : b = Mine(p).branch
  OBVIOUS
<1> PICK l : l = proc[p].life
  OBVIOUS
<1>m. proc[p].pc = "f_ref" /\ proc[p].pc \in Finishing /\ (Continue(p) \/ Leave(p))
  BY FinishRefMoves DEF FinishRef, Finishing, FinishPcs
<1>u. UNCHANGED <<receipt, refLock, refClaim, tree>>
  BY DEF FinishRef
<1>1. CASE Exit(p) /\ UNCHANGED ref
  BY <1>1, <1>u, Exited, Unaltered DEF disk
<1>2. CASE ref' = [ref EXCEPT ![b] = NoRef] /\ Goto(p, "f_deleted")
  <2>1. proc'[p].pc = "f_deleted"
    BY <1>2, <1>m, InFinish, Went
  <2>2. Continue(p)
    BY <2>1, <1>m, InFinish DEF Leave, Exit, Idle
  <2>3. ResidueKnown(p)'
    BY <2>1, ResidueKnowsNothing DEF ResiduePcs, CreatePcs, BranchPcs, LockedPcs
  <2>4. /\ l \in Lifecycles /\ t = receipt[l].token /\ t # Foreign /\ b = receipt[l].branch
        /\ Home(l) /\ Trace(l) /\ receipt[l].phase \in FinishPhases
        /\ b \in Branches /\ ref \in [Branches -> Refs]
    BY <1>m, InFinish, Own DEF IInv, TypeOK
  <2>5. receipt[l].phase \notin RefPhases
    BY <2>4 DEF FinishPhases, RefPhases, AfterTree
  <2>6. refClaim[t] = NoClaim /\ refLock[b] # t
    BY <2>4, <2>5 DEF Trace
  <2>7. \A c \in Branches : ref'[c] = ref[c] \/ ref'[c] = NoRef
    BY <1>2, <2>4
  <2>8. NoRef.id = Foreign
    BY DEF NoRef
  <2>9. Spares(p) /\ NamesExist'
    BY <1>u, <2>7, <2>8 DEF Spares, RInv, NamesExist
  <2>10. Home(l)'
    BY <1>u, <2>4, HomeStands
  <2>11. \A c \in Branches : ref'[c].id = t => ref[c].id = t
    BY <2>4, <2>7, <2>8
  <2>12. Clean(t) => Clean(t)'
    BY <1>u, <2>11, CleanStands
  <2>13. receipt'[l].phase # "rollback_ref_removed" /\ refClaim'[t] \in {t, Foreign, NoClaim}
    BY <1>u, <2>4, <2>6 DEF FinishPhases
  <2>14. Trace(l)'
    BY <1>u, <2>4, <2>6, <2>11, <2>12, <2>13, TraceStands
  <2> QED BY <1>u, <2>2, <2>3, <2>9, <2>10, <2>14, GoesOn
<1> QED BY <1>1, <1>2 DEF FinishRef

-----------------------------------------------------------------------------
(* The steps that change worktrees: HInv says where they find them.        *)

LEMMA TreeReceipted ==
  ASSUME IInv, RInv, NEW p \in Procs, Continue(p), HasReceipt(p),
         UNCHANGED <<ref, refLock, refClaim>>, ResidueKnown(p)',
         NEW l, l = proc[p].life, NEW t, t = Token(p),
         \A u \in Ids : \/ u = t \/ tree'[u] = tree[u]
                        \/ u \in At(l) \/ u \in Claimed(t),
         Home(l)', Nothing(t) => Nothing(t)' \/ Mine(p).alloc # "unstarted",
         receipt'[l].alloc = Mine(p).alloc, Mine(p).phase \notin AfterTree,
         receipt'[l].phase \notin AfterTree
  PROVE  Receipted(p)
<1> PICK b : b = Mine(p).branch
  OBVIOUS
<1>o. /\ Mine(p) = receipt[l] /\ l \in Lifecycles /\ t \in Tokens /\ b \in Branches
      /\ t = receipt[l].token /\ b = receipt[l].branch
      /\ receipt'[l].token = t /\ receipt'[l].branch = b /\ Trace(l)
  BY Taken
<1>1. Spares(p) /\ NamesExist'
  BY DEF Spares, RInv, NamesExist, Tokens, Ids
<1>2. receipt[l].phase \notin RefPhases /\ receipt'[l].phase # "rollback_ref_removed"
  BY <1>o DEF RefPhases, AfterTree
<1>3. refClaim[t] = NoClaim /\ refLock[b] # t
  BY <1>o, <1>2 DEF Trace
<1>4. Mine(p).alloc = "unstarted" => (Clean(t) => Clean(t)')
  BY DEF Clean, Names
<1>5. refClaim'[t] = NoClaim /\ refLock'[b] # t
  BY <1>3
<1>6. Trace(l)'
  BY <1>o, <1>2, <1>4, <1>5, TraceStands
<1> QED BY <1>1, <1>6, GoesOn

LEMMA AddWorktreeReceipted ==
  ASSUME IInv, KInv, HInv, RInv, NEW p \in Procs, AddWorktree(p)
  PROVE  Receipted(p)
<1> PICK l : l = proc[p].life
  OBVIOUS
<1> PICK t : t = Token(p)
  OBVIOUS
<1> PICK b : b = Mine(p).branch
  OBVIOUS
<1> DEFINE new == [NoTree EXCEPT !.place = "target", !.life = l,
                                 !.admin = "registered", !.head = b]
<1>m. /\ proc[p].pc = "c_add" /\ HasReceipt(p) /\ Continue(p)
      /\ proc \in [Procs -> ProcStates] /\ tree \in [Ids -> Trees]
      /\ Mine(p).phase = "allocating"
  BY AddWorktreeMoves, Onward
  DEF AddWorktree, IInv, TypeOK, HasReceipt, HInv, ClaimKnown, AddingPcs
<1>o. /\ Mine(p) = receipt[l] /\ l \in Lifecycles /\ t \in Ids /\ t = receipt[l].token
      /\ b = receipt[l].branch /\ ResidueKnown(p)
  BY <1>m, Taken
<1>u. UNCHANGED <<receipt, ref, refLock, refClaim>>
  BY DEF AddWorktree
<1>w. proc'[p].pc \in {"c_bind", "claim"}
  BY <1>m, Went DEF AddWorktree
<1>1. ResidueKnown(p)'
  <2>1. Mine(p)' = Mine(p)
    BY <1>m, <1>u, Onward DEF Mine
  <2> QED BY <2>1, <1>m, <1>w
          DEF ResidueKnown, CreatePcs, BranchPcs, LockedPcs, OwnPcs, BarePcs
<1>2. CASE tree' = tree
  BY <1>1, <1>2, <1>u, Unaltered DEF disk
<1>3. CASE tree' # tree
  <2>1. tree' = [tree EXCEPT ![t] = new]
    BY <1>3 DEF AddWorktree
  <2>2. \A u \in Ids : u = t \/ tree'[u] = tree[u]
    BY <2>1, <1>m
  <2>3. Home(l)'
    <3>1. tree'[t] = new /\ new.place = "target" /\ new.life = l
          /\ new.admin = "registered" /\ new.head = b
      BY <2>1, <1>m, <1>o DEF NoTree
    <3> QED BY <3>1, <1>o, <1>u DEF Home, At
  <2>4. Mine(p).alloc # "unstarted"
    BY <1>m, <1>o DEF ResidueKnown
  <2>5. Mine(p).phase \notin AfterTree
    BY <1>m DEF AfterTree
  <2> QED BY <1>1, <1>m, <1>o, <1>u, <2>2, <2>3, <2>4, <2>5, TreeReceipted
<1> QED BY <1>2, <1>3

LEMMA BindTokenReceipted ==
  ASSUME IInv, KInv, HInv, RInv, NEW p \in Procs, BindToken(p)
  PROVE  Receipted(p)
<1> PICK l : l = proc[p].life
  OBVIOUS
<1> PICK t : t = Token(p)
  OBVIOUS
<1>m. /\ proc[p].pc = "c_bind" /\ HasReceipt(p) /\ Continue(p)
      /\ proc \in [Procs -> ProcStates] /\ tree \in [Ids -> Trees]
  BY BindTokenMoves, Onward DEF BindToken, IInv, TypeOK, HasReceipt
<1>o. /\ Mine(p) = receipt[l] /\ l \in Lifecycles /\ t \in Ids /\ t = receipt[l].token
      /\ Home(l) /\ ResidueKnown(p)
  BY <1>m, Taken
<1>u. UNCHANGED <<receipt, ref, refLock, refClaim>>
  BY DEF BindToken
<1>w. proc'[p].pc \in {"c_verify", "claim"}
  BY <1>m, Went DEF BindToken, Identify
<1>k. Mine(p).phase \in {"allocating", "bootstrap_pending"}
  BY <1>m, <1>o DEF ResidueKnown, CreatePcs
<1>1. ResidueKnown(p)'
  <2>1. Mine(p)' = Mine(p)
    BY <1>m, <1>u, Onward DEF Mine
  <2> QED BY <2>1, <1>k, <1>w
          DEF ResidueKnown, CreatePcs, BranchPcs, LockedPcs, OwnPcs, BarePcs
<1>2. CASE tree' = tree
  BY <1>1, <1>2, <1>u, Unaltered DEF disk
<1>3. CASE tree' # tree
  <2>1. tree' = [tree EXCEPT ![t].bound = TRUE] /\ t \in At(l)
    BY <1>3 DEF BindToken
  <2>2. \A u \in Ids : u = t \/ tree'[u] = tree[u]
    BY <2>1, <1>m
  <2>3. /\ tree'[t].place = tree[t].place /\ tree'[t].life = tree[t].life
        /\ tree'[t].admin = tree[t].admin /\ tree'[t].head = tree[t].head
        /\ tree[t].place = "target"
    BY <2>1, <1>m, <1>o DEF Trees, At
  <2>4. Home(l)' /\ ~Nothing(t)
    BY <2>1, <2>3, <1>o, <1>u DEF Home, Nothing, At
  <2>5. Mine(p).phase \notin AfterTree
    BY <1>k DEF AfterTree
  <2> QED BY <1>1, <1>m, <1>o, <1>u, <2>2, <2>4, <2>5, TreeReceipted
<1> QED BY <1>2, <1>3

LEMMA MoveToClaimReceipted ==
  ASSUME IInv, KInv, HInv, RInv, NEW p \in Procs, MoveToClaim(p)
  PROVE  Receipted(p)
<1> PICK l : l = proc[p].life
  OBVIOUS
<1> PICK t : t = Token(p)
  OBVIOUS
<1>m. /\ proc[p].pc = "move" /\ HasReceipt(p) /\ Continue(p)
      /\ proc \in [Procs -> ProcStates] /\ tree \in [Ids -> Trees]
      /\ Mine(p).phase \notin AfterTree \cup {"rollback_claimed"}
      /\ Mine(p).phase \notin FinishPhases
  BY MoveToClaimMoves, Onward, Kinds
  DEF MoveToClaim, IInv, TypeOK, HasReceipt, HInv, ClaimKnown, Control, PhaseDiscipline,
      Making, AbortPcs, Mine
<1>o. /\ Mine(p) = receipt[l] /\ l \in Lifecycles /\ t \in Ids /\ t = receipt[l].token
      /\ Home(l) /\ ResidueKnown(p)
  BY <1>m, Taken
<1>u. UNCHANGED <<receipt, ref, refLock, refClaim>>
  BY DEF MoveToClaim
<1>w. proc'[p].pc \in {"verify_claim", "branch"}
  BY <1>m, Went DEF MoveToClaim
<1>1. ResidueKnown(p)'
  <2>1. Mine(p)' = Mine(p)
    BY <1>m, <1>u, Onward DEF Mine
  <2> QED BY <2>1, <1>m, <1>w
          DEF ResidueKnown, CreatePcs, BranchPcs, LockedPcs, OwnPcs, BarePcs
<1>2. CASE tree' = tree
  BY <1>1, <1>2, <1>u, Unaltered DEF disk
<1>3. CASE tree' # tree
  <2>1. PICK u \in At(l) : /\ tree' = [tree EXCEPT ![u].place = "claim", ![u].tok = t]
                           /\ tree[u].admin = "registered"
    BY <1>3 DEF MoveToClaim
  <2>2. u \in Ids /\ \A v \in Ids : v = u \/ tree'[v] = tree[v]
    BY <2>1, <1>m DEF At
  <2>3. /\ tree'[u].place = "claim" /\ tree'[u].tok = t
        /\ tree'[u].admin = tree[u].admin /\ tree'[u].head = tree[u].head
        /\ tree[u].place = "target"
    BY <2>1, <2>2, <1>m DEF Trees, At
  <2>4. Home(l)' /\ (Nothing(t) => Nothing(t)')
    <3>1. CASE u = t
      BY <2>1, <2>3, <3>1, <1>m, <1>o, <1>u DEF Home, Nothing, Claimed
    <3>2. CASE u # t
      <4>1. tree'[t] = tree[t]
        BY <3>2, <2>2, <1>o
      <4> QED BY <4>1, <1>o, <1>u, HomeStands DEF Nothing
    <3> QED BY <3>1, <3>2
  <2>5. \A v \in Ids : v = t \/ tree'[v] = tree[v] \/ v \in At(l) \/ v \in Claimed(t)
    BY <2>2
  <2> QED BY <1>1, <1>m, <1>o, <1>u, <2>4, <2>5, TreeReceipted
<1> QED BY <1>2, <1>3

\* A claim that is put back is at its target again, one that is kept is
\* journaled.
LEMMA VerifyClaimReceipted ==
  ASSUME IInv, KInv, HInv, RInv, NEW p \in Procs, VerifyClaim(p)
  PROVE  Receipted(p)
<1> PICK l : l = proc[p].life
  OBVIOUS
<1> PICK t : t = Token(p)
  OBVIOUS
<1>m. /\ proc[p].pc = "verify_claim" /\ HasReceipt(p) /\ Continue(p)
      /\ proc \in [Procs -> ProcStates] /\ tree \in [Ids -> Trees]
      /\ Mine(p).phase \notin AfterTree /\ Mine(p).phase \notin FinishPhases
  BY VerifyClaimMoves, Onward, Kinds
  DEF VerifyClaim, IInv, TypeOK, HasReceipt, HInv, ClaimKnown, Control, PhaseDiscipline,
      Making, AbortPcs, Mine
<1>o. /\ Mine(p) = receipt[l] /\ l \in Lifecycles /\ t \in Ids /\ t = receipt[l].token
      /\ receipt \in [Lifecycles -> Receipts] /\ Home(l) /\ ResidueKnown(p)
      /\ receipt'[l].token = t /\ receipt'[l].branch = receipt[l].branch
  BY <1>m, Taken
<1>u. UNCHANGED <<ref, refLock, refClaim>>
  BY DEF VerifyClaim
<1>p. "rollback_claimed" \notin AfterTree \cup FinishPhases
  BY DEF AfterTree, FinishPhases
<1>1. CASE Write(p, "rollback_claimed") /\ Goto(p, "detach_tree") /\ UNCHANGED tree
  <2>1. proc'[p].pc = "detach_tree"
    BY <1>1, <1>m, Went
  <2>2. ResidueKnown(p)'
    BY <2>1, ResidueKnowsNothing DEF ResiduePcs, CreatePcs, BranchPcs, LockedPcs
  <2>3. receipt'[l].phase = "rollback_claimed" /\ receipt'[l].alloc = Mine(p).alloc
    BY <1>1, <1>o DEF Write, Receipts
  <2>4. Home(l)'
    BY <1>1, <1>o, <1>p, <2>3, HomeStands
  <2>5. \A u \in Ids : tree'[u] = tree[u]
    BY <1>1
  <2>6. Nothing(t) => Nothing(t)'
    BY <1>1 DEF Nothing
  <2> QED BY <1>m, <1>o, <1>p, <1>u, <2>2, <2>3, <2>4, <2>5, <2>6, TreeReceipted
<1>2. CASE /\ tree' = [u \in Ids |->
                IF u \in Claimed(t) /\ At(l) = {} /\ tree[u].admin = "registered"
                  THEN [tree[u] EXCEPT !.place = "target", !.life = l, !.tok = Foreign]
                  ELSE tree[u]]
           /\ Refuse(p, "branch") /\ UNCHANGED receipt
  <2>1. proc'[p].pc = "branch"
    BY <1>2, <1>m, Went
  <2>2. proc'[p].residue
    BY <1>2, <1>m DEF Refuse, ProcStates
  <2>3. ResidueKnown(p)'
    BY <2>1, <2>2 DEF ResidueKnown, CreatePcs, BranchPcs, LockedPcs, OwnPcs, BarePcs
  <2>4. \A u \in Ids : tree'[u] = tree[u] \/ u \in Claimed(t)
    BY <1>2
  <2>5. Home(l)' /\ (Nothing(t) => Nothing(t)')
    <3>1. CASE tree'[t] = tree[t]
      BY <3>1, <1>2, <1>o, HomeStands DEF Nothing
    <3>2. CASE tree'[t] # tree[t]
      <4>1. /\ tree'[t].place = "target" /\ tree'[t].life = l
            /\ tree'[t].admin = tree[t].admin /\ tree'[t].head = tree[t].head
            /\ tree[t].place = "claim"
        BY <3>2, <1>2, <1>m, <1>o, ZenonT(60) DEF Trees, Claimed
      <4>2. ~Nothing(t) /\ tree[t].admin = "registered"
            /\ tree[t].head = receipt[l].branch
        BY <4>1, <1>o DEF Home, Nothing
      <4> QED BY <4>1, <4>2, <1>2, <1>o DEF Home, At
    <3> QED BY <3>1, <3>2
  <2>6. receipt'[l].alloc = Mine(p).alloc /\ receipt'[l].phase \notin AfterTree
    BY <1>2, <1>o, <1>m
  <2> QED BY <1>m, <1>o, <1>u, <2>3, <2>4, <2>5, <2>6, TreeReceipted
<1> QED BY <1>1, <1>2 DEF VerifyClaim

\* What is taken apart in a rollback is in its disposal, until all of it goes.
LEMMA DetachTreeReceipted ==
  ASSUME IInv, KInv, HInv, RInv, NEW p \in Procs, DetachTree(p)
  PROVE  Receipted(p)
<1> PICK l : l = proc[p].life
  OBVIOUS
<1> PICK t : t = Token(p)
  OBVIOUS
<1>m. /\ proc[p].pc = "detach_tree" /\ HasReceipt(p) /\ Continue(p)
      /\ proc \in [Procs -> ProcStates] /\ tree \in [Ids -> Trees]
      /\ Mine(p).phase = "rollback_claimed" /\ proc[p].pc \in RepoPcs
  BY DetachTreeMoves, Onward, AtWork
  DEF DetachTree, IInv, TypeOK, HasReceipt, RepoPcs, AbortPcs, PhaseKnown
<1>o. /\ Mine(p) = receipt[l] /\ l \in Lifecycles /\ t \in Ids /\ t = receipt[l].token
      /\ Home(l) /\ ResidueKnown(p)
  BY <1>m, Taken
<1>u. UNCHANGED <<receipt, ref, refLock, refClaim>>
  BY DEF DetachTree
<1>1. /\ tree' = [u \in Ids |-> IF u \in Claimed(t)
                                  THEN [tree[u] EXCEPT !.place = "disposal"]
                                  ELSE tree[u]]
      /\ Goto(p, "detach_admin")
  <2>1. Claimed(t) \subseteq {t}
    BY <1>m, <1>o DEF HInv, ClaimsKept, OnlyClaim
  <2> QED BY <2>1 DEF DetachTree
<1>2. proc'[p].pc = "detach_admin"
  BY <1>1, <1>m, Went
<1>3. ResidueKnown(p)'
  BY <1>2, ResidueKnowsNothing DEF ResiduePcs, CreatePcs, BranchPcs, LockedPcs
<1>4. \A u \in Ids : tree'[u] = tree[u] \/ u \in Claimed(t)
  BY <1>1
<1>5. Home(l)' /\ (Nothing(t) => Nothing(t)')
  <2>1. CASE t \in Claimed(t)
    <3>1. tree'[t].place = "disposal" /\ tree[t].place = "claim"
      BY <2>1, <1>1, <1>m, <1>o DEF Trees, Claimed
    <3> QED BY <3>1, <1>m, <1>o, <1>u DEF Home, Nothing
  <2>2. CASE t \notin Claimed(t)
    <3>1. tree'[t] = tree[t]
      BY <2>2, <1>1, <1>o
    <3> QED BY <3>1, <1>m, <1>o, <1>u, HomeStands DEF Nothing, FinishPhases
  <2> QED BY <2>1, <2>2
<1>6. "rollback_claimed" \notin AfterTree
  BY DEF AfterTree
<1> QED BY <1>m, <1>o, <1>u, <1>3, <1>4, <1>5, <1>6, TreeReceipted

LEMMA DisposeReceipted ==
  ASSUME IInv, KInv, HInv, RInv, NEW p \in Procs, DetachAdmin(p) \/ Dispose(p)
  PROVE  Receipted(p)
<1> PICK l : l = proc[p].life
  OBVIOUS
<1> PICK t : t = Token(p)
  OBVIOUS
<1>m. /\ proc[p].pc \in {"detach_admin", "dispose"} /\ HasReceipt(p) /\ Continue(p)
      /\ proc \in [Procs -> ProcStates] /\ tree \in [Ids -> Trees]
      /\ Mine(p).phase = "rollback_claimed" /\ tree[t].place \in {"none", "disposal"}
  BY DetachAdminMoves, DisposeMoves, Onward, AtWork
  DEF DetachAdmin, Dispose, IInv, TypeOK, HasReceipt, RepoPcs, AbortPcs, PhaseKnown, HInv,
      ClaimKnown
<1>o. /\ Mine(p) = receipt[l] /\ l \in Lifecycles /\ t \in Ids /\ t = receipt[l].token
      /\ Home(l) /\ ResidueKnown(p) /\ Token(p)' = t
  BY <1>m, Taken
<1>u. UNCHANGED <<receipt, ref, refLock, refClaim>>
  BY DEF DetachAdmin, Dispose
<1>p. "rollback_claimed" \notin AfterTree
  BY DEF AfterTree
<1>i. Mine(p)' = Mine(p)
  BY <1>m, <1>u, Onward DEF Mine
<1>1. CASE Refuse(p, "branch") /\ tree' = tree
  <2>1. proc'[p].pc = "branch"
    BY <1>1, <1>m, Went
  <2>2. proc'[p].residue
    BY <1>1, <1>m DEF Refuse, ProcStates
  <2>3. ResidueKnown(p)'
    BY <2>1, <2>2 DEF ResidueKnown, CreatePcs, BranchPcs, LockedPcs, OwnPcs, BarePcs
  <2> QED BY <1>1, <1>u, <2>3, Unaltered DEF disk
<1>2. CASE /\ tree' = [tree EXCEPT ![t].admin = IF @ = "registered" THEN "disposal" ELSE @]
           /\ Goto(p, "dispose")
  <2>1. proc'[p].pc = "dispose"
    BY <1>2, <1>m, Went
  <2>2. ResidueKnown(p)'
    BY <2>1, ResidueKnowsNothing DEF ResiduePcs, CreatePcs, BranchPcs, LockedPcs
  <2>3. /\ \A u \in Ids : u = t \/ tree'[u] = tree[u]
        /\ tree'[t].place = tree[t].place
        /\ tree[t].admin # "registered" => tree'[t].admin = tree[t].admin
    BY <1>2, <1>m, <1>o DEF Trees
  <2>4. Nothing(t) => Nothing(t)'
    BY <2>3 DEF Nothing
  <2>5. Home(l)'
    BY <2>3, <2>4, <1>m, <1>o, <1>u DEF Home, At, Claimed
  <2> QED BY <1>m, <1>o, <1>p, <1>u, <2>2, <2>3, <2>4, <2>5, TreeReceipted
<1>3. CASE tree' = [tree EXCEPT ![t] = NoTree] /\ Goto(p, "journal_removed")
  <2>1. proc'[p].pc = "journal_removed"
    BY <1>3, <1>m, Went
  <2>2. (\A u \in Ids : u = t \/ tree'[u] = tree[u]) /\ Nothing(t)'
    BY <1>3, <1>m, <1>o DEF NoTree, Nothing
  <2>3. Home(l)'
    BY <2>2, <1>o, <1>u DEF Home, Nothing
  <2>4. Nothing(Token(p))'
    BY <2>2, <1>o DEF Nothing
  <2>5. ResidueKnown(p)'
    BY <2>1, <2>4, <1>i, <1>m, <1>p
    DEF ResidueKnown, CreatePcs, BranchPcs, LockedPcs, OwnPcs, BarePcs
  <2> QED BY <1>m, <1>o, <1>p, <1>u, <2>2, <2>3, <2>5, TreeReceipted
<1>4. CASE DetachAdmin(p)
  BY <1>4, <1>1, <1>2 DEF DetachAdmin
<1>5. CASE Dispose(p)
  BY <1>5, <1>1, <1>3, <1>m DEF Dispose
<1> QED BY <1>4, <1>5

LEMMA GitRemoveReceipted ==
  ASSUME IInv, KInv, HInv, RInv, NEW p \in Procs, GitRemove(p)
  PROVE  Receipted(p)
<1> PICK l : l = proc[p].life
  OBVIOUS
<1> PICK t : t = Token(p)
  OBVIOUS
<1>m. /\ proc[p].pc = "f_remove" /\ proc[p].pc \in Finishing
      /\ tree \in [Ids -> Trees] /\ (Continue(p) \/ Leave(p))
  BY GitRemoveMoves DEF GitRemove, Finishing, FinishPcs, IInv, TypeOK
<1>u. UNCHANGED <<receipt, ref, refLock, refClaim>>
  BY DEF GitRemove
<1>1. CASE Exit(p) /\ UNCHANGED tree
  BY <1>1, <1>u, Exited, Unaltered DEF disk
<1>2. CASE /\ \A u \in Ids : tree'[u] = tree[u] \/ (u \in At(l) /\ tree'[u] = NoTree)
           /\ Goto(p, "f_resume")
  <2>1. proc'[p].pc = "f_resume"
    BY <1>2, <1>m, InFinish, Went
  <2>2. Continue(p)
    BY <2>1, <1>m, InFinish DEF Leave, Exit, Idle
  <2>3. ResidueKnown(p)'
    BY <2>1, ResidueKnowsNothing DEF ResiduePcs, CreatePcs, BranchPcs, LockedPcs
  <2>4. /\ Mine(p) = receipt[l] /\ l \in Lifecycles /\ t \in Ids /\ t = receipt[l].token
        /\ Home(l) /\ Mine(p).phase \in FinishPhases /\ HasReceipt(p)
    BY <1>m, InFinish, Own
  <2>5. Mine(p).phase \notin AfterTree
    BY <2>4 DEF FinishPhases, AfterTree
  <2>6. Home(l)' /\ (Nothing(t) => Nothing(t)')
    <3>1. CASE tree'[t] = tree[t]
      BY <3>1, <1>u, <2>4, HomeStands DEF Nothing
    <3>2. CASE tree'[t] = NoTree
      BY <3>2, <1>u, <2>4, SMTT(30) DEF Home, Nothing, NoTree
    <3> QED BY <3>1, <3>2, <1>2, <2>4
  <2> QED BY <1>2, <1>u, <2>2, <2>3, <2>4, <2>5, <2>6, TreeReceipted
<1>3. CASE /\ tree' = [u \in Ids |->
                IF u \in At(l) /\ tree[u].admin = "registered" /\ ~tree[u].dirty
                  THEN NoTree ELSE tree[u]]
           /\ Goto(p, "f_resume")
  BY <1>2, <1>3
<1> QED BY <1>1, <1>3 DEF GitRemove

-----------------------------------------------------------------------------
(* What people do leaves nothing that was not there.                       *)

LEMMA OutsideTokens ==
  ASSUME IInv, Meddling, "detach" \notin Outside, NEW t \in Tokens
  PROVE  \/ tree'[t] = tree[t]
         \/ Visible(t) /\ tree'[t] \in {NoTree, [tree[t] EXCEPT !.dirty = TRUE]}
<1>t. tree \in [Ids -> Trees] /\ t \in Ids /\ t # Foreign
  BY BoundsAssumption DEF IInv, TypeOK, Tokens, Ids, Foreign
<1>1. CASE \E v \in Ids : UserEdit(v) \/ UserRemoveTree(v)
  BY <1>1, <1>t DEF UserEdit, UserRemoveTree
<1>2. ASSUME NEW b \in Branches, NEW l \in Lifecycles, UserAddTree(b, l)
      PROVE  tree'[t] = tree[t]
  BY <1>2, <1>t DEF UserAddTree
<1>3. \/ \E v \in Ids : UserEdit(v) \/ UserRemoveTree(v)
      \/ \E b \in Branches, l \in Lifecycles : UserAddTree(b, l)
      \/ tree' = tree
  BY DEF Meddling, UserCommit, SetRef, UserDetach, Meddle, UserDeleteBranch,
         UserCreateBranch, Land, disk
<1> QED BY <1>1, <1>2, <1>3

LEMMA OutsideLocks ==
  ASSUME Meddling
  PROVE  UNCHANGED <<refLock, refClaim, receipt, proc>>
  BY DEF Meddling, Meddle, UserCommit, UserDetach, UserEdit, UserRemoveTree, UserAddTree,
         UserDeleteBranch, UserCreateBranch, Land, disk

LEMMA OutsideRInv ==
  ASSUME IInv, RInv, Meddling, "commit_in_claim" \notin Outside, "detach" \notin Outside
  PROVE  RInv'
<1>q. UNCHANGED <<refLock, refClaim, receipt, proc>>
  BY OutsideLocks
<1>t. /\ tree \in [Ids -> Trees] /\ NoTree.place = "none" /\ NoTree.admin = "none"
      /\ NoRef.id = Foreign /\ \A t \in Tokens : t \in Ids /\ t # Foreign
  BY BoundsAssumption DEF IInv, TypeOK, NoTree, NoRef, Tokens, Ids, Foreign
<1>1. \A b \in Branches : ref'[b] = ref[b] \/ ref'[b].id = Foreign
  BY <1>t, OutsideRefs
<1>2. NamesExist'
  BY <1>1 DEF RInv, NamesExist
<1>3. ASSUME NEW t \in Tokens
      PROVE  \/ tree'[t].admin = "none" /\ tree'[t].place = "none"
             \/ /\ tree'[t].place = tree[t].place /\ tree'[t].admin = tree[t].admin
                /\ tree'[t].head = tree[t].head /\ tree'[t].life = tree[t].life
                /\ tree'[t].tok = tree[t].tok
  <2>1. [tree[t] EXCEPT !.dirty = TRUE].place = tree[t].place
        /\ [tree[t] EXCEPT !.dirty = TRUE].admin = tree[t].admin
        /\ [tree[t] EXCEPT !.dirty = TRUE].head = tree[t].head
        /\ [tree[t] EXCEPT !.dirty = TRUE].life = tree[t].life
        /\ [tree[t] EXCEPT !.dirty = TRUE].tok = tree[t].tok
    BY <1>t DEF Trees
  <2> QED BY <1>t, <2>1, OutsideTokens
<1>4. ASSUME NEW t \in Tokens PROVE Nothing(t) => Nothing(t)'
  BY <1>3 DEF Nothing
<1>5. ASSUME NEW t \in Tokens, Clean(t) PROVE Clean(t)'
  BY <1>1, <1>4, <1>5, <1>q, <1>t DEF Clean, Names
<1>6. ResidueIsReceipted'
  <2>1. \A t \in Tokens : Clean(t)' \/ \E l \in Lifecycles : receipt'[l].token = t
    BY <1>5, <1>q, AllClean DEF RInv
  <2> QED BY <2>1 DEF ResidueIsReceipted, Clean, Nothing, Names
<1>7. ASSUME NEW l \in Lifecycles, receipt[l].phase # "none"
      PROVE  Home(l)' /\ Trace(l)'
  <2> PICK t : t = receipt[l].token
    OBVIOUS
  <2> PICK b : b = receipt[l].branch
    OBVIOUS
  <2>1. t \in Tokens /\ b \in Branches /\ Home(l) /\ Trace(l)
    BY <1>7, BoundsAssumption DEF IInv, TypeOK, Control, Named, Tokens, RInv, Kept
  <2>2. receipt'[l] = receipt[l] /\ t \in Ids
    BY <1>q, <1>t, <2>1
  <2>3. Home(l)'
    BY <1>3, <2>1, <2>2 DEF Home, Nothing, At, Claimed
  <2>4. \A c \in Branches : /\ ref'[c].id = t => ref[c].id = t
                            /\ refLock'[c] = refLock[c]
    BY <1>1, <1>q, <1>t, <2>1
  <2>5. refClaim'[t] = refClaim[t] /\ refClaim[t] \in {t, Foreign, NoClaim}
    BY <1>q, <2>1 DEF Trace
  <2>6. /\ receipt[l].alloc = "unstarted" => (Clean(t) => Clean(t)')
        /\ receipt[l].phase = "rollback_ref_removed" => Nothing(t)' /\ ref'[b].id # t
    BY <1>4, <1>5, <2>1, <2>4 DEF Trace
  <2>7. Trace(l)'
    BY <2>1, <2>2, <2>4, <2>5, <2>6, TraceStands DEF Trace
  <2> QED BY <2>3, <2>7
<1>8. ASSUME NEW p \in Procs PROVE ResidueKnown(p)'
  <2> PICK t : t = Token(p)
    OBVIOUS
  <2> PICK b : b = Mine(p).branch
    OBVIOUS
  <2>1. Mine(p)' = Mine(p) /\ Token(p)' = t /\ proc'[p] = proc[p]
    BY <1>q DEF Mine, Token
  <2>2. CASE proc[p].pc \in Making \cup Finishing
    <3>1. t \in Tokens /\ b \in Branches /\ ResidueKnown(p)
      BY <2>2, Own DEF HasReceipt
    <3>2. /\ ref[b].id \in {t, Foreign} => ref'[b].id \in {t, Foreign}
          /\ ref[b].id # t => ref'[b].id # t
          /\ Nothing(t) => Nothing(t)'
          /\ Clean(t) => Clean(t)'
      BY <1>1, <1>4, <1>5, <1>t, <3>1
    <3>3. Clean(Token(p))' <=> Clean(t)'
      BY <2>1 DEF Clean, Nothing, Names
    <3>4. Nothing(Token(p))' <=> Nothing(t)'
      BY <2>1 DEF Nothing
    <3> QED BY <2>1, <3>1, <3>2, <3>3, <3>4, <1>q DEF ResidueKnown
  <2>3. CASE proc[p].pc \notin Making \cup Finishing
    <3>1. ResiduePcs \subseteq Making \cup Finishing
      BY DEF ResiduePcs, Making, Finishing, CreatePcs, AbortPcs, FinishPcs, BranchPcs,
             LockedPcs
    <3> QED BY <2>1, <2>3, <3>1, ResidueKnowsNothing
  <2> QED BY <2>2, <2>3
<1> QED BY <1>2, <1>6, <1>7, <1>8, <1>q DEF RInv, Kept

-----------------------------------------------------------------------------
(* Every step.                                                             *)

LEMMA EveryReceipted ==
  ASSUME IInv, KInv, HInv, RInv, [Next]_vars
  PROVE  (\E p \in Procs : Good(p) /\ Receipted(p)) \/ Meddling \/ UNCHANGED vars
<1>1. ASSUME NEW p \in Procs, Create(p) PROVE Good(p) /\ Receipted(p)
  <2>1. Receipted(p)
    BY <1>1, CreateReceiptReceipted, LocksReceipted, PrepareRefReceipted,
       CommitRefReceipted, AddWorktreeReceipted, BindTokenReceipted, VerifiedReceipted,
       BootstrapReceipted
    DEF Create
  <2> QED BY <1>1, <2>1, CreateGood
<1>2. ASSUME NEW p \in Procs, Abort(p) PROVE Good(p) /\ Receipted(p)
  <2> SUFFICES Receipted(p)
    BY <1>2, AbortGood
  <2>1. CASE RecoverLock(p)
    BY <2>1, LocksReceipted
  <2>2. CASE ClaimWorktree(p) \/ MoveToClaim(p) \/ VerifyClaim(p) \/ DetachTree(p)
    BY <2>2, ClaimWorktreeReceipted, MoveToClaimReceipted, VerifyClaimReceipted,
       DetachTreeReceipted
  <2>3. CASE DetachAdmin(p) \/ Dispose(p) \/ JournalRemoved(p)
    BY <2>3, DisposeReceipted, JournalRemovedReceipted
  <2>4. CASE BranchIntent(p) \/ LockRef(p) \/ CheckRef(p) \/ DetachRef(p)
    BY <2>4, BranchIntentReceipted, LockRefReceipted, CheckRefReceipted,
       DetachRefReceipted
  <2>5. CASE RecheckOwners(p) \/ RestoreRef(p) \/ UnclaimRef(p) \/ DropRef(p)
    BY <2>5, RecheckOwnersReceipted, RestoreRefReceipted, UnclaimRefReceipted,
       DropRefReceipted
  <2>6. CASE JournalRefGone(p) \/ UnlockRef(p) \/ Settle(p)
    BY <2>6, JournalRefGoneReceipted, UnlockRefReceipted, SettleReceipted
  <2> QED BY <1>2, <2>1, <2>2, <2>3, <2>4, <2>5, <2>6 DEF Abort
<1>3. ASSUME NEW p \in Procs, Finish(p) PROVE Good(p) /\ Receipted(p)
  <2>1. Receipted(p)
    BY <1>3, FinishLockReceipted, DecideReceipted, GitRemoveReceipted, LocksReceipted,
       JournalReceipted, FinishRefReceipted, FinishForgetReceipted
    DEF Finish
  <2> QED BY <1>3, <2>1, FinishGood
<1> QED BY <1>1, <1>2, <1>3, CrashGood, LocksReceipted, StartsGood, StartsReceipted
        DEF Next, Run

LEMMA InitRInv == Init => RInv
<1> SUFFICES ASSUME Init PROVE RInv
  OBVIOUS
<1>1. ASSUME NEW p \in Procs PROVE ResidueKnown(p)
  BY DEF Init, Idle, ResidueKnown, CreatePcs, BranchPcs, LockedPcs, OwnPcs, BarePcs
<1>2. ASSUME NEW t \in Tokens PROVE Clean(t)
  <2>1. t \in Ids /\ t # Foreign /\ t # Free
    BY BoundsAssumption DEF Tokens, Ids, Foreign, Free
  <2> QED BY <2>1 DEF Init, NoTree, NoRef, Clean, Nothing, Names
<1>3. NamesExist /\ Kept
  BY DEF Init, NoRef, NoReceipt, NamesExist, Kept
<1> QED BY <1>1, <1>2, <1>3, AllClean DEF RInv

LEMMA NextRInv ==
  ASSUME "commit_in_claim" \notin Outside, "detach" \notin Outside
  PROVE  IInv /\ KInv /\ HInv /\ RInv /\ [Next]_vars => RInv'
<1> SUFFICES ASSUME IInv, KInv, HInv, RInv, [Next]_vars PROVE RInv'
  OBVIOUS
<1>1. Shape
  BY NextIInv
<1>2. CASE \E p \in Procs : Good(p) /\ Receipted(p)
  BY <1>1, <1>2, ResidueStep
<1>3. CASE Meddling
  BY <1>3, OutsideRInv
<1>4. CASE UNCHANGED vars
  <2>1. ResidueIsReceipted' /\ NamesExist'
    BY <1>4 DEF vars, RInv, ResidueIsReceipted, NamesExist
  <2>2. Kept'
    BY <1>4 DEF vars, RInv, Kept, Home, Trace, Nothing, Names, Clean, At, Claimed
  <2>3. \A p \in Procs : ResidueKnown(p)'
    BY <1>4, SMTT(30) DEF vars, RInv, ResidueKnown, Nothing, Names, Clean, Mine, Token
  <2> QED BY <2>1, <2>2, <2>3 DEF RInv
<1> QED BY <1>2, <1>3, <1>4, EveryReceipted

\* Wherever create, its rollback, its recovery and finish are cut off, whatever
\* is on disk of an attempt has a receipt with the attempt's token.  Both
\* assumptions are needed.  Under a detached HEAD the rollback deletes the branch,
\* and the next recovery the receipt of the worktree that stays; a commit in a
\* claimed worktree leaves a headless checkout, which loses its receipt once its
\* branch has been made anew at the source.
THEOREM ResidueReceipted ==
  ASSUME "commit_in_claim" \notin Outside, "detach" \notin Outside
  PROVE  Spec => []ResidueIsReceipted
<1>1. Spec => [](IInv /\ KInv /\ HInv /\ RInv)
  BY InitIInv, InitKInv, InitHInv, InitRInv, NextIInv, NextKInv, NextHInv, NextRInv,
     PTL DEF Spec
<1>2. RInv => ResidueIsReceipted
  BY DEF RInv
<1> QED BY <1>1, <1>2, PTL
=============================================================================
