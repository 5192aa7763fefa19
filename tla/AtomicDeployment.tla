-------------------------- MODULE AtomicDeployment --------------------------
(***************************************************************************)
(* What plugin-update.sh promises whoever looks at the deployment: the     *)
(* plugin's surfaces change together, to one version, when a cutover       *)
(* commits, and at no other time.  A cutover that fails or dies shows      *)
(* nothing.  Between cutovers the supervisor may be installed or removed.  *)
(***************************************************************************)
EXTENDS Naturals

CONSTANTS Versions, Supervisors, Installed

VARIABLES
  plugin,       \* registry, settings, wrappers and modes of the harness
  supervisor,   \* the LaunchAgent file, the install marker, the loaded job
  open          \* a cutover has begun and is not decided

vars == <<plugin, supervisor, open>>

Converged(v) ==
  [ registry |-> v, keys |-> "kept", pruned |-> TRUE, bin |-> v, schemas |-> v,
    runnable |-> TRUE ]

\* Before the first cutover the harness comes from a pinned checkout (0).
Pinned(v) ==
  [ registry |-> v, keys |-> "kept", pruned |-> FALSE, bin |-> 0, schemas |-> 0,
    runnable |-> FALSE ]

Init ==
  /\ \E v \in Versions : plugin \in {Converged(v), Pinned(v)}
  /\ supervisor \in Supervisors
  /\ open = FALSE

Open == ~open /\ open' = TRUE /\ UNCHANGED <<plugin, supervisor>>

Commit ==
  /\ open /\ open' = FALSE
  /\ \E v \in Versions : v >= plugin.registry /\ plugin' = Converged(v)
  /\ supervisor' = Installed

Abandon == open /\ open' = FALSE /\ UNCHANGED <<plugin, supervisor>>

Maintain ==
  /\ ~open /\ supervisor' \in Supervisors
  /\ UNCHANGED <<plugin, open>>

Next == Open \/ Commit \/ Abandon \/ Maintain

Spec == Init /\ [][Next]_vars
=============================================================================
