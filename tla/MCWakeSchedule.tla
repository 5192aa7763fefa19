--------------------------- MODULE MCWakeSchedule ---------------------------
(* Instances of WakeSchedule for TLC.                                      *)
EXTENDS WakeSchedule
=============================================================================
