-------------------------- MODULE MCSupervisorPass --------------------------
(* An instance of SupervisorPass for TLC.                                  *)
EXTENDS SupervisorPass
=============================================================================
