-------------------------- MODULE MCSupervisorBoot --------------------------
(* Instances of SupervisorBoot for TLC.                                     *)
EXTENDS SupervisorBoot
=============================================================================
