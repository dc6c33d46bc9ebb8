------------------------------- MODULE Absent -------------------------------
(* The value that stands for a missing entry (a nil pointer, an absent map   *)
(* key) in the modules of the supervisor's smaller services.                 *)
CONSTANT Nil
=============================================================================
