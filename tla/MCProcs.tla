------------------------------ MODULE MCProcs ------------------------------
(* Instances of Procs for TLC. *)
EXTENDS ProcStacks

MCStatus == {0, 255}
=============================================================================
