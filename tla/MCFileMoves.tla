------------------------------ MODULE MCFileMoves ------------------------------
(* Calls of move_path whose steps interleave. *)
EXTENDS FileMoves
================================================================================
