---------------------------- MODULE MCHostExecutor ----------------------------
(* One job, and a companion that dies once. *)
EXTENDS HostExecutor
================================================================================
