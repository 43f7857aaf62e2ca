---- MODULE MCTaskLedger ----
(* TaskLedger for TLC: callers and requestIds are interchangeable. *)
EXTENDS TaskLedger, TLC

Symmetry == Permutations(Callers)
====
