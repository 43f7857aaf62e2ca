---- MODULE MCProcessOutput ----
(* ProcessOutput for TLC: sessions that no client reads are interchangeable. *)
EXTENDS ProcessOutput

Symmetry == Permutations(Sessions \ Followed)
====
