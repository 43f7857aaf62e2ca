---- MODULE MCStoreJournal ----
(* StoreJournal for TLC: the receipts are interchangeable. *)
EXTENDS StoreJournal, TLC

Symmetry == Permutations(Receipts)
====
