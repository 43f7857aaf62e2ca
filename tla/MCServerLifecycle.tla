--------------------------- MODULE MCServerLifecycle ---------------------------
(* ServerLifecycle for TLC: either the starts of all servers overlap, or two  *)
(* of them serve commands.                                                    *)
EXTENDS ServerLifecycle, FiniteSets, TLC

Symmetry == Permutations(Servers) \cup Permutations(Operations)

\* Only a start and a request, which need not come, are held back by it.
Bounded ==
  (\A o \in Operations : step[o] = "idle") \/ Cardinality({s \in Servers : phase[s] # "off"}) <= 2

BoundedSpec == Init /\ [][Next /\ Bounded']_vars /\ Fairness
================================================================================
