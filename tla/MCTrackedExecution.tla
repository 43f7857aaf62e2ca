------------------------ MODULE MCTrackedExecution ------------------------
(* Model checking of TrackedExecution on small instances.                  *)
EXTENDS TrackedExecution, TLC

Symmetry == Permutations(Callers)

\* One operation is used, with all inputs, boots and faults ...
OneOperation ==
  \A o \in Ops \ {1} :
    vis[o] = None /\ \A c \in Callers : pc[c] # "idle" => o \notin {req[c].op} \cup req[c].batch

\* ... or all are, with one input and no failing call: the first process starts the
\* commands, and the second is asked to reconcile them and to complete the task.
OneInput ==
  /\ boot <= 2 /\ faults = 0
  /\ \A c \in Callers :
       /\ req[c].input = NoRequest.input
       /\ boot = 1 => req[c].choice = "none"
       /\ boot = 2 /\ pc[c] = "prepare" => vis[req[c].op] # None
  /\ \A o \in Ops : vis[o] # None => vis[o].input = NoRequest.input

Bounded == OneOperation \/ OneInput

BoundedSpec == Init /\ [][Next /\ Bounded']_vars
=============================================================================
