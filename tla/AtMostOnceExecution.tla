---------------------- MODULE AtMostOnceExecution ----------------------
(***************************************************************************)
(* What the durable receipts promise to the clients: for each operationId, *)
(* a ledger entry that only moves forward, a command that starts at most   *)
(* once and only after the entry was made, and reports that are never      *)
(* withdrawn.  Several entries may move in one step (a power loss settles  *)
(* which of the unsynced files survive).  TrackedExecution implements it.  *)
(***************************************************************************)
EXTENDS Naturals

CONSTANT Ops

VARIABLES
  entry,   \* "none", or the state of the durable receipt
  runs,    \* how often the command has started
  told     \* the final states that clients were told

Final == {"exited", "spawn_failed"}

Init ==
  /\ entry = [o \in Ops |-> "none"]
  /\ runs = [o \in Ops |-> 0]
  /\ told = [o \in Ops |-> {}]

\* Only a prepared entry that has not run may run.
Launch(o) ==
  /\ entry[o] = "prepared" /\ entry'[o] = "prepared"
  /\ runs[o] = 0 /\ runs'[o] = 1
  /\ told'[o] = told[o]

\* The entries that may follow the entry of o; the outcome must be true.
Later(o) ==
  {entry[o]} \cup
  CASE entry[o] = "none" -> {"prepared", "unknown"}
    [] entry[o] \in {"prepared", "running"} ->
         {"running", "unknown", IF runs[o] = 1 THEN "exited" ELSE "spawn_failed"}
    [] OTHER -> {}

\* The entry stays or moves forward; a client may be told that it is final.
Advance(o) ==
  /\ entry'[o] \in Later(o)
  /\ told'[o] \in {told[o], told[o] \cup ({entry'[o]} \cap Final)}
  /\ runs'[o] = runs[o]

Next == \A o \in Ops : Launch(o) \/ Advance(o)

Spec == Init /\ [][Next]_<<entry, runs, told>>
=============================================================================
