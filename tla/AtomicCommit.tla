---------------------------- MODULE AtomicCommit ----------------------------
(***************************************************************************)
(* What the continuity store promises its callers, whatever files it uses: *)
(* a transaction changes all of its targets at once; a write that was not  *)
(* confirmed may be undone by a power loss; nothing that a caller was told *)
(* is ever undone.  StoreJournal implements this specification.            *)
(***************************************************************************)
EXTENDS Integers

CONSTANTS
  Targets,                \* state.json and the receipts
  Versions                \* numbers: one for each write or transaction

VARIABLES
  content,                \* the version of each target that a read returns
  undo,                   \* the versions a power loss may bring back
  known,                  \* the newest version a caller was told of
  scope                   \* the targets that a version is for

vars == <<content, undo, known, scope>>

Init ==
  /\ content = [f \in Targets |-> 0]
  /\ undo = [f \in Targets |-> {}]
  /\ known = [f \in Targets |-> 0]
  /\ scope = [v \in Versions |-> {}]

\* A new version, for a write or a transaction on the targets in S.
Begin(v, S) ==
  /\ scope[v] = {}
  /\ scope' = [scope EXCEPT ![v] = S]
  /\ UNCHANGED <<content, undo, known>>

\* A write of one file: until it is confirmed, the old version may come back.
Write(f) ==
  /\ content'[f] > content[f] /\ scope[content'[f]] = {f}
  /\ undo'[f] = undo[f] \cup {content[f]}
  /\ \A g \in Targets \ {f} : content'[g] = content[g] /\ undo'[g] = undo[g]
  /\ UNCHANGED <<known, scope>>

\* All the targets of one new version move to it together, and for good.
Moves(S) ==
  \A f \in S : /\ content'[f] > content[f] /\ scope[content'[f]] = S
               /\ undo[f] = {} /\ undo'[f] = {}

Transact(S) ==
  /\ Moves(S)
  /\ \A f \in Targets \ S : content'[f] = content[f] /\ undo'[f] \in {undo[f], {}}
  /\ UNCHANGED <<known, scope>>

\* Some targets become durable, and callers may be told of them.
Confirm ==
  /\ UNCHANGED <<content, scope>>
  /\ \A f \in Targets :
       /\ undo'[f] \in {undo[f], {}}
       /\ known'[f] = known[f] \/ (known'[f] = content[f] /\ undo'[f] = {})

\* A transaction that nobody was told of may turn out to be decided.
PowerLoss(S) ==
  /\ Moves(S)
  /\ \A f \in Targets \ S : content'[f] \in {content[f]} \cup undo[f]
  /\ undo' = [f \in Targets |-> {}]
  /\ UNCHANGED <<known, scope>>

Next ==
  \/ Confirm
  \/ \E f \in Targets : Write(f)
  \/ \E S \in SUBSET Targets :
       Transact(S) \/ PowerLoss(S) \/ \E v \in Versions : Begin(v, S)

Spec == Init /\ [][Next]_vars

=============================================================================
