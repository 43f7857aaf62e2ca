----------------------------- MODULE TaskLedger -----------------------------
(***************************************************************************)
(* start_work, update_work and complete_work of one workspace              *)
(* (src/src/continuity/task-service.ts): mutations of state.json under the *)
(* workspace lock, each with a client chosen requestId that makes a repeat *)
(* answer the recorded result, and an expectedRevision that refuses a      *)
(* mutation made from a stale view.                                        *)
(*                                                                         *)
(* A client whose answer is lost (an error after the write, a crash) may   *)
(* repeat its request at any time, also while the first one is in flight.  *)
(* The receipts that may refuse a mutation are those of TrackedExecution;  *)
(* here they refuse nondeterministically.                                  *)
(***************************************************************************)
EXTENDS Integers, Sequences, FiniteSets

CONSTANTS
  Callers,      \* requests in flight at the same time
  RequestIds,   \* requestIds the clients use
  None,         \* no record
  MaxTasks,     \* bound: taskIds generated
  MaxRevision,  \* bound: revisions of a task
  MaxFaults,    \* bound: storage calls that fail
  MaxCrashes    \* bound: crashes and power losses

ASSUME LedgerAssumption ==
  /\ RequestIds # {}
  /\ MaxTasks \in Nat \ {0} /\ MaxRevision \in Nat \ {0}
  /\ MaxFaults \in Nat /\ MaxCrashes \in Nat

VARIABLES
  vis, dur,     \* state.json: as read now, and as a power loss would leave it
  wsQ,          \* #workspaceQueues: the holder (head) and the waiting callers
  pc,           \* what each caller does next
  req,          \* its request
  next,         \* the state it has computed and is about to write
  issued,       \* taskIds generated so far
  told,         \* the answers that clients have received (history)
  faults, crashes

vars == <<vis, dur, wsQ, pc, req, next, issued, told, faults, crashes>>

Tasks     == 1..MaxTasks
Revisions == 1..MaxRevision
Outcomes  == {"completed", "abandoned"}

\* What inputHmac tells apart: the kind, the task, the revision, the content.
Input ==
  [kind : {"create"}, task : {0}, expected : {0}, outcome : {"active"}]
  \cup [kind : {"update"}, task : Tasks, expected : Revisions, outcome : {"active"}]
  \cup [kind : {"complete"}, task : Tasks, expected : Revisions, outcome : Outcomes]

Result == [task : Tasks, revision : Revisions, workspaceRevision : Nat, status : Outcomes \cup {"active"}]

Dedupe == [input : Input, result : Result]

\* A task that does not exist has revision 0.
Task == [status : Outcomes \cup {"active"}, revision : 0..MaxRevision]

NoTask == [status |-> "active", revision |-> 0]

Snapshot ==
  [activeTask        : 0..MaxTasks,        \* activeTaskId, 0 is null
   workspaceRevision : Nat,
   tasks             : [Tasks -> Task],
   dedupe            : [RequestIds -> Dedupe \cup {None}]]

ASSUME NoneAssumption == None \notin Dedupe \cup Snapshot

Empty ==
  [activeTask |-> 0, workspaceRevision |-> 0, tasks |-> [t \in Tasks |-> NoTask],
   dedupe |-> [r \in RequestIds |-> None]]

NoRequest == [id |-> CHOOSE r \in RequestIds : TRUE,
              input |-> CHOOSE i \in Input : i.kind = "create"]

Init ==
  /\ vis = Empty /\ dur = Empty
  /\ wsQ = <<>>
  /\ pc = [c \in Callers |-> "idle"]
  /\ req = [c \in Callers |-> NoRequest]
  /\ next = [c \in Callers |-> None]
  /\ issued = 0 /\ told = {} /\ faults = 0 /\ crashes = 0

-----------------------------------------------------------------------------
(* Storage, and the answer of a request.                                    *)

MutantTrustsRead == UNCHANGED <<vis, dur>>

\* readWorkspace and findTask confirm the durability of what they return.
ReadState == dur' = vis /\ UNCHANGED vis

Fault == faults < MaxFaults /\ faults' = faults + 1

Holds(c) == wsQ # <<>> /\ Head(wsQ) = c

\* Whoever holds the workspace lock releases it when it returns.
Return(c) ==
  /\ pc' = [pc EXCEPT ![c] = "idle"]
  /\ req' = [req EXCEPT ![c] = NoRequest]
  /\ next' = [next EXCEPT ![c] = None]
  /\ wsQ' = IF Holds(c) THEN Tail(wsQ) ELSE wsQ

Answer(c, result) ==
  told' = told \cup {[id |-> req[c].id, input |-> req[c].input, result |-> result]}

-----------------------------------------------------------------------------
(* A request: requireTask outside of the lock, then the mutation under it.  *)

Call(c) ==
  /\ pc[c] = "idle"
  /\ \E r \in RequestIds, i \in Input :
       /\ i.task <= issued
       /\ req' = [req EXCEPT ![c] = [id |-> r, input |-> i]]
       /\ IF i.kind = "create"
          THEN pc' = [pc EXCEPT ![c] = "mutate"] /\ wsQ' = Append(wsQ, c)
          ELSE pc' = [pc EXCEPT ![c] = "find"] /\ UNCHANGED wsQ
  /\ UNCHANGED <<vis, dur, next, issued, told, faults, crashes>>

Exists(t) == vis.tasks[t].revision > 0

RequireTask(c) ==
  /\ pc[c] = "find"
  /\ \/ /\ ReadState /\ UNCHANGED faults
        /\ IF Exists(req[c].input.task)
           THEN /\ pc' = [pc EXCEPT ![c] = "mutate"]
                /\ wsQ' = Append(wsQ, c)
                /\ UNCHANGED <<req, next>>
           ELSE Return(c)
     \/ Fault /\ Return(c) /\ UNCHANGED <<vis, dur>>
  /\ UNCHANGED <<issued, told, crashes>>

MutantNoLock(c) == TRUE

\* withWorkspaceLock: the lock is held from readWorkspace to the write.
Locked(c) == Holds(c)

MutantNeverRepeated(c) == FALSE

\* checkDedupe
Repeated(c) ==
  LET d == vis.dedupe[req[c].id] IN d # None /\ d.input = req[c].input

IdConflict(c) ==
  LET d == vis.dedupe[req[c].id] IN d # None /\ d.input # req[c].input

MutantIgnoresClosed(i) ==
  IF i.kind = "create" THEN vis.activeTask = 0 ELSE vis.tasks[i.task].revision = i.expected

\* requireActiveTask and the revision check; create needs an idle workspace.
Permitted(i) ==
  IF i.kind = "create"
  THEN vis.activeTask = 0
  ELSE /\ vis.activeTask = i.task /\ vis.tasks[i.task].status = "active"
       /\ vis.tasks[i.task].revision = i.expected

\* The result the first mutation with this requestId recorded.
Replayed(c) == vis.dedupe[req[c].id].result

MutantKeepsActive(i, t) == t

\* activeTaskId after the mutation
ActiveAfter(i, t) == IF i.kind = "complete" THEN 0 ELSE t

Mutated(c, t) ==
  LET i    == req[c].input
      task == [status |-> i.outcome, revision |-> vis.tasks[t].revision + 1]
      res  == [task |-> t, revision |-> task.revision,
               workspaceRevision |-> vis.workspaceRevision + 1, status |-> task.status]
  IN [activeTask        |-> ActiveAfter(i, t),
      workspaceRevision |-> vis.workspaceRevision + 1,
      tasks             |-> [vis.tasks EXCEPT ![t] = task],
      dedupe            |-> [vis.dedupe EXCEPT ![req[c].id] = [input |-> i, result |-> res]]]

\* The task a permitted mutation is about; create generates a taskId.
Generates(c) == req[c].input.kind = "create"
About(c) == IF Generates(c) THEN issued + 1 ELSE req[c].input.task

Mutate(c) ==
  /\ pc[c] = "mutate" /\ Locked(c)
  /\ \/ /\ ReadState /\ Repeated(c)
        /\ Answer(c, Replayed(c))
        /\ Return(c)
        /\ UNCHANGED <<issued, faults>>
     \/ /\ ReadState /\ ~Repeated(c)
        /\ ~IdConflict(c) /\ Permitted(req[c].input)
        /\ About(c) \in Tasks /\ vis.tasks[About(c)].revision < MaxRevision
        /\ next' = [next EXCEPT ![c] = Mutated(c, About(c))]
        /\ issued' = IF Generates(c) THEN issued + 1 ELSE issued
        /\ pc' = [pc EXCEPT ![c] = "write"]
        /\ UNCHANGED <<wsQ, req, told, faults>>
     \/ /\ ReadState /\ ~Repeated(c)             \* refused, here or for its receipts
        /\ (Generates(c) => IdConflict(c) \/ ~Permitted(req[c].input) \/ issued = MaxTasks)
        /\ Return(c)
        /\ UNCHANGED <<issued, told, faults>>
     \/ Fault /\ Return(c) /\ UNCHANGED <<vis, dur, issued, told>>
  /\ UNCHANGED crashes

\* A write that throws may still be visible; a commit that throws may still be
\* completed by the recovery of its journal (StoreJournal).
Write(c) ==
  /\ pc[c] = "write"
  /\ \/ /\ vis' = next[c] /\ dur' = vis'
        /\ Answer(c, next[c].dedupe[req[c].id].result)
        /\ UNCHANGED faults
     \/ /\ Fault
        /\ vis' \in {vis, next[c]}
        /\ UNCHANGED <<dur, told>>
  /\ Return(c)
  /\ UNCHANGED <<issued, crashes>>

Restart ==
  /\ crashes < MaxCrashes
  /\ crashes' = crashes + 1
  /\ wsQ' = <<>>
  /\ pc' = [c \in Callers |-> "idle"]
  /\ req' = [c \in Callers |-> NoRequest]
  /\ next' = [c \in Callers |-> None]
  /\ UNCHANGED <<issued, told, faults>>

Crash == Restart /\ UNCHANGED <<vis, dur>>

PowerLoss == Restart /\ vis' \in {vis, dur} /\ dur' = vis'

Next ==
  \/ \E c \in Callers : Call(c) \/ RequireTask(c) \/ Mutate(c) \/ Write(c)
  \/ Crash \/ PowerLoss

Spec == Init /\ [][Next]_vars

-----------------------------------------------------------------------------
(* Properties.                                                              *)

TypeOK ==
  /\ vis \in Snapshot /\ dur \in Snapshot
  /\ wsQ \in Seq(Callers)
  /\ pc \in [Callers -> {"idle", "find", "mutate", "write"}]
  /\ req \in [Callers -> [id : RequestIds, input : Input]]
  /\ next \in [Callers -> Snapshot \cup {None}]
  /\ issued \in 0..MaxTasks
  /\ told \subseteq [id : RequestIds, input : Input, result : Result]
  /\ faults \in 0..MaxFaults /\ crashes \in 0..MaxCrashes

\* An answer holds for good: its requestId and result survive every crash and
\* power loss, so that a repeat answers the same and never mutates again.
AnswerSurvives ==
  \A a \in told : dur.dedupe[a.id] = [input |-> a.input, result |-> a.result]

\* A workspace has at most one active task, and activeTaskId names it.
Consistent(s) ==
  \A t \in Tasks :
    (s.tasks[t].revision > 0 /\ s.tasks[t].status = "active") <=> s.activeTask = t

OneActiveTask == TypeOK /\ Consistent(vis) /\ Consistent(dur)

\* Each recorded requestId has mutated the workspace exactly once, and no
\* mutation goes unrecorded.
Recorded(s) == {r \in RequestIds : s.dedupe[r] # None}

RecordedOnce ==
  \A s \in {vis, dur} : s.workspaceRevision = Cardinality(Recorded(s))

\* No lost update: clients whose mutations started from the same revision of a
\* task are not both told that they succeeded.
NoLostUpdate ==
  \A a, b \in told :
    a.result.task = b.result.task /\ a.result.revision = b.result.revision => a.id = b.id

\* A durable task never goes back to an earlier revision, and once closed it
\* never changes again.
TaskHistory ==
  [][\A t \in Tasks :
       /\ dur'.tasks[t].revision >= dur.tasks[t].revision
       /\ dur.tasks[t].status # "active" => dur'.tasks[t] = dur.tasks[t]]_vars

=============================================================================
