--------------------------- MODULE OperatorApproval ---------------------------
(***************************************************************************)
(* The operator approval bridge (src/src/operator-approval.ts and          *)
(* operator-approval-store.ts): a request is recorded, a person decides it *)
(* in a browser, and an approved one is executed once by a worker process, *)
(* under the workspace lock that a task completion takes as well. A write  *)
(* of the ledger may fail, which disables the store until a restart; the   *)
(* server may crash, and workers outlive it.                               *)
(*                                                                         *)
(* There is one owner and one task per workspace. The ledger's reads and   *)
(* mutations pass through a queue, so each is one step here. The checks of *)
(* the Kernel's identity and the browser's form are left out: they can     *)
(* only refuse.                                                            *)
(***************************************************************************)
EXTENDS Naturals, FiniteSets

CONSTANTS
  Approvals,     \* approval ids
  RequestIds,    \* idempotency keys of request_operator_approval
  Operations,    \* operationIds of execute_approved_operation
  Targets,       \* [workspace, cwd]: where an approved operation runs
  Requesters,    \* calls of request_operator_approval, each made once
  Executors,     \* calls of execute_approved_operation, each made once
  Nothing,
  MaxRecords,    \* 1000 in the code
  Ttl,           \* operatorApprovalTtlSeconds
  MaxClock,      \* bound: the clock stops there
  MaxMishaps     \* bound: failed writes and crashes

ASSUME ApprovalAssumption ==
  /\ Nothing \notin Approvals \cup RequestIds \cup Operations \cup Targets
  /\ {MaxRecords, Ttl} \subseteq Nat \ {0} /\ {MaxClock, MaxMishaps} \subseteq Nat
  /\ IsFiniteSet(Approvals) /\ MaxRecords <= Cardinality(Approvals)   \* there is always a fresh id
  /\ \A t \in Targets : {"workspace", "cwd"} \subseteq DOMAIN t

VARIABLES
  running,    \* whether the server runs with its ledger loaded
  broken,     \* of the store: a write has failed
  records,    \* the ledger in memory
  ledger,     \* ledger.json
  requester,  \* [requestId, target, pc] of each request call
  executor,   \* [id, op, pc] of each execute call
  closed,     \* workspaces whose task is complete
  worker,     \* the Kernel worker of each approval
  hook,       \* its terminal hook: it dies with the server
  runs,       \* history: how many workers each approval has had
  consented,  \* history: approvals that the operator approved in time
  time, mishaps

approvalVars == <<running, broken, records, ledger, requester, executor, closed, worker, hook,
                  runs, consented, time, mishaps>>

Record == [requestId : RequestIds, target : Targets, expires : Nat,
           status : {"pending", "approved", "denied", "executing", "succeeded", "unknown"},
           operation : Operations \cup {Nothing}]

Expired(r)    == r.expires <= time
Unresolved(r) == r.status \in {"executing", "unknown"}
Available     == running /\ ~broken
Ids           == DOMAIN records
OfRequest(q)  == {id \in Ids : records[id].requestId = q}

\* A call that is not under way.
RequestIs(pc)   == [requestId |-> Nothing, target |-> Nothing, pc |-> pc]
ExecutionIs(pc) == [id |-> Nothing, op |-> Nothing, pc |-> pc]

ApprovalInit ==
  /\ running = TRUE /\ broken = FALSE
  /\ records = << >> /\ ledger = << >>
  /\ requester = [c \in Requesters |-> RequestIs("idle")]
  /\ executor = [e \in Executors |-> ExecutionIs("idle")]
  /\ closed = {}
  /\ worker = [id \in Approvals |-> "none"] /\ hook = {}
  /\ runs = [id \in Approvals |-> 0] /\ consented = {}
  /\ time = 0 /\ mishaps = 0

processVars == <<worker, hook, runs>>
outerVars   == <<closed, consented, time>>

(* mutate(): the file is replaced before the memory. A failure before the rename leaves
   the old file, one after it the new file, and the memory unchanged: the store is then
   out of use. *)
SaveFailed(next) ==
  /\ mishaps < MaxMishaps /\ mishaps' = mishaps + 1
  /\ broken' = TRUE /\ ledger' \in {ledger, next}
  /\ UNCHANGED records

Saved(next) == records' = next /\ ledger' = next /\ UNCHANGED <<broken, mishaps>>

ledgerVars == <<records, ledger, broken, mishaps>>
-----------------------------------------------------------------------------
(* request(): the duplicate is looked for before the workspace and the Kernel are asked,
   and again in the mutation. *)

RequestDone(c) == requester' = [requester EXCEPT ![c] = RequestIs("done")]

Request(c) ==
  /\ requester[c].pc = "idle" /\ running
  /\ \E q \in RequestIds, t \in Targets :
       IF broken \/ OfRequest(q) # {} \/ t.workspace \in closed THEN RequestDone(c)
       ELSE requester' = [requester EXCEPT ![c] = [requestId |-> q, target |-> t, pc |-> "bound"]]
  /\ UNCHANGED <<ledgerVars, running, executor, processVars, outerVars>>

NewRecord(c) ==
  [requestId |-> requester[c].requestId, target |-> requester[c].target, expires |-> time + Ttl,
   status |-> "pending", operation |-> Nothing]

WithRecord(id, r) == [x \in Ids \cup {id} |-> IF x = id THEN r ELSE records[x]]

MutantNoSecondLook(c) == FALSE

Raced(c) == OfRequest(requester[c].requestId) # {}

RecordRequest(c) ==
  /\ requester[c].pc = "bound" /\ RequestDone(c)
  /\ \/ ~Available /\ UNCHANGED ledgerVars
     \/ /\ Available
        /\ IF Raced(c) \/ Cardinality(Ids) >= MaxRecords THEN UNCHANGED ledgerVars
           ELSE LET fresh == CHOOSE id \in Approvals \ Ids : TRUE
                    next  == WithRecord(fresh, NewRecord(c))
                IN Saved(next) \/ SaveFailed(next)
  /\ UNCHANGED <<running, executor, processVars, outerVars>>

\* decide(), by the operator's browser.
Decide(id, decision) ==
  LET next == [records EXCEPT ![id].status = decision] IN
  /\ Available /\ id \in Ids
  /\ records[id].status = "pending" /\ ~Expired(records[id])
  /\ Saved(next) \/ SaveFailed(next)
  /\ consented' = consented \cup IF decision = "approved" THEN {id} ELSE {}
  /\ UNCHANGED <<running, requester, executor, processVars, closed, time>>
-----------------------------------------------------------------------------
(* execute(): the record is read, and again under the workspace lock. *)

ESet(e, pc) ==
  executor' = [executor EXCEPT ![e] = IF pc = "done" THEN ExecutionIs(pc) ELSE [@ EXCEPT !.pc = pc]]
Of(e)       == records[executor[e].id]
Workspace(id) == records[id].target.workspace
Locked(w)   == \E e \in Executors : executor[e].pc \in {"locked", "reserved", "spawned", "uncertain"}
                                    /\ Workspace(executor[e].id) = w

Execute(e) ==
  /\ executor[e].pc = "idle" /\ Available
  /\ \E id \in Ids, op \in Operations :
       executor' = [executor EXCEPT ![e] = [id |-> id, op |-> op, pc |-> "waiting"]]
  /\ UNCHANGED <<ledgerVars, running, requester, processVars, outerVars>>

\* Under the lock: a replay and a consumed approval return, and so does an approval
\* whose task is not active.
Lock(e) ==
  /\ executor[e].pc = "waiting" /\ ~Locked(Workspace(executor[e].id))
  /\ ESet(e, IF broken \/ Of(e).operation # Nothing \/ Workspace(executor[e].id) \in closed
               THEN "done" ELSE "locked")
  /\ UNCHANGED <<ledgerVars, running, requester, processVars, outerVars>>

Conflicts(r, s) == r.target.workspace = s.target.workspace \/ r.target.cwd = s.target.cwd

Reservable(e) ==
  /\ Of(e).status = "approved" /\ ~Expired(Of(e))
  /\ \A id \in Ids : id # executor[e].id =>
       /\ ~(Unresolved(records[id]) /\ Conflicts(records[id], Of(e)))
       /\ records[id].operation # executor[e].op

ReservedLedger(e) ==
  [records EXCEPT ![executor[e].id].status = "executing", ![executor[e].id].operation = executor[e].op]

\* The reservation is durable before the worker starts.
Reserve(e) ==
  /\ executor[e].pc = "locked"
  /\ IF broken \/ ~Reservable(e) THEN ESet(e, "done") /\ UNCHANGED ledgerVars
     ELSE \/ Saved(ReservedLedger(e)) /\ ESet(e, "reserved")
          \/ SaveFailed(ReservedLedger(e)) /\ ESet(e, "done")
  /\ UNCHANGED <<running, requester, processVars, outerVars>>

\* processes.start(): it may throw before a process exists.
SpawnWorker(e) ==
  /\ executor[e].pc = "reserved"
  /\ \/ /\ ESet(e, "spawned")
        /\ worker' = [worker EXCEPT ![executor[e].id] = "running"]
        /\ hook' = hook \cup {executor[e].id}
        /\ runs' = [runs EXCEPT ![executor[e].id] = @ + 1]
     \/ ESet(e, "uncertain") /\ UNCHANGED processVars
  /\ UNCHANGED <<ledgerVars, running, requester, outerVars>>

\* The sessionId is recorded; the record's status is what it is by now.
RecordSession(e) ==
  /\ executor[e].pc = "spawned"
  /\ \/ ~broken /\ Saved(records) /\ ESet(e, "done")
     \/ ~broken /\ SaveFailed(records) /\ ESet(e, "uncertain")
     \/ broken /\ UNCHANGED ledgerVars /\ ESet(e, "uncertain")
  /\ UNCHANGED <<running, requester, processVars, outerVars>>

WithStatus(id, status) == [records EXCEPT ![id].status = status]

\* The catch of executeLocked().
Uncertain(e) ==
  /\ executor[e].pc = "uncertain" /\ ESet(e, "done")
  /\ \/ broken /\ UNCHANGED ledgerVars
     \/ ~broken /\ LET next == WithStatus(executor[e].id, "unknown") IN Saved(next) \/ SaveFailed(next)
  /\ UNCHANGED <<running, requester, processVars, outerVars>>
-----------------------------------------------------------------------------
(* The worker, its terminal hook, and a task completion. *)

WorkerEnds(id) ==
  /\ worker[id] = "running"
  /\ worker' \in {[worker EXCEPT ![id] = how] : how \in {"adopted", "failed"}}
  /\ UNCHANGED <<ledgerVars, running, requester, executor, hook, runs, outerVars>>

\* Only a complete output of an exit without error is a success.
Verdicts(id) == IF worker[id] = "adopted" THEN {"succeeded", "unknown"} ELSE {"unknown"}

\* finish(): the process manager drops the hook's error.
Finish(id) ==
  /\ running /\ id \in hook /\ worker[id] # "running"
  /\ hook' = hook \ {id}
  /\ \/ broken /\ UNCHANGED ledgerVars
     \/ ~broken /\ \E v \in Verdicts(id) : Saved(WithStatus(id, v)) \/ SaveFailed(WithStatus(id, v))
  /\ UNCHANGED <<running, requester, executor, worker, runs, outerVars>>

MutantSeesExecuting(w) ==
  broken \/ \E id \in Ids : Workspace(id) = w /\ records[id].status = "executing"

Blocked(w) == broken \/ \E id \in Ids : Workspace(id) = w /\ Unresolved(records[id])

\* complete_task(), under the workspace lock: additionalCompletionBlocker.
CompleteTask(w) ==
  /\ running /\ w \notin closed /\ ~Locked(w) /\ ~Blocked(w)
  /\ closed' = closed \cup {w}
  /\ UNCHANGED <<ledgerVars, running, requester, executor, processVars, consented, time>>
-----------------------------------------------------------------------------
Pass ==
  /\ time < MaxClock /\ time' = time + 1
  /\ UNCHANGED <<ledgerVars, running, requester, executor, processVars, closed, consented>>

\* The server dies: its calls and hooks are lost, its workers are not.
CrashServer ==
  /\ running /\ mishaps < MaxMishaps /\ mishaps' = mishaps + 1
  /\ running' = FALSE /\ hook' = {}
  /\ requester' = [c \in Requesters |-> RequestIs(IF requester[c].pc = "idle" THEN "idle" ELSE "done")]
  /\ executor' = [e \in Executors |-> ExecutionIs(IF executor[e].pc = "idle" THEN "idle" ELSE "done")]
  /\ UNCHANGED <<broken, records, ledger, worker, runs, outerVars>>

MutantReapproves ==
  [id \in DOMAIN ledger |->
     [ledger[id] EXCEPT !.status = IF @ = "executing" THEN "approved" ELSE @]]

Interrupted ==
  [id \in DOMAIN ledger |->
     [ledger[id] EXCEPT !.status = IF @ = "executing" THEN "unknown" ELSE @]]

\* initialize(): what was executing is unknown, durably, before the store is used.
StartServer ==
  /\ ~running
  /\ running' = TRUE /\ broken' = FALSE
  /\ ledger' = Interrupted /\ records' = Interrupted
  /\ UNCHANGED <<requester, executor, processVars, outerVars, mishaps>>

ApprovalNext ==
  \/ \E c \in Requesters : Request(c) \/ RecordRequest(c)
  \/ \E id \in Approvals : Decide(id, "approved") \/ Decide(id, "denied") \/ WorkerEnds(id) \/ Finish(id)
  \/ \E e \in Executors :
       \/ Execute(e) \/ Lock(e) \/ Reserve(e) \/ SpawnWorker(e) \/ RecordSession(e) \/ Uncertain(e)
  \/ \E t \in Targets : CompleteTask(t.workspace)
  \/ Pass \/ CrashServer \/ StartServer

ApprovalSpec == ApprovalInit /\ [][ApprovalNext]_approvalVars
-----------------------------------------------------------------------------
(* Properties. *)

ApprovalTypeOK ==
  /\ {running, broken} \subseteq BOOLEAN
  /\ Ids \subseteq Approvals /\ DOMAIN ledger \subseteq Approvals
  /\ \A id \in Ids : records[id] \in Record
  /\ \A id \in DOMAIN ledger : ledger[id] \in Record
  /\ hook \subseteq {id \in Approvals : worker[id] # "none"}
  /\ closed \subseteq {t.workspace : t \in Targets}
  /\ Cardinality(Ids) <= MaxRecords

\* An approval is consumed once: over retries with the same or another operationId,
\* identical requests made at once, failed writes of the ledger and restarts, no request
\* id has more than one worker; the worker's reservation is in the file before it starts,
\* under an operationId of its own, and only after the operator has approved it.
ConsumedOnce ==
  /\ ApprovalTypeOK
  /\ \A id, x \in Approvals :
       runs[id] > 0 =>
         /\ id \in consented /\ runs[id] = 1
         /\ id \in DOMAIN ledger /\ ledger[id].operation # Nothing
         /\ x # id /\ runs[x] > 0 => /\ ledger[x].operation # ledger[id].operation
                                     /\ ledger[x].requestId # ledger[id].requestId

\* While a worker runs, whatever became of the call that started it and of the server,
\* the ledger says that the execution is unresolved, so that nothing else starts there;
\* and success is recorded only of a worker that adopted the identity.
OutcomeIsHonest ==
  \A id \in DOMAIN ledger :
    /\ worker[id] = "running" => Unresolved(ledger[id])
    /\ ledger[id].status = "succeeded" => worker[id] = "adopted"

\* No worker runs for a completed task: the reservation, the completion and the terminal
\* hook interleave, and a crash or a broken ledger in between does not open the way.
CompletedTaskIsQuiet ==
  \A id \in DOMAIN ledger :
    worker[id] = "running" => ledger[id].target.workspace \notin closed
=============================================================================
