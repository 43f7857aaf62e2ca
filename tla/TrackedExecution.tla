------------------------- MODULE TrackedExecution -------------------------
(***************************************************************************)
(* A tracked command: the protocol that exec_command, run_script,          *)
(* read_process, update_work and complete_work run against one receipt     *)
(* file per operationId (src/src/exec-tools.ts,                            *)
(* src/src/continuity/execution-recorder.ts, task-store.ts, task-service.ts *)
(* and the process life cycle of src/src/process-manager.ts).              *)
(*                                                                         *)
(* One workspace and one task.  An actor is a request being served (a      *)
(* member of Callers) or the terminal hook of an operation's process (the  *)
(* operation itself).  Node is single threaded: what a handler does        *)
(* between two awaits is one action, and so is every TaskStore call,       *)
(* because #withStorageLock lets one of them run at a time.                *)
(***************************************************************************)
EXTENDS Integers, Sequences, FiniteSets

CONSTANTS
  Callers,    \* requests in flight at the same time
  Ops,        \* operationIds, numbered in the order reconciliations sort them
  Inputs,     \* the semantic inputs a client may attach to an operationId
  None,       \* no receipt
  MaxBoots,   \* bound: server processes started
  MaxFaults   \* bound: storage calls that fail

ASSUME ConstantsAssumption ==
  /\ Ops \subseteq Nat /\ Ops # {} /\ Inputs # {}
  /\ Callers \cap Ops = {}
  /\ MaxBoots \in Nat \ {0} /\ MaxFaults \in Nat

VARIABLES
  up,         \* "booting" while initialize() runs, then "up"
  boot,       \* bootId of the current server process
  pc,         \* what each actor does next
  req,        \* the arguments of each caller's request
  seen,       \* the receipts an actor has read and still uses
  wsQ,        \* #workspaceQueues: who holds (head) and who awaits the lock
  exQ,        \* #executionQueues, one per operation
  vis,        \* the receipt a read of the file returns now
  dur,        \* the receipt a power loss would leave behind
  taskVis,    \* status of the task in state.json, as read now
  taskDur,    \* and as a power loss would leave it
  proc,       \* the child process of the operation in this boot
  managed,    \* ProcessManager still keeps its session
  attempts,   \* how often ProcessManager.start returned a session for it
  runs,       \* how often its command began to run (a history variable)
  promised,   \* settled states reported to a client as "verified" (history)
  faults      \* storage failures so far (bounded by MaxFaults)

locks   == <<wsQ, exQ>>
tasks   == <<taskVis, taskDur>>
files   == <<vis, dur>>
procs   == <<proc, managed, attempts, runs>>
session == <<pc, req, seen>>
vars    == <<up, boot, session, locks, files, tasks, procs, promised, faults>>

Actors == Callers \cup Ops

Settled   == {"exited", "spawn_failed"}
Unsettled == {"prepared", "running"}

Receipt ==
  [state      : Settled \cup Unsettled \cup {"unknown"},
   input      : Inputs,
   boot       : 1..MaxBoots,
   session    : Nat,                \* 0 is null
   degraded   : BOOLEAN,
   resolution : {"none", "verified_no_retry", "external_effect_unknown"}]
                          \* "superseded" is treated like verified_no_retry

ASSUME NoneAssumption == None \notin Receipt

Request ==
  [op     : Ops,
   input  : Inputs,
   batch  : SUBSET Ops,             \* operations to reconcile ...
   todo   : SUBSET Ops,             \* ... and those not yet locked and read
   choice : {"none", "verified_no_retry", "external_effect_unknown",
             "completed", "abandoned"}]

NoRequest ==
  [op |-> CHOOSE o \in Ops : TRUE, input |-> CHOOSE i \in Inputs : TRUE,
   batch |-> {}, todo |-> {}, choice |-> "none"]

Unread == [o \in Ops |-> None]

CallerPC ==
  {"idle", "prepare", "claim", "writePrepared", "spawn",
   "markRunning", "writeRunning", "markDegraded", "writeDegraded",
   "markFailed", "writeFailed", "observe", "awaitHook", "poll", "pollHook",
   "complete", "listReceipts", "writeTask",
   "reconcile", "lockReceipt", "commit"}
HookPC == {"idle", "markTerminal", "writeTerminal"}

Init ==
  /\ up = "up" /\ boot = 1
  /\ pc = [a \in Actors |-> "idle"]
  /\ req = [c \in Callers |-> NoRequest]
  /\ seen = [a \in Actors |-> Unread]
  /\ wsQ = <<>> /\ exQ = [o \in Ops |-> <<>>]
  /\ vis = Unread /\ dur = Unread
  /\ taskVis = "active" /\ taskDur = "active"
  /\ proc = [o \in Ops |-> "none"] /\ managed = [o \in Ops |-> FALSE]
  /\ attempts = [o \in Ops |-> 0] /\ runs = [o \in Ops |-> 0]
  /\ promised = [o \in Ops |-> {}]
  /\ faults = 0

-----------------------------------------------------------------------------
(* Locks: #serialize chains promises, so a lock is a FIFO queue whose head  *)
(* runs.  Leaving the operation, by return or by throw, releases it.        *)
(* The definitions named Mutant... are plausible bugs; none is part of the  *)
(* model, each shows which property notices it.                             *)

MutantNoExclusion(a, q) == \E i \in DOMAIN q : q[i] = a

Holds(a, q) == q # <<>> /\ Head(q) = a

MutantLeakedLock(a, q) == q

Unlocked(a, q) == IF Holds(a, q) THEN Tail(q) ELSE q

ReleaseAll(a) ==
  /\ wsQ' = Unlocked(a, wsQ)
  /\ exQ' = [o \in Ops |-> Unlocked(a, exQ[o])]

Enqueued(a, o) == [exQ EXCEPT ![o] = Append(@, a)]

Goto(a, label) == pc' = [pc EXCEPT ![a] = label]

\* A tool call answers, whatever the answer: its locks and data are gone.
Return(c) ==
  /\ Goto(c, "idle")
  /\ req' = [req EXCEPT ![c] = NoRequest]
  /\ seen' = [seen EXCEPT ![c] = Unread]
  /\ ReleaseAll(c)

HookDone(o) ==
  /\ Goto(o, "idle")
  /\ seen' = [seen EXCEPT ![o] = Unread]
  /\ ReleaseAll(o)
  /\ UNCHANGED req

-----------------------------------------------------------------------------
(* Storage.  A read confirms durability before it returns.  A write that    *)
(* throws may have failed before its rename, or after it, in which case the *)
(* new receipt is visible but a power loss may still undo it.               *)

Fault == faults < MaxFaults /\ faults' = faults + 1

MutantUnsyncedRead(o) == UNCHANGED <<files, tasks, faults>>

ReadReceipt(o) ==
  /\ dur' = [dur EXCEPT ![o] = vis[o]]
  /\ UNCHANGED <<vis, tasks, faults>>

ReadTask ==
  /\ taskDur' = taskVis
  /\ UNCHANGED <<taskVis, files, faults>>

ReadFailed == Fault /\ UNCHANGED <<files, tasks>>

MutantUnsyncedWrite(o, r) ==
  /\ vis' = [vis EXCEPT ![o] = r]
  /\ UNCHANGED <<dur, tasks, faults>>

Written(o, r) ==
  /\ vis' = [vis EXCEPT ![o] = r]
  /\ dur' = [dur EXCEPT ![o] = r]
  /\ UNCHANGED <<tasks, faults>>

WriteFailed(o, r) ==
  /\ Fault
  /\ vis' \in {vis, [vis EXCEPT ![o] = r]}
  /\ UNCHANGED <<dur, tasks>>

\* The client is told that the receipt r verifies the result.
Told(o, r) ==
  IF r # None /\ r.state \in Settled
  THEN [promised EXCEPT ![o] = @ \cup {r.state}]
  ELSE promised

-----------------------------------------------------------------------------
(* exec_command and run_script: prepare, under the workspace lock and then  *)
(* the execution lock.                                                      *)

ExecCall(c) ==
  /\ up = "up" /\ pc[c] = "idle"
  /\ \E o \in Ops, i \in Inputs :
       req' = [req EXCEPT ![c] = [NoRequest EXCEPT !.op = o, !.input = i]]
  /\ Goto(c, "prepare")
  /\ wsQ' = Append(wsQ, c)
  /\ UNCHANGED <<up, boot, seen, exQ, files, tasks, procs, promised, faults>>

PrepareTask(c) ==
  /\ pc[c] = "prepare" /\ Holds(c, wsQ)
  /\ \/ /\ ReadTask /\ taskVis = "active"
        /\ Goto(c, "claim")
        /\ exQ' = Enqueued(c, req[c].op)
        /\ UNCHANGED <<req, seen, wsQ>>
     \/ ReadTask /\ taskVis # "active" /\ Return(c)
     \/ ReadFailed /\ Return(c)
  /\ UNCHANGED <<up, boot, procs, promised>>

\* A duplicate is answered from its live session when the receipt names one
\* of this boot, and from the receipt itself otherwise.
HasSession(r) ==
  /\ r.state \in Settled \cup {"running"}
  /\ r.session # 0 /\ r.boot = boot

PrepareRead(c) ==
  LET o == req[c].op IN
  /\ pc[c] = "claim" /\ Holds(c, exQ[o])
  /\ \/ /\ ReadReceipt(o) /\ vis[o] = None
        /\ Goto(c, "writePrepared")
        /\ UNCHANGED <<req, seen, locks, promised>>
     \/ /\ ReadReceipt(o) /\ vis[o] # None /\ vis[o].input # req[c].input
        /\ Return(c) /\ UNCHANGED promised
     \/ /\ ReadReceipt(o) /\ vis[o] # None /\ vis[o].input = req[c].input
        /\ HasSession(vis[o])
        /\ Goto(c, "observe")
        /\ seen' = [seen EXCEPT ![c][o] = vis[o]]
        /\ ReleaseAll(c)
        /\ UNCHANGED <<req, promised>>
     \/ /\ ReadReceipt(o) /\ vis[o] # None /\ vis[o].input = req[c].input
        /\ ~HasSession(vis[o])
        /\ promised' = Told(o, vis[o])
        /\ Return(c)
     \/ ReadFailed /\ Return(c) /\ UNCHANGED promised
  /\ UNCHANGED <<up, boot, procs>>

PreparedReceipt(i) ==
  [state |-> "prepared", input |-> i, boot |-> boot, session |-> 0,
   degraded |-> FALSE, resolution |-> "none"]

PrepareWrite(c) ==
  LET o == req[c].op
      r == PreparedReceipt(req[c].input) IN
  /\ pc[c] = "writePrepared"
  /\ \/ /\ Written(o, r)
        /\ Goto(c, "spawn") /\ ReleaseAll(c) /\ UNCHANGED <<req, seen>>
     \/ WriteFailed(o, r) /\ Return(c)
  /\ UNCHANGED <<up, boot, procs, promised>>

-----------------------------------------------------------------------------
(* The spawn, outside every lock, and what it records afterwards.           *)
(* ProcessManager.start throws (capacity, host executor, arguments), or     *)
(* returns a session whose command runs, or one whose child only emits      *)
(* "error".  The request for the execution lock follows in microtasks.      *)

Spawn(c) ==
  LET o == req[c].op IN
  /\ pc[c] = "spawn"
  /\ exQ' = Enqueued(c, o)
  /\ \/ /\ Goto(c, "markRunning")
        /\ proc' = [proc EXCEPT ![o] = "alive"]
        /\ managed' = [managed EXCEPT ![o] = TRUE]
        /\ attempts' = [attempts EXCEPT ![o] = @ + 1]
        /\ runs' = [runs EXCEPT ![o] = @ + 1]
     \/ /\ Goto(c, "markRunning")
        /\ proc' = [proc EXCEPT ![o] = "stillborn"]
        /\ managed' = [managed EXCEPT ![o] = TRUE]
        /\ attempts' = [attempts EXCEPT ![o] = @ + 1]
        /\ UNCHANGED runs
     \/ Goto(c, "markFailed") /\ UNCHANGED procs
  /\ UNCHANGED <<up, boot, req, seen, wsQ, files, tasks, promised, faults>>

\* One try block around start and markRunning.
MutantDegradeAsFailed(c) ==
  LET o == req[c].op IN
  /\ Goto(c, "markFailed")
  /\ exQ' = [exQ EXCEPT ![o] = Append(Tail(@), c)]
  /\ seen' = [seen EXCEPT ![c] = Unread]
  /\ UNCHANGED <<req, wsQ>>

\* The try/catch around markRunning: a failure of any step of it leads to
\* markPersistenceDegraded, which queues for the same lock again.
Degrade(c) ==
  LET o == req[c].op IN
  /\ Goto(c, "markDegraded")
  /\ exQ' = [exQ EXCEPT ![o] = Append(Tail(@), c)]
  /\ seen' = [seen EXCEPT ![c] = Unread]
  /\ UNCHANGED <<req, wsQ>>

MarkRunning(c) ==
  LET o == req[c].op IN
  /\ pc[c] = "markRunning" /\ Holds(c, exQ[o])
  /\ \/ /\ ReadReceipt(o) /\ vis[o] # None /\ vis[o].state = "prepared"
        /\ Goto(c, "writeRunning")
        /\ seen' = [seen EXCEPT ![c][o] = vis[o]]
        /\ UNCHANGED <<req, locks>>
     \/ /\ ReadReceipt(o) /\ vis[o] # None /\ vis[o].state # "prepared"
        /\ Goto(c, "observe") /\ ReleaseAll(c) /\ UNCHANGED <<req, seen>>
     \/ ReadReceipt(o) /\ vis[o] = None /\ Degrade(c)
     \/ ReadFailed /\ Degrade(c)
  /\ UNCHANGED <<up, boot, procs, promised>>

MarkRunningWrite(c) ==
  LET o == req[c].op
      r == [seen[c][o] EXCEPT !.state = "running", !.session = attempts[o]] IN
  /\ pc[c] = "writeRunning"
  /\ \/ /\ Written(o, r)
        /\ Goto(c, "observe") /\ ReleaseAll(c)
        /\ seen' = [seen EXCEPT ![c] = Unread]
        /\ UNCHANGED req
     \/ WriteFailed(o, r) /\ Degrade(c)
  /\ UNCHANGED <<up, boot, procs, promised>>

MarkDegraded(c) ==
  LET o == req[c].op IN
  /\ pc[c] = "markDegraded" /\ Holds(c, exQ[o])
  /\ \/ /\ ReadReceipt(o) /\ vis[o] # None
        /\ Goto(c, "writeDegraded")
        /\ seen' = [seen EXCEPT ![c][o] = vis[o]]
        /\ UNCHANGED <<req, locks>>
     \/ ReadReceipt(o) /\ vis[o] = None /\ Return(c)
     \/ ReadFailed /\ Return(c)
  /\ UNCHANGED <<up, boot, procs, promised>>

MarkDegradedWrite(c) ==
  LET o == req[c].op
      r == [seen[c][o] EXCEPT !.degraded = TRUE] IN
  /\ pc[c] = "writeDegraded"
  /\ Written(o, r) \/ WriteFailed(o, r)
  /\ Return(c)
  /\ UNCHANGED <<up, boot, procs, promised>>

MarkSpawnFailed(c) ==
  LET o == req[c].op IN
  /\ pc[c] = "markFailed" /\ Holds(c, exQ[o])
  /\ \/ /\ ReadReceipt(o) /\ vis[o] # None /\ vis[o].state = "prepared"
        /\ Goto(c, "writeFailed")
        /\ seen' = [seen EXCEPT ![c][o] = vis[o]]
        /\ UNCHANGED <<req, locks>>
     \/ /\ ReadReceipt(o) /\ (vis[o] = None \/ vis[o].state # "prepared")
        /\ Return(c)
     \/ ReadFailed /\ Return(c)
  /\ UNCHANGED <<up, boot, procs, promised>>

MarkSpawnFailedWrite(c) ==
  LET o == req[c].op
      r == [seen[c][o] EXCEPT !.state = "spawn_failed"] IN
  /\ pc[c] = "writeFailed"
  /\ Written(o, r) \/ WriteFailed(o, r)
  /\ Return(c)
  /\ UNCHANGED <<up, boot, procs, promised>>

-----------------------------------------------------------------------------
(* Observation: waitForExit and read take a snapshot of the session; if the *)
(* process has ended, the answer waits for its terminal hook and reads the  *)
(* receipt.  read_process does the same under a response budget.            *)

PollCall(c) ==
  /\ up = "up" /\ pc[c] = "idle"
  /\ \E o \in Ops :
       /\ attempts[o] > 0
       /\ req' = [req EXCEPT ![c] = [NoRequest EXCEPT !.op = o]]
  /\ Goto(c, "poll")
  /\ UNCHANGED <<up, boot, seen, locks, files, tasks, procs, promised, faults>>

\* receipt.sessionId = result.sessionId /\ receipt.bootId = store.bootId
OwnReceipt(o) ==
  vis[o] # None /\ vis[o].session = attempts[o] /\ vis[o].boot = boot

\* The session still runs: the answer says so and verifies nothing.
ObserveRunning(c) ==
  LET o == req[c].op IN
  /\ pc[c] \in {"observe", "poll"}
  /\ managed[o] /\ proc[o] \in {"alive", "stillborn"}
  /\ \/ ReadReceipt(o) /\ promised' = IF OwnReceipt(o) THEN promised ELSE Told(o, seen[c][o])
     \/ ReadFailed /\ promised' = Told(o, seen[c][o])
  /\ Return(c)
  /\ UNCHANGED <<up, boot, procs>>

ObserveEnded(c) ==
  /\ pc[c] \in {"observe", "poll"}
  /\ managed[req[c].op] /\ proc[req[c].op] \in Settled
  /\ Goto(c, IF pc[c] = "poll" THEN "pollHook" ELSE "awaitHook")
  /\ UNCHANGED <<up, boot, req, seen, locks, files, tasks, procs, promised, faults>>

\* The session was evicted, before read or before waitForTerminalHooks: a
\* duplicate falls back on the receipt it read in prepare, anyone else gets an
\* error.
ObserveEvicted(c) ==
  /\ pc[c] \in {"observe", "awaitHook", "pollHook"} /\ ~managed[req[c].op]
  /\ promised' = Told(req[c].op, seen[c][req[c].op])
  /\ Return(c)
  /\ UNCHANGED <<up, boot, files, tasks, procs, faults>>

\* read_process recovers the receipt of an evicted session of this boot.
PollRecover(c) ==
  LET o == req[c].op IN
  /\ pc[c] = "poll" /\ ~managed[o]
  /\ \/ /\ ReadReceipt(o)
        /\ promised' = IF OwnReceipt(o) THEN Told(o, vis[o]) ELSE promised
     \/ ReadFailed /\ UNCHANGED promised
  /\ Return(c)
  /\ UNCHANGED <<up, boot, procs>>

\* waitForTerminalHooks has returned: the receipt decides what is verified.
AwaitHook(c) ==
  LET o == req[c].op IN
  /\ pc[c] \in {"awaitHook", "pollHook"} /\ pc[o] = "idle"
  /\ \/ /\ ReadReceipt(o)
        /\ promised' = Told(o, IF OwnReceipt(o) THEN vis[o] ELSE seen[c][o])
     \/ ReadFailed /\ promised' = Told(o, seen[c][o])
  /\ Return(c)
  /\ UNCHANGED <<up, boot, procs>>

\* The response budget ends first: the answer is "pending".
PollExpires(c) ==
  /\ pc[c] = "pollHook"
  /\ Return(c)
  /\ UNCHANGED <<up, boot, files, tasks, procs, promised, faults>>

-----------------------------------------------------------------------------
(* The child process and its terminal hook.                                 *)

\* #finish and #emitTerminal: the hook queues for the execution lock.
Finish(o) ==
  /\ proc[o] \in {"alive", "stillborn"}
  /\ proc' = [proc EXCEPT ![o] = IF @ = "alive" THEN "exited" ELSE "spawn_failed"]
  /\ Goto(o, "markTerminal")
  /\ exQ' = Enqueued(o, o)
  /\ UNCHANGED <<up, boot, req, seen, wsQ, files, tasks,
                 managed, attempts, runs, promised, faults>>

MutantAcceptsPrepared(r) == r # None /\ r.state = "prepared"

\* markTerminal leaves alone what is settled and what an older boot lost.
Accepts(r) ==
  /\ r # None
  /\ r.state \notin Settled
  /\ r.state = "unknown" => r.boot = boot

MarkTerminal(o) ==
  /\ pc[o] = "markTerminal" /\ Holds(o, exQ[o])
  /\ \/ /\ ReadReceipt(o) /\ Accepts(vis[o])
        /\ Goto(o, "writeTerminal")
        /\ seen' = [seen EXCEPT ![o][o] = vis[o]]
        /\ UNCHANGED <<req, locks>>
     \/ ReadReceipt(o) /\ ~Accepts(vis[o]) /\ HookDone(o)
     \/ ReadFailed /\ HookDone(o)
  /\ UNCHANGED <<up, boot, procs, promised>>

\* A failure here is swallowed by #emitTerminal.
MarkTerminalWrite(o) ==
  LET r == [seen[o][o] EXCEPT !.state = proc[o], !.session = attempts[o]] IN
  /\ pc[o] = "writeTerminal"
  /\ Written(o, r) \/ WriteFailed(o, r)
  /\ HookDone(o)
  /\ UNCHANGED <<up, boot, procs, promised>>

\* #forget: retention, prune or #makeCapacity drop a session that has ended.
Evict(o) ==
  /\ managed[o] /\ proc[o] \in Settled
  /\ managed' = [managed EXCEPT ![o] = FALSE]
  /\ UNCHANGED <<up, boot, session, locks, files, tasks,
                 proc, attempts, runs, promised, faults>>

-----------------------------------------------------------------------------
(* complete_work, under the workspace lock.                                 *)

CompleteCall(c) ==
  /\ up = "up" /\ pc[c] = "idle"
  /\ \E outcome \in {"completed", "abandoned"} :
       req' = [req EXCEPT ![c] = [NoRequest EXCEPT !.choice = outcome]]
  /\ Goto(c, "complete")
  /\ wsQ' = Append(wsQ, c)
  /\ UNCHANGED <<up, boot, seen, exQ, files, tasks, procs, promised, faults>>

CompleteTask(c) ==
  /\ pc[c] = "complete" /\ Holds(c, wsQ)
  /\ \/ /\ ReadTask /\ taskVis = "active"
        /\ Goto(c, "listReceipts")
        /\ UNCHANGED <<req, seen, locks>>
     \/ ReadTask /\ taskVis # "active" /\ Return(c)
     \/ ReadFailed /\ Return(c)
  /\ UNCHANGED <<up, boot, procs, promised>>

MutantIgnoresPrepared(r, outcome) ==
  /\ r # None
  /\ \/ r.state = "running"
     \/ r.state = "unknown" /\ outcome = "completed" /\ r.resolution # "verified_no_retry"

Unresolved(r, outcome) ==
  /\ r # None
  /\ \/ r.state \in Unsettled
     \/ r.state = "unknown" /\ outcome = "completed" /\ r.resolution # "verified_no_retry"

ListReceipts(c) ==
  /\ pc[c] = "listReceipts"
  /\ \/ /\ dur' = vis /\ taskDur' = taskVis
        /\ UNCHANGED <<vis, taskVis, faults>>
        /\ IF \E o \in Ops : Unresolved(vis[o], req[c].choice)
           THEN Return(c)
           ELSE Goto(c, "writeTask") /\ UNCHANGED <<req, seen, locks>>
     \/ ReadFailed /\ Return(c)
  /\ UNCHANGED <<up, boot, procs, promised>>

WriteTask(c) ==
  /\ pc[c] = "writeTask"
  /\ \/ /\ taskVis' = req[c].choice /\ taskDur' = req[c].choice
        /\ UNCHANGED faults
     \/ /\ Fault
        /\ taskVis' \in {taskVis, req[c].choice}
        /\ UNCHANGED taskDur
  /\ Return(c)
  /\ UNCHANGED <<up, boot, files, procs, promised>>

-----------------------------------------------------------------------------
(* update_work with executionReconciliations: the execution locks are taken *)
(* in sorted order under the workspace lock, and one transaction (module    *)
(* StoreJournal) writes every receipt.                                      *)

ReconcileCall(c) ==
  /\ up = "up" /\ pc[c] = "idle"
  /\ \E B \in SUBSET Ops \ {{}}, resolution \in {"verified_no_retry", "external_effect_unknown"} :
       req' = [req EXCEPT ![c] =
                 [NoRequest EXCEPT !.batch = B, !.todo = B, !.choice = resolution]]
  /\ Goto(c, "reconcile")
  /\ wsQ' = Append(wsQ, c)
  /\ UNCHANGED <<up, boot, seen, exQ, files, tasks, procs, promised, faults>>

First(S) == {o \in S : \A p \in S : o <= p}

ReconcileTask(c) ==
  /\ pc[c] = "reconcile" /\ Holds(c, wsQ)
  /\ \/ /\ ReadTask /\ taskVis = "active"
        /\ Goto(c, "lockReceipt")
        /\ \E o \in First(req[c].todo) : exQ' = Enqueued(c, o)
        /\ UNCHANGED <<req, seen, wsQ>>
     \/ ReadTask /\ taskVis # "active" /\ Return(c)
     \/ ReadFailed /\ Return(c)
  /\ UNCHANGED <<up, boot, procs, promised>>

MutantOverwritesResolution(r, resolution) == r # None /\ r.state = "unknown"

Reconcilable(r, resolution) ==
  r # None /\ r.state = "unknown" /\ r.resolution \in {"none", resolution}

\* Keep the receipt and queue for the next lock, or commit after the last.
LockNext(c, o) ==
  LET left == req[c].todo \ {o} IN
  /\ req' = [req EXCEPT ![c].todo = left]
  /\ seen' = [seen EXCEPT ![c][o] = vis[o]]
  /\ UNCHANGED wsQ
  /\ \/ left = {} /\ Goto(c, "commit") /\ UNCHANGED exQ
     \/ \E p \in First(left) : exQ' = Enqueued(c, p) /\ UNCHANGED pc

LockReceipt(c) ==
  /\ pc[c] = "lockReceipt"
  /\ \E o \in First(req[c].todo) :
       /\ Holds(c, exQ[o])
       /\ \/ /\ ReadReceipt(o) /\ Reconcilable(vis[o], req[c].choice)
             /\ LockNext(c, o)
          \/ ReadReceipt(o) /\ ~Reconcilable(vis[o], req[c].choice) /\ Return(c)
          \/ ReadFailed /\ Return(c)
  /\ UNCHANGED <<up, boot, procs, promised>>

\* A commit that throws may be rolled back, or finished by journal recovery.
CommitReconciliation(c) ==
  LET After(f) == [o \in Ops |->
        IF o \in req[c].batch THEN [seen[c][o] EXCEPT !.resolution = req[c].choice]
                              ELSE f[o]] IN
  /\ pc[c] = "commit"
  /\ \/ vis' = After(vis) /\ dur' = After(dur) /\ UNCHANGED <<tasks, faults>>
     \/ Fault /\ vis' \in {vis, After(vis)} /\ UNCHANGED <<dur, tasks>>
  /\ Return(c)
  /\ UNCHANGED <<up, boot, procs, promised>>

-----------------------------------------------------------------------------
(* The server process dies (and, on a power loss, every file reverts to its *)
(* new or its last durable version), and the supervisor starts it again.    *)

NewBoot ==
  /\ boot < MaxBoots
  /\ boot' = boot + 1 /\ up' = "booting"
  /\ pc' = [a \in Actors |-> "idle"]
  /\ req' = [c \in Callers |-> NoRequest]
  /\ seen' = [a \in Actors |-> Unread]
  /\ wsQ' = <<>> /\ exQ' = [o \in Ops |-> <<>>]
  /\ proc' = [o \in Ops |-> "none"] /\ managed' = [o \in Ops |-> FALSE]
  /\ UNCHANGED <<attempts, runs, promised>>

Crash == NewBoot /\ UNCHANGED <<files, tasks, faults>>

PowerLoss ==
  /\ NewBoot
  /\ \E S \in SUBSET Ops : vis' = [o \in Ops |-> IF o \in S THEN dur[o] ELSE vis[o]]
  /\ taskVis' \in {taskVis, taskDur}
  /\ dur' = vis' /\ taskDur' = taskVis'
  /\ UNCHANGED faults

MutantLostRunningOnly(o) ==
  vis[o] # None /\ vis[o].state = "running" /\ vis[o].boot # boot

MutantLostAny(o) == vis[o] # None /\ vis[o].state # "unknown" /\ vis[o].boot # boot

\* #recoverPreviousBootExecutions
Lost(o) == vis[o] # None /\ vis[o].state \in Unsettled /\ vis[o].boot # boot

RecoverReceipt(o) ==
  LET r == [vis[o] EXCEPT !.state = "unknown"] IN
  /\ up = "booting" /\ Lost(o)
  /\ \/ Written(o, r) /\ UNCHANGED <<up, boot, session, locks, procs>>
     \/ WriteFailed(o, r) /\ NewBoot       \* initialize() fails, main exits
  /\ UNCHANGED promised

BootDone ==
  /\ up = "booting" /\ \A o \in Ops : ~Lost(o)
  /\ up' = "up"
  /\ UNCHANGED <<boot, session, locks, files, tasks, procs, promised, faults>>

-----------------------------------------------------------------------------
Call(c) == ExecCall(c) \/ PollCall(c) \/ CompleteCall(c) \/ ReconcileCall(c)

\* What the server does for a request that it has accepted.
Serve(c) ==
  \/ PrepareTask(c) \/ PrepareRead(c) \/ PrepareWrite(c) \/ Spawn(c)
  \/ MarkRunning(c) \/ MarkRunningWrite(c)
  \/ MarkDegraded(c) \/ MarkDegradedWrite(c)
  \/ MarkSpawnFailed(c) \/ MarkSpawnFailedWrite(c)
  \/ ObserveRunning(c) \/ ObserveEnded(c) \/ ObserveEvicted(c)
  \/ PollRecover(c) \/ AwaitHook(c) \/ PollExpires(c)
  \/ CompleteTask(c) \/ ListReceipts(c) \/ WriteTask(c)
  \/ ReconcileTask(c) \/ LockReceipt(c) \/ CommitReconciliation(c)

Hook(o) == MarkTerminal(o) \/ MarkTerminalWrite(o)

Next ==
  \/ \E c \in Callers : Call(c) \/ Serve(c)
  \/ \E o \in Ops : Finish(o) \/ Hook(o) \/ Evict(o) \/ RecoverReceipt(o)
  \/ Crash \/ PowerLoss \/ BootDone

Spec == Init /\ [][Next]_vars

-----------------------------------------------------------------------------
(* Properties.                                                              *)

SessionType ==
  /\ pc \in [Actors -> CallerPC \cup HookPC]
  /\ req \in [Callers -> Request]
  /\ seen \in [Actors -> [Ops -> Receipt \cup {None}]]

LockType == wsQ \in Seq(Callers) /\ exQ \in [Ops -> Seq(Actors)]

StorageType ==
  /\ vis \in [Ops -> Receipt \cup {None}] /\ dur \in [Ops -> Receipt \cup {None}]
  /\ taskVis \in {"active", "completed", "abandoned"}
  /\ taskDur \in {"active", "completed", "abandoned"}
  /\ faults \in 0..MaxFaults

ProcType ==
  /\ proc \in [Ops -> {"none", "alive", "stillborn"} \cup Settled]
  /\ managed \in [Ops -> BOOLEAN]
  /\ attempts \in [Ops -> Nat] /\ runs \in [Ops -> Nat]

TypeOK ==
  /\ up \in {"booting", "up"} /\ boot \in 1..MaxBoots
  /\ SessionType /\ LockType /\ StorageType /\ ProcType
  /\ promised \in [Ops -> SUBSET Settled]

\* An operationId spawns at most one command, whatever is retried by
\* whichever client, over crashes, power losses and failed writes (README
\* 211-214: a repeated operationId returns the receipt, it never spawns again).
AtMostOnce == \A o \in Ops : attempts[o] <= 1

\* A command that ran has left a receipt that survives a power loss: prepare
\* makes the receipt durable before the handler may spawn.
SpawnIsRecorded == \A o \in Ops : attempts[o] > 0 => dur[o] # None

\* A receipt never lies about the command: "exited" means that it ran, and
\* "spawn_failed" that it never did and never will.
Honest(o, r) ==
  /\ r.state = "exited" => runs[o] = 1
  /\ r.state = "spawn_failed" =>
       runs[o] = 0 /\ \A c \in Callers : pc[c] = "spawn" => req[c].op # o

ReceiptIsHonest ==
  \A o \in Ops : /\ vis[o] # None => Honest(o, vis[o])
                 /\ dur[o] # None => Honest(o, dur[o])

\* What was reported as verified is on the disk for good: safeTerminal in
\* processResult and "completed" in receiptReplayResult promise no less.
VerifiedIsDurable ==
  \A o \in Ops : \A s \in promised[o] : dur[o] # None /\ dur[o].state = s

Closeable(r, outcome) ==
  r # None =>
    /\ r.state \notin Unsettled
    /\ outcome = "completed" /\ r.state = "unknown" => r.resolution = "verified_no_retry"

\* A closed task has no receipt that could still run or still be settled, and
\* a completed one no unknown effect that nobody resolved; also after a power
\* loss (the filter of TaskContinuityService.complete).
ClosedTaskIsSettled ==
  taskVis # "active" =>
    \A o \in Ops : Closeable(vis[o], taskVis) /\ Closeable(dur[o], taskVis)

\* Once the server accepts requests, no receipt of an earlier process is left
\* prepared or running (README 213).
NoGhostReceipt ==
  up = "up" => \A o \in Ops :
    vis[o] # None /\ vis[o].state \in Unsettled => vis[o].boot = boot

\* A durable receipt keeps its input and its boot; once it is exited,
\* spawn_failed or unknown it keeps that state, and a resolution is final.
ReceiptHistory ==
  [][\A o \in Ops : dur[o] # None =>
       /\ dur'[o] # None
       /\ dur'[o].input = dur[o].input /\ dur'[o].boot = dur[o].boot
       /\ dur[o].state \notin Unsettled => dur'[o].state = dur[o].state
       /\ dur[o].resolution # "none" => dur'[o].resolution = dur[o].resolution]_vars

\* The operations, seen through their durable receipts, behave as
\* AtMostOnceExecution specifies: entries only move forward, an outcome is the
\* true one, a command runs at most once and never before its entry.
Ledger ==
  INSTANCE AtMostOnceExecution
    WITH entry <- [o \in Ops |-> IF dur[o] = None THEN "none" ELSE dur[o].state],
         told <- promised

ImplementsLedger == Ledger!Spec

-----------------------------------------------------------------------------
(* Liveness.  The server performs every step it has accepted (callbacks and *)
(* promise continuations are not starved) and boot recovery goes on.        *)
(* Nothing makes a client call, a command end, or a session be evicted.     *)

Fairness ==
  /\ \A c \in Callers : WF_vars(Serve(c))
  /\ \A o \in Ops : WF_vars(Hook(o)) /\ WF_vars(RecoverReceipt(o))
  /\ WF_vars(BootDone)

LiveSpec == Spec /\ Fairness

\* Every request is answered (or loses its connection in a crash): no lock is
\* leaked by an early return or an error, and the two lock levels never
\* deadlock.
EveryRequestReturns ==
  \A c \in Callers : pc[c] # "idle" ~> pc[c] = "idle"

\* While no storage call fails, the receipt of a command that has ended gets
\* a final state: by the terminal hook, or as "unknown" after a crash.
FinalState(o) == dur[o] # None /\ dur[o].state \notin Unsettled

EndedIsRecorded ==
  \A o \in Ops : (proc[o] \in Settled /\ faults = 0) ~> (FinalState(o) \/ faults > 0)

=============================================================================
