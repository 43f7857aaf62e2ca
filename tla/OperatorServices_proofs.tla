----------------------- MODULE OperatorServices_proofs -----------------------
(***************************************************************************)
(* The two services an operator grants. OperatorApproval: ConsumedOnce,    *)
(* OutcomeIsHonest and CompletedTaskIsQuiet for every set of approvals,    *)
(* requests, executions and targets, and any number of crashes and failed  *)
(* writes. HostExecutor: HostRunsOnce and MarkedIsAnswered for every set   *)
(* of jobs and any number of chunks and faults: a host command runs once,  *)
(* and its client is told what became of it.                               *)
(***************************************************************************)
EXTENDS OperatorApproval, HostExecutor, FiniteSetTheorems, TLAPS

-----------------------------------------------------------------------------
(* The inductive invariant.                                                 *)

\* What a ledger s says is so, given who was approved, which workers there
\* have been, and which tasks are complete.
Good(s, approved, workers, complete) ==
  /\ DOMAIN s \subseteq Approvals /\ Cardinality(DOMAIN s) <= MaxRecords
  /\ \A id \in DOMAIN s :
       /\ s[id] \in Record
       /\ s[id].status \in {"pending", "approved", "denied"} <=> s[id].operation = Nothing
       /\ s[id].status = "approved" \/ s[id].operation # Nothing => id \in approved
       /\ s[id].status = "succeeded" => workers[id] = "adopted"
       /\ workers[id] = "running" => Unresolved(s[id]) /\ s[id].target.workspace \notin complete
  /\ \A id, x \in DOMAIN s :
       x # id => /\ s[x].requestId # s[id].requestId
                 /\ s[x].operation # Nothing => s[x].operation # s[id].operation
  /\ \A id \in Approvals : workers[id] # "none" => id \in DOMAIN s /\ s[id].operation # Nothing

\* u has the approvals of s, for the same targets.
Extends(s, u) ==
  \A id \in DOMAIN s : id \in DOMAIN u /\ u[id].target = s[id].target

\* The memory is the file, until a write fails.
StoreInv ==
  /\ ~broken => records = ledger
  /\ Extends(records, ledger)
  /\ Good(records, consented, worker, closed)
  /\ Good(ledger, consented, worker, closed)

UnderLock == {"locked", "reserved", "spawned", "uncertain"}

\* What an execution has established about the approval it works on.
ExecutionInv(e) ==
  LET id == executor[e].id IN
  /\ executor[e].pc \in UnderLock \cup {"waiting"} => running /\ id \in Ids /\ executor[e].op \in Operations
  /\ executor[e].pc \in {"locked", "reserved"} => Workspace(id) \notin closed
  /\ executor[e].pc = "reserved" =>
       /\ records[id].status = "executing" /\ ledger[id].status = "executing"
       /\ records[id].operation # Nothing /\ ledger[id].operation # Nothing
       /\ worker[id] = "none"
  /\ executor[e].pc \in {"spawned", "uncertain"} => records[id].operation # Nothing

\* The workspace lock.
LockInv ==
  \A e, f \in Executors :
    e # f /\ executor[e].pc \in UnderLock /\ executor[f].pc \in UnderLock =>
      Workspace(executor[e].id) # Workspace(executor[f].id)

OuterInv ==
  /\ {running, broken} \subseteq BOOLEAN /\ time \in Nat
  /\ \A c \in Requesters :
       requester[c].pc = "bound" => requester[c].requestId \in RequestIds /\ requester[c].target \in Targets
  /\ requester \in [Requesters -> [requestId : RequestIds \cup {Nothing}, target : Targets \cup {Nothing},
                                   pc : {"idle", "bound", "done"}]]
  /\ executor \in [Executors -> [id : Approvals \cup {Nothing}, op : Operations \cup {Nothing},
                                 pc : UnderLock \cup {"idle", "waiting", "done"}]]
  /\ worker \in [Approvals -> {"none", "running", "adopted", "failed"}]
  /\ runs = [id \in Approvals |-> IF worker[id] = "none" THEN 0 ELSE 1]
  /\ hook \subseteq {id \in Approvals : worker[id] # "none"}
  /\ closed \subseteq {t.workspace : t \in Targets}

ApprovalInv == OuterInv /\ StoreInv /\ LockInv /\ \A e \in Executors : ExecutionInv(e)

-----------------------------------------------------------------------------
(* Ledgers.                                                                 *)

LEMMA GoodRecord ==
  ASSUME NEW s, NEW A, NEW W, NEW C, Good(s, A, W, C), NEW id \in DOMAIN s
  PROVE  /\ s[id].requestId \in RequestIds /\ s[id].target \in Targets /\ s[id].expires \in Nat
         /\ s[id].status \in {"pending", "approved", "denied", "executing", "succeeded", "unknown"}
         /\ s[id].operation \in Operations \cup {Nothing}
  BY DEF Good, Record

\* The operator's approvals only grow.
LEMMA GoodWithMore ==
  ASSUME NEW s, NEW A, NEW B, A \subseteq B, NEW W, NEW C, Good(s, A, W, C)
  PROVE  Good(s, B, W, C)
  BY DEF Good

\* One approval changes its status, and gets an operation of its own at most.
LEMMA GoodRevised ==
  ASSUME NEW s, NEW n, NEW A, NEW B, A \subseteq B, NEW W, NEW C, Good(s, A, W, C),
         NEW id \in DOMAIN s, DOMAIN n = DOMAIN s, \A x \in DOMAIN s : x # id => n[x] = s[x],
         n[id] \in Record, n[id].requestId = s[id].requestId, n[id].target = s[id].target,
         n[id].status \in {"pending", "approved", "denied"} <=> n[id].operation = Nothing,
         n[id].status = "approved" \/ n[id].operation # Nothing => id \in B,
         n[id].status = "succeeded" => W[id] = "adopted",
         W[id] = "running" => Unresolved(n[id]),
         \/ n[id].operation = s[id].operation
         \/ /\ s[id].operation = Nothing /\ n[id].operation # Nothing
            /\ \A x \in DOMAIN s : x # id => s[x].operation # n[id].operation
  PROVE  Good(n, B, W, C)
<1>1. DOMAIN n \subseteq Approvals /\ Cardinality(DOMAIN n) <= MaxRecords
  BY DEF Good
<1>2. ASSUME NEW x \in DOMAIN n
      PROVE  /\ n[x] \in Record
             /\ n[x].status \in {"pending", "approved", "denied"} <=> n[x].operation = Nothing
             /\ n[x].status = "approved" \/ n[x].operation # Nothing => x \in B
             /\ n[x].status = "succeeded" => W[x] = "adopted"
             /\ W[x] = "running" => Unresolved(n[x]) /\ n[x].target.workspace \notin C
  <2>1. CASE x = id
    BY <2>1 DEF Good
  <2>2. CASE x # id
    BY <2>2 DEF Good
  <2> QED BY <2>1, <2>2
<1>3. ASSUME NEW y \in DOMAIN n, NEW x \in DOMAIN n, x # y
      PROVE  /\ n[x].requestId # n[y].requestId
             /\ n[x].operation # Nothing => n[x].operation # n[y].operation
  <2>1. /\ s[x].requestId # s[y].requestId
        /\ s[x].operation # Nothing => s[x].operation # s[y].operation
        /\ s[y].operation # Nothing => s[y].operation # s[x].operation
    BY <1>3 DEF Good
  <2>2. CASE x = id
    BY <1>3, <2>1, <2>2
  <2>3. CASE y = id
    BY <1>3, <2>1, <2>3
  <2>4. CASE x # id /\ y # id
    BY <1>3, <2>1, <2>4
  <2> QED BY <2>2, <2>3, <2>4
<1>4. \A x \in Approvals : W[x] # "none" => x \in DOMAIN n /\ n[x].operation # Nothing
  BY DEF Good
<1> QED BY <1>1, <1>2, <1>3, <1>4 DEF Good

\* A pending approval is added for a request that has none.
LEMMA GoodAdded ==
  ASSUME NEW s, NEW n, NEW A, NEW W, NEW C, Good(s, A, W, C),
         NEW id \in Approvals \ DOMAIN s, DOMAIN n = DOMAIN s \cup {id},
         \A x \in DOMAIN s : n[x] = s[x], Cardinality(DOMAIN s) < MaxRecords,
         n[id] \in Record, n[id].status = "pending", n[id].operation = Nothing,
         \A x \in DOMAIN s : s[x].requestId # n[id].requestId
  PROVE  Good(n, A, W, C)
<1>1. DOMAIN n \subseteq Approvals /\ Cardinality(DOMAIN n) <= MaxRecords
  <2>1. IsFiniteSet(DOMAIN s)
    BY FS_Subset, ApprovalAssumption DEF Good
  <2>2. Cardinality(DOMAIN n) = Cardinality(DOMAIN s) + 1 /\ Cardinality(DOMAIN s) \in Nat
    BY <2>1, FS_AddElement, FS_CardinalityType
  <2> QED BY <2>2, ApprovalAssumption DEF Good
<1>2. W[id] = "none"
  BY DEF Good
<1>3. ASSUME NEW x \in DOMAIN n
      PROVE  /\ n[x] \in Record
             /\ n[x].status \in {"pending", "approved", "denied"} <=> n[x].operation = Nothing
             /\ n[x].status = "approved" \/ n[x].operation # Nothing => x \in A
             /\ n[x].status = "succeeded" => W[x] = "adopted"
             /\ W[x] = "running" => Unresolved(n[x]) /\ n[x].target.workspace \notin C
  <2>1. CASE x = id
    BY <1>2, <2>1
  <2>2. CASE x \in DOMAIN s
    BY <2>2 DEF Good
  <2> QED BY <2>1, <2>2
<1>4. ASSUME NEW y \in DOMAIN n, NEW x \in DOMAIN n, x # y
      PROVE  /\ n[x].requestId # n[y].requestId
             /\ n[x].operation # Nothing => n[x].operation # n[y].operation
  <2>1. CASE x = id
    BY <1>4, <2>1
  <2>2. CASE y = id
    BY <1>4, <2>2
  <2>3. CASE x # id /\ y # id
    BY <1>4, <2>3 DEF Good
  <2> QED BY <2>1, <2>2, <2>3
<1>5. \A x \in Approvals : W[x] # "none" => x \in DOMAIN n /\ n[x].operation # Nothing
  BY DEF Good
<1> QED BY <1>1, <1>3, <1>4, <1>5 DEF Good

\* A worker is started for a reserved approval, or ends.
LEMMA GoodWorkers ==
  ASSUME NEW s, NEW A, NEW W, NEW V, NEW C, Good(s, A, W, C), NEW id \in Approvals,
         \A x \in Approvals : x # id => V[x] = W[x],
         \/ W[id] = "running" /\ V[id] \in {"adopted", "failed"}
         \/ /\ W[id] = "none" /\ V[id] = "running" /\ id \in DOMAIN s
            /\ s[id].status = "executing" /\ s[id].operation # Nothing
            /\ s[id].target.workspace \notin C
  PROVE  Good(s, A, V, C)
<1>1. ASSUME NEW x \in DOMAIN s
      PROVE  /\ s[x].status = "succeeded" => V[x] = "adopted"
             /\ V[x] = "running" => Unresolved(s[x]) /\ s[x].target.workspace \notin C
  <2>1. CASE x = id
    BY <2>1 DEF Good, Unresolved
  <2>2. CASE x # id
    BY <2>2 DEF Good
  <2> QED BY <2>1, <2>2
<1>2. \A x \in Approvals : V[x] # "none" => x \in DOMAIN s /\ s[x].operation # Nothing
  BY DEF Good
<1> QED BY <1>1, <1>2 DEF Good

\* A task is completed that no unresolved approval is about.
LEMMA GoodCompleted ==
  ASSUME NEW s, NEW A, NEW W, NEW C, Good(s, A, W, C), NEW w,
         \A id \in DOMAIN s : s[id].target.workspace = w => ~Unresolved(s[id])
  PROVE  Good(s, A, W, C \cup {w})
<1>1. ASSUME NEW x \in DOMAIN s, W[x] = "running"
      PROVE  Unresolved(s[x]) /\ s[x].target.workspace \notin C \cup {w}
  BY <1>1 DEF Good
<1> QED BY <1>1 DEF Good

\* initialize(): what was executing is unknown.
LEMMA GoodInterrupted ==
  ASSUME ApprovalInv
  PROVE  /\ Good(Interrupted, consented, worker, closed)
         /\ DOMAIN Interrupted = DOMAIN ledger
<1> DEFINE s == ledger
           n == Interrupted
<1>1. Good(s, consented, worker, closed)
  BY DEF ApprovalInv, StoreInv
<1>2. /\ DOMAIN n = DOMAIN s
      /\ \A x \in DOMAIN s :
           n[x] = [s[x] EXCEPT !.status = IF s[x].status = "executing" THEN "unknown" ELSE s[x].status]
  BY DEF Interrupted
<1>3. ASSUME NEW x \in DOMAIN s
      PROVE  /\ n[x] \in Record
             /\ n[x].requestId = s[x].requestId /\ n[x].target = s[x].target
             /\ n[x].operation = s[x].operation
             /\ n[x].status = (IF s[x].status = "executing" THEN "unknown" ELSE s[x].status)
  <2>1. s[x] \in Record
    BY <1>1, <1>3 DEF Good
  <2> QED BY <1>2, <2>1 DEF Record
<1> HIDE DEF n, s
<1>4. \A x \in DOMAIN s : Unresolved(s[x]) => Unresolved(n[x])
  BY <1>3 DEF Unresolved
<1>5. ASSUME NEW x \in DOMAIN n
      PROVE  /\ n[x] \in Record
             /\ n[x].status \in {"pending", "approved", "denied"} <=> n[x].operation = Nothing
             /\ n[x].status = "approved" \/ n[x].operation # Nothing => x \in consented
             /\ n[x].status = "succeeded" => worker[x] = "adopted"
             /\ worker[x] = "running" => Unresolved(n[x]) /\ n[x].target.workspace \notin closed
  BY <1>1, <1>2, <1>3, <1>4, <1>5 DEF Good
<1>6. \A y, x \in DOMAIN n :
        x # y => /\ n[x].requestId # n[y].requestId
                 /\ n[x].operation # Nothing => n[x].operation # n[y].operation
  BY <1>1, <1>2, <1>3 DEF Good
<1>7. \A x \in Approvals : worker[x] # "none" => x \in DOMAIN n /\ n[x].operation # Nothing
  BY <1>1, <1>2, <1>3 DEF Good
<1>8. DOMAIN n \subseteq Approvals /\ Cardinality(DOMAIN n) <= MaxRecords
  BY <1>1, <1>2 DEF Good
<1>9. Good(n, consented, worker, closed)
  BY <1>5, <1>6, <1>7, <1>8 DEF Good
<1> QED BY <1>2, <1>9 DEF n, s

-----------------------------------------------------------------------------
(* What the steps have in common.                                           *)

\* A mutation of the ledger that succeeds, or fails before or after its rename.
Stored(next) == ~broken /\ (Saved(next) \/ SaveFailed(next))

LEMMA StoredKeeps ==
  ASSUME ApprovalInv, NEW next, Stored(next), UNCHANGED <<worker, closed>>,
         consented \subseteq consented',
         Good(next, consented', worker, closed), Extends(records, next)
  PROVE  /\ StoreInv' /\ broken' \in BOOLEAN
         /\ records' \in {records, next} /\ ledger' \in {records, next} /\ records = ledger
<1>1. records = ledger /\ Good(records, consented', worker, closed)
  BY GoodWithMore DEF ApprovalInv, StoreInv, Stored
<1>2. \/ records' = next /\ ledger' = next /\ broken' = broken
      \/ records' = records /\ ledger' \in {ledger, next} /\ broken' = TRUE
  BY DEF Stored, Saved, SaveFailed
<1>3. Extends(records', ledger')
  BY <1>1, <1>2 DEF Extends
<1>4. broken' \in BOOLEAN
  BY <1>2 DEF ApprovalInv, OuterInv
<1> QED BY <1>1, <1>2, <1>3, <1>4 DEF StoreInv

\* What another execution's facts rest on is not changed.
Kept(e) ==
  LET id == executor[e].id IN
  /\ executor'[e] = executor[e] /\ running' = running
  /\ id \in Ids =>
       /\ id \in DOMAIN records' /\ records'[id].target = records[id].target
       /\ records[id].operation # Nothing => records'[id].operation # Nothing
       /\ executor[e].pc \in {"locked", "reserved"} => (Workspace(id) \notin closed => Workspace(id) \notin closed')
       /\ executor[e].pc = "reserved" =>
            records'[id] = records[id] /\ ledger'[id] = ledger[id] /\ worker'[id] = worker[id]

LEMMA KeptKeeps ==
  ASSUME NEW e \in Executors, ExecutionInv(e), Kept(e)
  PROVE  ExecutionInv(e)'
<1>1. CASE executor[e].pc \notin UnderLock \cup {"waiting"}
  BY <1>1 DEF ExecutionInv, Kept, UnderLock
<1>2. CASE executor[e].pc \in UnderLock \cup {"waiting"}
  <2>1. executor[e].id \in Ids
    BY <1>2 DEF ExecutionInv
  <2> QED BY <1>2, <2>1 DEF ExecutionInv, Kept, Workspace, Ids
<1> QED BY <1>1, <1>2

\* The lock is held by those who held it, for the same workspaces.
LEMMA LockKeeps ==
  ASSUME ApprovalInv,
         \A e \in Executors : executor'[e].pc \in UnderLock =>
           executor[e].pc \in UnderLock /\ executor'[e].id = executor[e].id,
         Extends(records, records')
  PROVE  LockInv'
<1> SUFFICES ASSUME NEW e \in Executors, NEW f \in Executors, e # f,
                    executor'[e].pc \in UnderLock, executor'[f].pc \in UnderLock
             PROVE  Workspace(executor[e].id)' # Workspace(executor[f].id)'
  BY DEF LockInv
<1>1. /\ executor[e].pc \in UnderLock /\ executor'[e].id = executor[e].id /\ executor[e].id \in Ids
      /\ executor[f].pc \in UnderLock /\ executor'[f].id = executor[f].id /\ executor[f].id \in Ids
  BY DEF ApprovalInv, ExecutionInv
<1>2. Workspace(executor[e].id) # Workspace(executor[f].id)
  BY <1>1 DEF ApprovalInv, LockInv
<1> QED BY <1>1, <1>2 DEF Extends, Workspace, Ids

LEMMA ExtendsItself ==
  ASSUME NEW s
  PROVE  Extends(s, s)
  BY DEF Extends

\* Two executions under the lock are about different approvals.
LEMMA OneUnderLock ==
  ASSUME ApprovalInv, NEW e \in Executors, NEW f \in Executors, e # f,
         executor[e].pc \in UnderLock, executor[f].pc \in UnderLock
  PROVE  executor[e].id # executor[f].id
  BY DEF ApprovalInv, LockInv

\* A step that leaves the store alone, and what its facts rest on.
LEMMA UnstoredKeeps ==
  ASSUME ApprovalInv, UNCHANGED <<records, ledger, broken, consented, worker, closed>>
  PROVE  StoreInv' /\ Extends(records, records')
  BY ExtendsItself DEF ApprovalInv, StoreInv

LEMMA ESetType ==
  ASSUME ApprovalInv, NEW e \in Executors, NEW pc \in UnderLock \cup {"done"}, ESet(e, pc)
  PROVE  /\ executor' \in [Executors -> [id : Approvals \cup {Nothing}, op : Operations \cup {Nothing},
                                         pc : UnderLock \cup {"idle", "waiting", "done"}]]
         /\ executor'[e].pc = pc
         /\ pc # "done" => executor'[e].id = executor[e].id /\ executor'[e].op = executor[e].op
         /\ \A f \in Executors : f # e => executor'[f] = executor[f]
<1>1. executor \in [Executors -> [id : Approvals \cup {Nothing}, op : Operations \cup {Nothing},
                                  pc : UnderLock \cup {"idle", "waiting", "done"}]]
  BY DEF ApprovalInv, OuterInv
<1>2. CASE pc = "done"
  BY <1>1, <1>2 DEF ESet, ExecutionIs
<1>3. CASE pc # "done"
  <2>1. executor' = [executor EXCEPT ![e] = [executor[e] EXCEPT !.pc = pc]]
    BY <1>3 DEF ESet
  <2> QED BY <1>1, <1>3, <2>1
<1> QED BY <1>2, <1>3

\* Steps in which no execution and no worker takes part.
LEMMA RequesterType ==
  ASSUME ApprovalInv, NEW c \in Requesters, RequestDone(c)
  PROVE  /\ requester' \in [Requesters -> [requestId : RequestIds \cup {Nothing}, target : Targets \cup {Nothing},
                                           pc : {"idle", "bound", "done"}]]
         /\ \A d \in Requesters :
              requester'[d].pc = "bound" => requester'[d].requestId \in RequestIds /\ requester'[d].target \in Targets
  BY DEF ApprovalInv, OuterInv, RequestDone, RequestIs

LEMMA AloneKeeps ==
  ASSUME ApprovalInv, StoreInv', Extends(records, records'), broken' \in BOOLEAN,
         UNCHANGED <<running, executor, worker, hook, runs, closed>>, time' \in Nat,
         requester' \in [Requesters -> [requestId : RequestIds \cup {Nothing}, target : Targets \cup {Nothing},
                                        pc : {"idle", "bound", "done"}]],
         \A c \in Requesters :
           requester'[c].pc = "bound" => requester'[c].requestId \in RequestIds /\ requester'[c].target \in Targets,
         \A id \in Ids :
           /\ records[id].operation # Nothing => records'[id].operation # Nothing
           /\ records[id].status = "executing" => records'[id] = records[id] /\ ledger'[id] = ledger[id]
  PROVE  ApprovalInv'
<1>1. OuterInv'
  BY DEF ApprovalInv, OuterInv
<1>2. LockInv'
  BY LockKeeps
<1>3. \A e \in Executors : Kept(e)
  BY DEF ApprovalInv, ExecutionInv, Extends, Kept, Ids
<1>4. \A e \in Executors : ExecutionInv(e)'
  BY <1>3, KeptKeeps DEF ApprovalInv
<1> QED BY <1>1, <1>2, <1>4 DEF ApprovalInv

-----------------------------------------------------------------------------
(* request() and decide().                                                  *)

LEMMA RequestKeeps ==
  ASSUME ApprovalInv, NEW c \in Requesters, Request(c)
  PROVE  ApprovalInv'
<1>1. UNCHANGED <<records, ledger, broken, running, executor, worker, hook, runs, closed, consented, time>>
  BY DEF Request, ledgerVars, processVars, outerVars
<1>2. /\ requester' \in [Requesters -> [requestId : RequestIds \cup {Nothing}, target : Targets \cup {Nothing},
                                        pc : {"idle", "bound", "done"}]]
      /\ \A d \in Requesters :
           requester'[d].pc = "bound" => requester'[d].requestId \in RequestIds /\ requester'[d].target \in Targets
  <2>1. PICK q \in RequestIds, t \in Targets :
          RequestDone(c) \/ requester' = [requester EXCEPT ![c] = [requestId |-> q, target |-> t, pc |-> "bound"]]
    BY DEF Request
  <2>2. CASE RequestDone(c)
    BY <2>2, RequesterType
  <2>3. CASE requester' = [requester EXCEPT ![c] = [requestId |-> q, target |-> t, pc |-> "bound"]]
    BY <2>3 DEF ApprovalInv, OuterInv
  <2> QED BY <2>1, <2>2, <2>3
<1>3. StoreInv' /\ Extends(records, records')
  BY <1>1, UnstoredKeeps
<1>4. broken' \in BOOLEAN /\ time' \in Nat
  BY <1>1 DEF ApprovalInv, OuterInv
<1> QED BY <1>1, <1>2, <1>3, <1>4, AloneKeeps

LEMMA RecordRequestKeeps ==
  ASSUME ApprovalInv, NEW c \in Requesters, RecordRequest(c)
  PROVE  ApprovalInv'
<1>1. /\ UNCHANGED <<running, executor, worker, hook, runs, closed, consented, time>>
      /\ RequestDone(c) /\ requester[c].pc = "bound" /\ time \in Nat /\ time' = time
  BY DEF RecordRequest, processVars, outerVars, ApprovalInv, OuterInv
<1>2. /\ requester' \in [Requesters -> [requestId : RequestIds \cup {Nothing}, target : Targets \cup {Nothing},
                                        pc : {"idle", "bound", "done"}]]
      /\ \A d \in Requesters :
           requester'[d].pc = "bound" => requester'[d].requestId \in RequestIds /\ requester'[d].target \in Targets
  BY <1>1, RequesterType
<1>3. CASE UNCHANGED ledgerVars
  <2>1. UNCHANGED <<records, ledger, broken>>
    BY <1>3 DEF ledgerVars
  <2>2. StoreInv' /\ Extends(records, records') /\ broken' \in BOOLEAN
    BY <1>1, <2>1, UnstoredKeeps DEF ApprovalInv, OuterInv
  <2> QED BY <1>1, <1>2, <2>1, <2>2, AloneKeeps
<1>4. CASE ~UNCHANGED ledgerVars
  <2> DEFINE fresh == CHOOSE id \in Approvals \ Ids : TRUE
             next  == WithRecord(fresh, NewRecord(c))
  <2>1. Available /\ ~Raced(c) /\ ~(Cardinality(Ids) >= MaxRecords) /\ (Saved(next) \/ SaveFailed(next))
    BY <1>4 DEF RecordRequest
  <2>2. /\ Good(records, consented, worker, closed) /\ Stored(next) /\ records = ledger
    BY <2>1 DEF ApprovalInv, StoreInv, Stored, Available
  <2>3. Ids \subseteq Approvals /\ IsFiniteSet(Ids) /\ Cardinality(Ids) < MaxRecords
    <3>1. Ids \subseteq Approvals /\ IsFiniteSet(Ids)
      BY <2>2, FS_Subset, ApprovalAssumption DEF Good, Ids
    <3> QED BY <3>1, <2>1, FS_CardinalityType, ApprovalAssumption
  <2>4. fresh \in Approvals \ Ids
    <3>1. Ids # Approvals
      <4>1. MaxRecords <= Cardinality(Approvals) /\ Cardinality(Approvals) \in Nat /\ Cardinality(Ids) \in Nat
            /\ MaxRecords \in Nat
        BY <2>3, FS_CardinalityType, ApprovalAssumption
      <4> QED BY <2>3, <4>1
    <3>2. \E id \in Approvals \ Ids : TRUE
      BY <2>3, <3>1
    <3> QED BY <3>2
  <2>5. /\ NewRecord(c) \in Record /\ NewRecord(c).status = "pending" /\ NewRecord(c).operation = Nothing
        /\ NewRecord(c).requestId = requester[c].requestId
    <3>1. requester[c].requestId \in RequestIds /\ requester[c].target \in Targets /\ time + Ttl \in Nat
      BY <1>1, ApprovalAssumption DEF ApprovalInv, OuterInv
    <3> QED BY <3>1 DEF NewRecord, Record
  <2> HIDE DEF fresh
  <2>6. /\ DOMAIN next = Ids \cup {fresh} /\ \A x \in Ids : next[x] = records[x]
        /\ next[fresh] = NewRecord(c)
    BY <2>4 DEF WithRecord
  <2> HIDE DEF next
  <2>7. \A x \in Ids : records[x].requestId # requester[c].requestId
    BY <2>1 DEF Raced, OfRequest
  <2>8. Good(next, consented, worker, closed)
    BY <2>2, <2>3, <2>4, <2>5, <2>6, <2>7, GoodAdded DEF Ids
  <2>9. Extends(records, next)
    BY <2>6 DEF Extends, Ids
  <2>10. /\ StoreInv' /\ broken' \in BOOLEAN
         /\ records' \in {records, next} /\ ledger' \in {records, next}
    BY <1>1, <2>2, <2>8, <2>9, StoredKeeps
  <2>11. Extends(records, records')
    BY <2>9, <2>10, ExtendsItself
  <2>12. \A x \in Ids : records'[x] = records[x] /\ ledger'[x] = ledger[x]
    BY <2>2, <2>6, <2>10
  <2> QED BY <1>1, <1>2, <2>10, <2>11, <2>12, AloneKeeps
<1> QED BY <1>3, <1>4

LEMMA DecideKeeps ==
  ASSUME ApprovalInv, NEW id \in Approvals, NEW d \in {"approved", "denied"}, Decide(id, d)
  PROVE  ApprovalInv'
<1> DEFINE next == [records EXCEPT ![id].status = d]
<1>1. /\ UNCHANGED <<running, requester, executor, worker, hook, runs, closed, time>>
      /\ id \in Ids /\ records[id].status = "pending" /\ Stored(next)
      /\ consented' = consented \cup (IF d = "approved" THEN {id} ELSE {})
  BY DEF Decide, processVars, Stored, Available
<1>2. Good(records, consented, worker, closed) /\ records = ledger
  BY <1>1 DEF ApprovalInv, StoreInv, Stored
<1>3. records[id] \in Record /\ records[id].operation = Nothing
  BY <1>1, <1>2 DEF Good, Ids
<1>4. /\ DOMAIN next = Ids /\ \A x \in Ids : x # id => next[x] = records[x]
      /\ next[id] \in Record /\ next[id].status = d /\ next[id].operation = Nothing
      /\ next[id].requestId = records[id].requestId /\ next[id].target = records[id].target
  BY <1>1, <1>3 DEF Record, Ids
<1>5. worker[id] = "none"
  BY <1>2, <1>3 DEF Good
<1> HIDE DEF next
<1>6. Good(next, consented', worker, closed)
  <2>1. consented \subseteq consented' /\ (next[id].status = "approved" => id \in consented')
    BY <1>1, <1>4
  <2>2. /\ next[id].status \in {"pending", "approved", "denied"} <=> next[id].operation = Nothing
        /\ next[id].status = "approved" \/ next[id].operation # Nothing => id \in consented'
        /\ next[id].status = "succeeded" => worker[id] = "adopted"
        /\ worker[id] = "running" => Unresolved(next[id])
        /\ next[id].operation = records[id].operation
    BY <1>3, <1>4, <1>5, <2>1
  <2> QED BY <1>1, <1>2, <1>4, <2>1, <2>2, GoodRevised DEF Ids
<1>7. Extends(records, next)
  BY <1>1, <1>4 DEF Extends, Ids
<1>8. /\ StoreInv' /\ broken' \in BOOLEAN
      /\ records' \in {records, next} /\ ledger' \in {records, next}
  BY <1>1, <1>6, <1>7, StoredKeeps
<1>9. Extends(records, records')
  BY <1>7, <1>8, ExtendsItself
<1>10. \A x \in Ids : /\ records[x].operation # Nothing => records'[x].operation # Nothing
                      /\ records[x].status = "executing" => records'[x] = records[x] /\ ledger'[x] = ledger[x]
  BY <1>1, <1>2, <1>3, <1>4, <1>8
<1>11. time' \in Nat
       /\ requester' \in [Requesters -> [requestId : RequestIds \cup {Nothing}, target : Targets \cup {Nothing},
                                         pc : {"idle", "bound", "done"}]]
       /\ \A c \in Requesters :
            requester'[c].pc = "bound" => requester'[c].requestId \in RequestIds /\ requester'[c].target \in Targets
  BY <1>1 DEF ApprovalInv, OuterInv
<1> QED BY <1>1, <1>8, <1>9, <1>10, <1>11, AloneKeeps

-----------------------------------------------------------------------------
(* execute().                                                               *)

\* A step of the execution e that leaves the workers and the tasks alone.
LEMMA ExecutionKeeps ==
  ASSUME ApprovalInv, NEW e \in Executors, StoreInv', Extends(records, records'), broken' \in BOOLEAN,
         UNCHANGED <<running, requester, worker, hook, runs, closed, time>>,
         executor' \in [Executors -> [id : Approvals \cup {Nothing}, op : Operations \cup {Nothing},
                                      pc : UnderLock \cup {"idle", "waiting", "done"}]],
         \A f \in Executors : f # e => executor'[f] = executor[f],
         \A id \in Ids :
           /\ records[id].operation # Nothing => records'[id].operation # Nothing
           /\ \A f \in Executors : f # e /\ executor[f].pc = "reserved" /\ executor[f].id = id =>
                records'[id] = records[id] /\ ledger'[id] = ledger[id],
         LockInv', ExecutionInv(e)'
  PROVE  ApprovalInv'
<1>1. OuterInv'
  BY DEF ApprovalInv, OuterInv
<1>2. \A f \in Executors : f # e => Kept(f)
  BY DEF ApprovalInv, Extends, Kept, Ids
<1>3. \A f \in Executors : ExecutionInv(f)'
  BY <1>2, KeptKeeps DEF ApprovalInv
<1> QED BY <1>1, <1>3 DEF ApprovalInv

LEMMA ExecuteKeeps ==
  ASSUME ApprovalInv, NEW e \in Executors, Execute(e)
  PROVE  ApprovalInv'
<1>1. /\ UNCHANGED <<records, ledger, broken, running, requester, worker, hook, runs, closed, consented, time>>
      /\ running
  BY DEF Execute, Available, ledgerVars, processVars, outerVars
<1>2. PICK id \in Ids, op \in Operations :
        executor' = [executor EXCEPT ![e] = [id |-> id, op |-> op, pc |-> "waiting"]]
  BY DEF Execute
<1>3. id \in Approvals
  BY DEF ApprovalInv, StoreInv, Good, Ids
<1>4. /\ executor' \in [Executors -> [id : Approvals \cup {Nothing}, op : Operations \cup {Nothing},
                                      pc : UnderLock \cup {"idle", "waiting", "done"}]]
      /\ executor'[e] = [id |-> id, op |-> op, pc |-> "waiting"]
      /\ \A f \in Executors : f # e => executor'[f] = executor[f]
  BY <1>2, <1>3 DEF ApprovalInv, OuterInv
<1>5. StoreInv' /\ Extends(records, records') /\ broken' \in BOOLEAN
  BY <1>1, UnstoredKeeps DEF ApprovalInv, OuterInv
<1>6. LockInv'
  BY <1>4, <1>5, LockKeeps DEF UnderLock
<1>7. ExecutionInv(e)'
  BY <1>1, <1>4 DEF ExecutionInv, UnderLock, Ids
<1> QED BY <1>1, <1>4, <1>5, <1>6, <1>7, ExecutionKeeps

LEMMA TakeLockKeeps ==
  ASSUME ApprovalInv, NEW e \in Executors, Lock(e)
  PROVE  ApprovalInv'
<1> DEFINE id == executor[e].id
<1>1. /\ UNCHANGED <<records, ledger, broken, running, requester, worker, hook, runs, closed, consented, time>>
      /\ executor[e].pc = "waiting" /\ ~Locked(Workspace(id))
  BY DEF Lock, ledgerVars, processVars, outerVars
<1>2. running /\ id \in Ids /\ executor[e].op \in Operations
  BY <1>1 DEF ApprovalInv, ExecutionInv
<1>3. PICK pc \in {"done", "locked"} : ESet(e, pc) /\ (pc = "locked" => Workspace(id) \notin closed)
  BY DEF Lock
<1>4. /\ executor' \in [Executors -> [id : Approvals \cup {Nothing}, op : Operations \cup {Nothing},
                                      pc : UnderLock \cup {"idle", "waiting", "done"}]]
      /\ executor'[e].pc = pc
      /\ pc = "locked" => executor'[e].id = id /\ executor'[e].op = executor[e].op
      /\ \A f \in Executors : f # e => executor'[f] = executor[f]
  BY <1>3, ESetType DEF UnderLock
<1>5. StoreInv' /\ Extends(records, records') /\ broken' \in BOOLEAN
  BY <1>1, UnstoredKeeps DEF ApprovalInv, OuterInv
<1>6. LockInv'
  <2>1. \A f \in Executors : executor[f].pc \in UnderLock => Workspace(executor[f].id) # Workspace(id)
    BY <1>1 DEF Locked, UnderLock
  <2>2. \A f \in Executors : Workspace(executor[f].id)' = records[executor'[f].id].target.workspace
    BY <1>1 DEF Workspace
  <2> SUFFICES ASSUME NEW f \in Executors, NEW g \in Executors, f # g,
                      executor'[f].pc \in UnderLock, executor'[g].pc \in UnderLock
               PROVE  Workspace(executor[f].id)' # Workspace(executor[g].id)'
    BY DEF LockInv
  <2>3. CASE f = e
    BY <1>3, <1>4, <2>1, <2>2, <2>3 DEF UnderLock, Workspace
  <2>4. CASE g = e
    BY <1>3, <1>4, <2>1, <2>2, <2>4 DEF UnderLock, Workspace
  <2>5. CASE f # e /\ g # e
    BY <1>4, <2>2, <2>5 DEF ApprovalInv, LockInv, Workspace
  <2> QED BY <2>3, <2>4, <2>5
<1>7. ExecutionInv(e)'
  BY <1>1, <1>2, <1>3, <1>4 DEF ExecutionInv, UnderLock, Ids, Workspace
<1> QED BY <1>1, <1>4, <1>5, <1>6, <1>7, ExecutionKeeps

\* Of a store mutation made under the lock of e about its approval.
LEMMA LockedWrite ==
  ASSUME ApprovalInv, NEW e \in Executors, executor[e].pc \in UnderLock, NEW next, Stored(next),
         UNCHANGED <<running, requester, worker, hook, runs, closed, consented, time>>,
         NEW pc \in UnderLock \cup {"done"}, ESet(e, pc),
         Good(next, consented, worker, closed), DOMAIN next = Ids,
         \A x \in Ids : /\ x # executor[e].id => next[x] = records[x]
                        /\ next[x].target = records[x].target
                        /\ records[x].operation # Nothing => next[x].operation # Nothing,
         ExecutionInv(e)'
  PROVE  ApprovalInv'
<1>1. /\ executor' \in [Executors -> [id : Approvals \cup {Nothing}, op : Operations \cup {Nothing},
                                      pc : UnderLock \cup {"idle", "waiting", "done"}]]
      /\ executor'[e].pc = pc
      /\ pc # "done" => executor'[e].id = executor[e].id
      /\ \A f \in Executors : f # e => executor'[f] = executor[f]
  BY ESetType
<1>2. Extends(records, next)
  BY DEF Extends, Ids
<1>3. /\ StoreInv' /\ broken' \in BOOLEAN
      /\ records' \in {records, next} /\ ledger' \in {records, next} /\ records = ledger
  BY <1>2, StoredKeeps
<1>4. Extends(records, records')
  BY <1>2, <1>3, ExtendsItself
<1>5. LockInv'
  <2>1. \A f \in Executors : executor'[f].pc \in UnderLock =>
          executor[f].pc \in UnderLock /\ executor'[f].id = executor[f].id
    BY <1>1 DEF UnderLock
  <2> QED BY <1>4, <2>1, LockKeeps
<1>6. ASSUME NEW f \in Executors, f # e, executor[f].pc = "reserved", executor[f].id \in Ids
      PROVE  records'[executor[f].id] = records[executor[f].id] /\ ledger'[executor[f].id] = ledger[executor[f].id]
  <2>1. executor[f].id # executor[e].id
    BY <1>6, OneUnderLock DEF UnderLock
  <2> QED BY <1>3, <1>6, <2>1
<1>7. \A x \in Ids : records[x].operation # Nothing => records'[x].operation # Nothing
  BY <1>3
<1> QED BY <1>1, <1>3, <1>4, <1>5, <1>6, <1>7, ExecutionKeeps

\* ... and of a step that gives up without one.
LEMMA NoWrite ==
  ASSUME ApprovalInv, NEW e \in Executors, executor[e].pc \in UnderLock,
         UNCHANGED <<records, ledger, broken, running, requester, worker, hook, runs, closed, consented, time>>,
         NEW pc \in {"uncertain", "done"}, ESet(e, pc),
         pc = "uncertain" => records[executor[e].id].operation # Nothing
  PROVE  ApprovalInv'
<1>1. /\ executor' \in [Executors -> [id : Approvals \cup {Nothing}, op : Operations \cup {Nothing},
                                      pc : UnderLock \cup {"idle", "waiting", "done"}]]
      /\ executor'[e].pc = pc
      /\ pc # "done" => executor'[e].id = executor[e].id /\ executor'[e].op = executor[e].op
      /\ \A f \in Executors : f # e => executor'[f] = executor[f]
  BY ESetType DEF UnderLock
<1>2. StoreInv' /\ Extends(records, records') /\ broken' \in BOOLEAN
  BY UnstoredKeeps DEF ApprovalInv, OuterInv
<1>3. LockInv'
  <2>1. \A f \in Executors : executor'[f].pc \in UnderLock =>
          executor[f].pc \in UnderLock /\ executor'[f].id = executor[f].id
    BY <1>1 DEF UnderLock
  <2> QED BY <1>2, <2>1, LockKeeps
<1>4. running /\ executor[e].id \in Ids /\ executor[e].op \in Operations
  BY DEF ApprovalInv, ExecutionInv
<1>5. ExecutionInv(e)'
  BY <1>1, <1>4 DEF ExecutionInv, UnderLock, Ids
<1> QED BY <1>1, <1>2, <1>3, <1>5, ExecutionKeeps

LEMMA ReserveKeeps ==
  ASSUME ApprovalInv, NEW e \in Executors, Reserve(e)
  PROVE  ApprovalInv'
<1> DEFINE id == executor[e].id
           op == executor[e].op
           next == ReservedLedger(e)
<1>1. /\ UNCHANGED <<running, requester, worker, hook, runs, closed, consented, time>>
      /\ executor[e].pc = "locked" /\ executor[e].pc \in UnderLock
  BY DEF Reserve, processVars, outerVars, UnderLock
<1>2. running /\ id \in Ids /\ op \in Operations /\ Workspace(id) \notin closed
  BY <1>1 DEF ApprovalInv, ExecutionInv
<1>3. CASE ESet(e, "done") /\ UNCHANGED ledgerVars
  BY <1>1, <1>3, NoWrite DEF ledgerVars
<1>4. CASE ~broken /\ Reservable(e) /\ (\/ Saved(next) /\ ESet(e, "reserved")
                                        \/ SaveFailed(next) /\ ESet(e, "done"))
  <2>1. /\ Stored(next) /\ Good(records, consented, worker, closed) /\ records = ledger
    BY <1>4 DEF ApprovalInv, StoreInv, Stored
  <2>2. records[id] \in Record /\ records[id].status = "approved" /\ id \in consented /\ op # Nothing
        /\ records[id].operation = Nothing
    BY <1>2, <1>4, <2>1, ApprovalAssumption DEF Good, Ids, Reservable, Of
  <2>3. /\ DOMAIN next = Ids /\ \A x \in Ids : x # id => next[x] = records[x]
        /\ next[id] \in Record /\ next[id].status = "executing" /\ next[id].operation = op
        /\ next[id].requestId = records[id].requestId /\ next[id].target = records[id].target
    BY <1>2, <2>2 DEF ReservedLedger, Record, Ids
  <2>4. \A x \in Ids : x # id => records[x].operation # op
    BY <1>4 DEF Reservable
  <2>5. worker[id] = "none"
    BY <1>2, <2>1, <2>2 DEF Good, Ids
  <2> HIDE DEF next
  <2>6. Good(next, consented, worker, closed)
    <3>1. /\ next[id].status \in {"pending", "approved", "denied"} <=> next[id].operation = Nothing
          /\ next[id].status = "approved" \/ next[id].operation # Nothing => id \in consented
          /\ next[id].status = "succeeded" => worker[id] = "adopted"
          /\ worker[id] = "running" => Unresolved(next[id])
          /\ records[id].operation = Nothing /\ next[id].operation # Nothing
      BY <2>2, <2>3, <2>5
    <3> HIDE DEF id, op
    <3>2. \A x \in Ids : x # id => records[x].operation # next[id].operation
      BY <2>3, <2>4
    <3> QED BY <1>2, <2>1, <2>3, <3>1, <3>2, GoodRevised DEF Ids
  <2>7. \A x \in Ids : /\ x # id => next[x] = records[x]
                       /\ next[x].target = records[x].target
                       /\ records[x].operation # Nothing => next[x].operation # Nothing
    BY <2>2, <2>3
  <2>8. CASE Saved(next) /\ ESet(e, "reserved")
    <3>1. executor'[e].pc = "reserved" /\ executor'[e].id = id /\ executor'[e].op = op
      BY <2>8, ESetType DEF UnderLock
    <3>2. records' = next /\ ledger' = next
      BY <2>8 DEF Saved
    <3>3. ExecutionInv(e)'
      BY <1>1, <1>2, <2>2, <2>3, <2>5, <3>1, <3>2 DEF ExecutionInv, UnderLock, Ids, Workspace
    <3> QED BY <1>1, <2>1, <2>3, <2>6, <2>7, <2>8, <3>3, LockedWrite DEF UnderLock
  <2>9. CASE SaveFailed(next) /\ ESet(e, "done")
    <3>1. executor'[e].pc = "done"
      BY <2>9, ESetType
    <3>2. ExecutionInv(e)'
      BY <3>1 DEF ExecutionInv, UnderLock
    <3> QED BY <1>1, <2>1, <2>3, <2>6, <2>7, <2>9, <3>2, LockedWrite
  <2> QED BY <1>4, <2>8, <2>9
<1>5. \/ ESet(e, "done") /\ UNCHANGED ledgerVars
      \/ ~broken /\ Reservable(e) /\ (\/ Saved(next) /\ ESet(e, "reserved")
                                      \/ SaveFailed(next) /\ ESet(e, "done"))
  BY DEF Reserve
<1> QED BY <1>3, <1>4, <1>5

LEMMA RecordSessionKeeps ==
  ASSUME ApprovalInv, NEW e \in Executors, RecordSession(e)
  PROVE  ApprovalInv'
<1>1. /\ UNCHANGED <<running, requester, worker, hook, runs, closed, consented, time>>
      /\ executor[e].pc = "spawned" /\ executor[e].pc \in UnderLock
  BY DEF RecordSession, processVars, outerVars, UnderLock
<1>2. /\ running /\ executor[e].id \in Ids /\ executor[e].op \in Operations
      /\ records[executor[e].id].operation # Nothing
  BY <1>1 DEF ApprovalInv, ExecutionInv, UnderLock
<1>3. CASE UNCHANGED ledgerVars /\ ESet(e, "uncertain")
  BY <1>1, <1>2, <1>3, NoWrite DEF ledgerVars
<1>4. ASSUME NEW pc \in {"uncertain", "done"}, Stored(records), ESet(e, pc)
      PROVE  ApprovalInv'
  <2>1. Good(records, consented, worker, closed) /\ records' = records
    BY <1>4 DEF ApprovalInv, StoreInv, Stored, Saved, SaveFailed
  <2>2. executor'[e].pc = pc /\ (pc # "done" => executor'[e].id = executor[e].id /\ executor'[e].op = executor[e].op)
    BY <1>4, ESetType DEF UnderLock
  <2>3. ExecutionInv(e)'
    BY <1>1, <1>2, <2>1, <2>2 DEF ExecutionInv, UnderLock, Ids
  <2> QED BY <1>1, <1>4, <2>1, <2>3, LockedWrite DEF UnderLock, Ids
<1>5. \/ UNCHANGED ledgerVars /\ ESet(e, "uncertain")
      \/ \E pc \in {"uncertain", "done"} : Stored(records) /\ ESet(e, pc)
  BY DEF RecordSession, Stored
<1> QED BY <1>3, <1>4, <1>5

\* What an approval that has been consumed may become.
LEMMA GoodStatus ==
  ASSUME ApprovalInv, NEW id \in Ids, records[id].operation # Nothing, NEW v \in {"unknown", "succeeded"},
         v = "succeeded" => worker[id] = "adopted"
  PROVE  /\ Good(WithStatus(id, v), consented, worker, closed) /\ DOMAIN WithStatus(id, v) = Ids
         /\ \A x \in Ids : /\ x # id => WithStatus(id, v)[x] = records[x]
                           /\ WithStatus(id, v)[x].target = records[x].target
                           /\ records[x].operation # Nothing => WithStatus(id, v)[x].operation # Nothing
<1> DEFINE n == WithStatus(id, v)
<1>1. Good(records, consented, worker, closed) /\ records[id] \in Record /\ id \in consented
  BY DEF ApprovalInv, StoreInv, Good, Ids
<1>2. /\ DOMAIN n = Ids /\ \A x \in Ids : x # id => n[x] = records[x]
      /\ n[id] \in Record /\ n[id].status = v /\ n[id].operation = records[id].operation
      /\ n[id].requestId = records[id].requestId /\ n[id].target = records[id].target
  BY <1>1 DEF WithStatus, Record, Ids
<1> HIDE DEF n
<1>3. /\ n[id].status \in {"pending", "approved", "denied"} <=> n[id].operation = Nothing
      /\ n[id].status = "approved" \/ n[id].operation # Nothing => id \in consented
      /\ n[id].status = "succeeded" => worker[id] = "adopted"
      /\ worker[id] = "running" => Unresolved(n[id])
  BY <1>1, <1>2 DEF Unresolved
<1>4. Good(n, consented, worker, closed)
  BY <1>1, <1>2, <1>3, GoodRevised DEF Ids
<1>5. \A x \in Ids : /\ x # id => n[x] = records[x]
                     /\ n[x].target = records[x].target
                     /\ records[x].operation # Nothing => n[x].operation # Nothing
  BY <1>2
<1> QED BY <1>2, <1>4, <1>5 DEF n

LEMMA UncertainKeeps ==
  ASSUME ApprovalInv, NEW e \in Executors, Uncertain(e)
  PROVE  ApprovalInv'
<1> DEFINE next == WithStatus(executor[e].id, "unknown")
<1>1. /\ UNCHANGED <<running, requester, worker, hook, runs, closed, consented, time>>
      /\ executor[e].pc = "uncertain" /\ executor[e].pc \in UnderLock /\ ESet(e, "done")
  BY DEF Uncertain, processVars, outerVars, UnderLock
<1>2. executor[e].id \in Ids /\ records[executor[e].id].operation # Nothing
  BY <1>1 DEF ApprovalInv, ExecutionInv, UnderLock
<1>3. CASE UNCHANGED ledgerVars
  BY <1>1, <1>3, NoWrite DEF ledgerVars
<1>4. CASE Stored(next)
  <2>1. /\ Good(next, consented, worker, closed) /\ DOMAIN next = Ids
        /\ \A x \in Ids : /\ x # executor[e].id => next[x] = records[x]
                          /\ next[x].target = records[x].target
                          /\ records[x].operation # Nothing => next[x].operation # Nothing
    BY <1>2, GoodStatus
  <2>2. ExecutionInv(e)'
    <3>1. executor'[e].pc = "done"
      BY <1>1, ESetType
    <3> QED BY <3>1 DEF ExecutionInv, UnderLock
  <2> HIDE DEF next
  <2> QED BY <1>1, <1>4, <2>1, <2>2, LockedWrite
<1> QED BY <1>3, <1>4 DEF Uncertain, Stored

-----------------------------------------------------------------------------
(* Workers and their hooks.                                                 *)

\* What a step about a worker, a hook or a task leaves true of the executions.
LEMMA BesideKeeps ==
  ASSUME ApprovalInv, StoreInv', Extends(records, records'), broken' \in BOOLEAN,
         UNCHANGED <<running, requester, executor, time>>,
         worker' \in [Approvals -> {"none", "running", "adopted", "failed"}],
         runs' = [id \in Approvals |-> IF worker'[id] = "none" THEN 0 ELSE 1],
         hook' \subseteq {id \in Approvals : worker'[id] # "none"},
         closed' \subseteq {t.workspace : t \in Targets},
         \A id \in Ids : records[id].operation # Nothing => records'[id].operation # Nothing,
         \A f \in Executors : executor[f].pc \in {"locked", "reserved"} =>
           Workspace(executor[f].id) \notin closed',
         \A f \in Executors : executor[f].pc = "reserved" =>
           LET id == executor[f].id IN
           records'[id] = records[id] /\ ledger'[id] = ledger[id] /\ worker'[id] = worker[id]
  PROVE  ApprovalInv'
<1>1. OuterInv'
  BY DEF ApprovalInv, OuterInv
<1>2. LockInv'
  BY LockKeeps
<1>3. \A f \in Executors : Kept(f)
  BY DEF ApprovalInv, Extends, Kept, Ids
<1>4. \A f \in Executors : ExecutionInv(f)'
  BY <1>3, KeptKeeps DEF ApprovalInv
<1> QED BY <1>1, <1>2, <1>4 DEF ApprovalInv

LEMMA SpawnWorkerKeeps ==
  ASSUME ApprovalInv, NEW e \in Executors, SpawnWorker(e)
  PROVE  ApprovalInv'
<1> DEFINE id == executor[e].id
<1>1. /\ UNCHANGED <<records, ledger, broken, running, requester, closed, consented, time>>
      /\ executor[e].pc = "reserved" /\ executor[e].pc \in UnderLock
  BY DEF SpawnWorker, ledgerVars, outerVars, UnderLock
<1>2. /\ running /\ id \in Ids /\ executor[e].op \in Operations /\ Workspace(id) \notin closed
      /\ records[id].status = "executing" /\ ledger[id].status = "executing"
      /\ records[id].operation # Nothing /\ ledger[id].operation # Nothing
      /\ worker[id] = "none"
  BY <1>1 DEF ApprovalInv, ExecutionInv, UnderLock
<1>3. CASE ESet(e, "uncertain") /\ UNCHANGED processVars
  BY <1>1, <1>2, <1>3, NoWrite DEF processVars
<1>4. CASE /\ ESet(e, "spawned")
           /\ worker' = [worker EXCEPT ![id] = "running"]
           /\ hook' = hook \cup {id}
           /\ runs' = [runs EXCEPT ![id] = @ + 1]
  <2>1. /\ id \in Approvals /\ id \in DOMAIN ledger /\ ledger[id].target = records[id].target
        /\ Good(records, consented, worker, closed) /\ Good(ledger, consented, worker, closed)
    BY <1>2 DEF ApprovalInv, StoreInv, Good, Extends, Ids
  <2>2. /\ worker' \in [Approvals -> {"none", "running", "adopted", "failed"}]
        /\ worker'[id] = "running" /\ \A x \in Approvals : x # id => worker'[x] = worker[x]
        /\ hook' \subseteq {x \in Approvals : worker'[x] # "none"}
        /\ runs' = [x \in Approvals |-> IF worker'[x] = "none" THEN 0 ELSE 1]
    BY <1>2, <1>4, <2>1 DEF ApprovalInv, OuterInv
  <2>3. /\ executor' \in [Executors -> [id : Approvals \cup {Nothing}, op : Operations \cup {Nothing},
                                        pc : UnderLock \cup {"idle", "waiting", "done"}]]
        /\ executor'[e].pc = "spawned" /\ executor'[e].id = id /\ executor'[e].op = executor[e].op
        /\ \A f \in Executors : f # e => executor'[f] = executor[f]
    BY <1>4, ESetType DEF UnderLock
  <2> HIDE DEF id
  <2>4. Good(records, consented, worker', closed)
    BY <1>2, <2>1, <2>2, GoodWorkers DEF Ids, Workspace
  <2>5. Good(ledger, consented, worker', closed)
    BY <1>2, <2>1, <2>2, GoodWorkers DEF Ids, Workspace
  <2>6. StoreInv'
    BY <1>1, <2>4, <2>5 DEF ApprovalInv, StoreInv
  <2>7. LockInv'
    BY <1>1, <2>3, LockKeeps, ExtendsItself DEF id
  <2>8. ExecutionInv(e)'
    BY <1>1, <1>2, <2>3 DEF ExecutionInv, UnderLock, Ids, Workspace
  <2>9. OuterInv'
    BY <1>1, <2>2, <2>3 DEF ApprovalInv, OuterInv
  <2>10. ASSUME NEW f \in Executors, f # e
         PROVE  ExecutionInv(f)'
    <3>1. executor[f].pc = "reserved" => executor[f].id # id /\ executor[f].id \in Approvals
      <4>1. executor[f].pc = "reserved" => executor[f].id # id
        BY <1>1, <2>10, OneUnderLock DEF UnderLock, id
      <4>2. executor[f].pc = "reserved" => executor[f].id \in Ids
        BY DEF ApprovalInv, ExecutionInv, UnderLock
      <4> QED BY <2>1, <4>1, <4>2 DEF Good, Ids
    <3>2. Kept(f)
      BY <1>1, <2>2, <2>3, <2>10, <3>1 DEF Kept, Ids
    <3> QED BY <3>2, KeptKeeps DEF ApprovalInv
  <2> QED BY <2>6, <2>7, <2>8, <2>9, <2>10 DEF ApprovalInv
<1> QED BY <1>3, <1>4 DEF SpawnWorker

LEMMA WorkerEndsKeeps ==
  ASSUME ApprovalInv, NEW id \in Approvals, WorkerEnds(id)
  PROVE  ApprovalInv'
<1>1. /\ UNCHANGED <<records, ledger, broken, running, requester, executor, hook, runs, closed, consented, time>>
      /\ worker[id] = "running" /\ worker' \in {[worker EXCEPT ![id] = how] : how \in {"adopted", "failed"}}
  BY DEF WorkerEnds, ledgerVars, outerVars
<1>2. /\ worker' \in [Approvals -> {"none", "running", "adopted", "failed"}]
      /\ worker'[id] \in {"adopted", "failed"} /\ \A x \in Approvals : x # id => worker'[x] = worker[x]
  BY <1>1 DEF ApprovalInv, OuterInv
<1>3. /\ runs' = [x \in Approvals |-> IF worker'[x] = "none" THEN 0 ELSE 1]
      /\ hook' \subseteq {x \in Approvals : worker'[x] # "none"}
  BY <1>1, <1>2 DEF ApprovalInv, OuterInv
<1>4. Good(records, consented, worker', closed)
  BY <1>1, <1>2, GoodWorkers DEF ApprovalInv, StoreInv
<1>5. Good(ledger, consented, worker', closed)
  BY <1>1, <1>2, GoodWorkers DEF ApprovalInv, StoreInv
<1>6. StoreInv' /\ Extends(records, records') /\ broken' \in BOOLEAN
  BY <1>1, <1>4, <1>5, ExtendsItself DEF ApprovalInv, StoreInv, OuterInv
<1>7. ASSUME NEW f \in Executors, executor[f].pc \in {"locked", "reserved"}
      PROVE  /\ Workspace(executor[f].id) \notin closed'
             /\ executor[f].pc = "reserved" => worker'[executor[f].id] = worker[executor[f].id]
  <2>1. /\ executor[f].id \in Approvals /\ Workspace(executor[f].id) \notin closed
        /\ executor[f].pc = "reserved" => worker[executor[f].id] = "none"
    BY <1>7 DEF ApprovalInv, ExecutionInv, StoreInv, Good, Ids, UnderLock
  <2>2. closed' = closed /\ worker[id] = "running"
    BY <1>1
  <2> QED BY <1>2, <2>1, <2>2
<1>8. closed' \subseteq {t.workspace : t \in Targets}
  BY <1>1 DEF ApprovalInv, OuterInv
<1> QED BY <1>1, <1>2, <1>3, <1>6, <1>7, <1>8, BesideKeeps

LEMMA FinishKeeps ==
  ASSUME ApprovalInv, NEW id \in Approvals, Finish(id)
  PROVE  ApprovalInv'
<1>1. /\ UNCHANGED <<running, requester, executor, worker, runs, closed, consented, time>>
      /\ hook' = hook \ {id} /\ id \in hook /\ worker[id] # "none"
  BY DEF Finish, outerVars, ApprovalInv, OuterInv
<1>2. id \in Ids /\ records[id].operation # Nothing /\ Good(records, consented, worker, closed)
  BY <1>1 DEF ApprovalInv, StoreInv, Good, Ids
<1>3. ASSUME NEW f \in Executors, executor[f].pc \in {"locked", "reserved"}
      PROVE  /\ Workspace(executor[f].id) \notin closed'
             /\ executor[f].id \in Ids
             /\ executor[f].pc = "reserved" => executor[f].id # id
  BY <1>1, <1>3 DEF ApprovalInv, ExecutionInv, UnderLock
<1>4. /\ worker' \in [Approvals -> {"none", "running", "adopted", "failed"}]
      /\ runs' = [x \in Approvals |-> IF worker'[x] = "none" THEN 0 ELSE 1]
      /\ hook' \subseteq {x \in Approvals : worker'[x] # "none"}
      /\ closed' \subseteq {t.workspace : t \in Targets}
  BY <1>1 DEF ApprovalInv, OuterInv
<1>5. CASE UNCHANGED ledgerVars
  <2>1. UNCHANGED <<records, ledger, broken>>
    BY <1>5 DEF ledgerVars
  <2>2. StoreInv' /\ Extends(records, records') /\ broken' \in BOOLEAN
    BY <1>1, <2>1, UnstoredKeeps DEF ApprovalInv, OuterInv
  <2> QED BY <1>1, <1>3, <1>4, <2>1, <2>2, BesideKeeps
<1>6. ASSUME NEW v \in Verdicts(id), Stored(WithStatus(id, v))
      PROVE  ApprovalInv'
  <2> DEFINE next == WithStatus(id, v)
  <2>1. v \in {"unknown", "succeeded"} /\ (v = "succeeded" => worker[id] = "adopted")
    BY DEF Verdicts
  <2>2. /\ Good(next, consented, worker, closed) /\ DOMAIN next = Ids
        /\ \A x \in Ids : /\ x # id => next[x] = records[x]
                          /\ next[x].target = records[x].target
                          /\ records[x].operation # Nothing => next[x].operation # Nothing
    BY <1>2, <2>1, GoodStatus
  <2> HIDE DEF next
  <2>3. Extends(records, next)
    BY <2>2 DEF Extends, Ids
  <2>4. /\ StoreInv' /\ broken' \in BOOLEAN
        /\ records' \in {records, next} /\ ledger' \in {records, next} /\ records = ledger
    BY <1>1, <1>6, <2>2, <2>3, StoredKeeps DEF next
  <2>5. Extends(records, records')
    BY <2>3, <2>4, ExtendsItself
  <2>6. \A x \in Ids : /\ records[x].operation # Nothing => records'[x].operation # Nothing
                       /\ x # id => records'[x] = records[x] /\ ledger'[x] = ledger[x]
    BY <2>2, <2>4
  <2> QED BY <1>1, <1>3, <1>4, <2>4, <2>5, <2>6, BesideKeeps
<1> QED BY <1>5, <1>6 DEF Finish, Stored

-----------------------------------------------------------------------------
(* complete_task(), the clock, a crash and a restart.                       *)

LEMMA CompleteTaskKeeps ==
  ASSUME ApprovalInv, NEW t \in Targets, CompleteTask(t.workspace)
  PROVE  ApprovalInv'
<1> DEFINE w == t.workspace
<1>1. /\ UNCHANGED <<records, ledger, broken, running, requester, executor, worker, hook, runs, consented, time>>
      /\ closed' = closed \cup {w} /\ ~Locked(w)
      /\ ~broken /\ \A id \in Ids : Workspace(id) = w => ~Unresolved(records[id])
  BY DEF CompleteTask, ledgerVars, processVars, Blocked
<1>2. Good(records, consented, worker, closed) /\ records = ledger
  BY <1>1 DEF ApprovalInv, StoreInv
<1>3. /\ worker' \in [Approvals -> {"none", "running", "adopted", "failed"}]
      /\ runs' = [x \in Approvals |-> IF worker'[x] = "none" THEN 0 ELSE 1]
      /\ hook' \subseteq {x \in Approvals : worker'[x] # "none"}
      /\ closed' \subseteq {u.workspace : u \in Targets}
  BY <1>1 DEF ApprovalInv, OuterInv
<1> HIDE DEF w
<1>4. Good(records, consented, worker, closed')
  BY <1>1, <1>2, GoodCompleted DEF Ids, Workspace
<1>5. StoreInv' /\ Extends(records, records') /\ broken' \in BOOLEAN
  BY <1>1, <1>2, <1>4, ExtendsItself DEF ApprovalInv, StoreInv, OuterInv
<1>6. ASSUME NEW f \in Executors, executor[f].pc \in {"locked", "reserved"}
      PROVE  Workspace(executor[f].id) \notin closed'
  <2>1. Workspace(executor[f].id) \notin closed
    BY <1>6 DEF ApprovalInv, ExecutionInv
  <2>2. Workspace(executor[f].id) # w
    BY <1>1, <1>6 DEF Locked
  <2> QED BY <1>1, <2>1, <2>2
<1> QED BY <1>1, <1>3, <1>5, <1>6, BesideKeeps

LEMMA PassKeeps ==
  ASSUME ApprovalInv, Pass
  PROVE  ApprovalInv'
<1>1. /\ UNCHANGED <<records, ledger, broken, running, requester, executor, worker, hook, runs, closed, consented>>
      /\ time' \in Nat
  BY DEF Pass, ledgerVars, processVars, ApprovalInv, OuterInv
<1>2. StoreInv' /\ Extends(records, records') /\ broken' \in BOOLEAN
  BY <1>1, UnstoredKeeps DEF ApprovalInv, OuterInv
<1>3. /\ requester' \in [Requesters -> [requestId : RequestIds \cup {Nothing}, target : Targets \cup {Nothing},
                                        pc : {"idle", "bound", "done"}]]
      /\ \A c \in Requesters :
           requester'[c].pc = "bound" => requester'[c].requestId \in RequestIds /\ requester'[c].target \in Targets
  BY <1>1 DEF ApprovalInv, OuterInv
<1> QED BY <1>1, <1>2, <1>3, AloneKeeps

\* No execution is under way when the server does not run.
LEMMA NoneUnderWay ==
  ASSUME ApprovalInv, ~running, NEW e \in Executors
  PROVE  executor[e].pc \notin UnderLock \cup {"waiting"}
  BY DEF ApprovalInv, ExecutionInv

LEMMA CrashServerKeeps ==
  ASSUME ApprovalInv, CrashServer
  PROVE  ApprovalInv'
<1>1. /\ UNCHANGED <<broken, records, ledger, worker, runs, closed, consented, time>>
      /\ running' = FALSE /\ hook' = {}
      /\ requester' = [c \in Requesters |-> RequestIs(IF requester[c].pc = "idle" THEN "idle" ELSE "done")]
      /\ executor' = [e \in Executors |-> ExecutionIs(IF executor[e].pc = "idle" THEN "idle" ELSE "done")]
  BY DEF CrashServer, outerVars
<1>2. StoreInv'
  BY <1>1, UnstoredKeeps
<1>3. /\ requester' \in [Requesters -> [requestId : RequestIds \cup {Nothing}, target : Targets \cup {Nothing},
                                        pc : {"idle", "bound", "done"}]]
      /\ \A c \in Requesters : requester'[c].pc # "bound"
  BY <1>1 DEF RequestIs
<1>4. /\ executor' \in [Executors -> [id : Approvals \cup {Nothing}, op : Operations \cup {Nothing},
                                      pc : UnderLock \cup {"idle", "waiting", "done"}]]
      /\ \A e \in Executors : executor'[e].pc \in {"idle", "done"}
  BY <1>1 DEF ExecutionIs
<1>5. OuterInv'
  BY <1>1, <1>3, <1>4 DEF ApprovalInv, OuterInv
<1>6. LockInv' /\ \A e \in Executors : ExecutionInv(e)'
  BY <1>4 DEF LockInv, ExecutionInv, UnderLock
<1> QED BY <1>2, <1>5, <1>6 DEF ApprovalInv

LEMMA StartServerKeeps ==
  ASSUME ApprovalInv, StartServer
  PROVE  ApprovalInv'
<1>1. /\ UNCHANGED <<requester, executor, worker, hook, runs, closed, consented, time>>
      /\ ~running /\ running' = TRUE /\ broken' = FALSE
      /\ ledger' = Interrupted /\ records' = Interrupted
  BY DEF StartServer, processVars, outerVars
<1>2. StoreInv'
  BY <1>1, GoodInterrupted, ExtendsItself DEF StoreInv
<1>3. OuterInv'
  BY <1>1 DEF ApprovalInv, OuterInv
<1>4. \A e \in Executors : executor'[e].pc \notin UnderLock \cup {"waiting"}
  BY <1>1, NoneUnderWay
<1>5. LockInv' /\ \A e \in Executors : ExecutionInv(e)'
  BY <1>4 DEF LockInv, ExecutionInv, UnderLock
<1> QED BY <1>2, <1>3, <1>5 DEF ApprovalInv

LEMMA StutterKeeps ==
  ASSUME ApprovalInv, UNCHANGED approvalVars
  PROVE  ApprovalInv'
<1>1. /\ UNCHANGED <<records, ledger, broken, running, requester, executor, worker, hook, runs, closed, consented>>
      /\ time' \in Nat
  BY DEF approvalVars, ApprovalInv, OuterInv
<1>2. StoreInv' /\ Extends(records, records') /\ broken' \in BOOLEAN
  BY <1>1, UnstoredKeeps DEF ApprovalInv, OuterInv
<1>3. /\ requester' \in [Requesters -> [requestId : RequestIds \cup {Nothing}, target : Targets \cup {Nothing},
                                        pc : {"idle", "bound", "done"}]]
      /\ \A c \in Requesters :
           requester'[c].pc = "bound" => requester'[c].requestId \in RequestIds /\ requester'[c].target \in Targets
  BY <1>1 DEF ApprovalInv, OuterInv
<1> QED BY <1>1, <1>2, <1>3, AloneKeeps

-----------------------------------------------------------------------------
(* The theorems.                                                            *)

LEMMA ApprovalInitInv ==
  ASSUME ApprovalInit
  PROVE  ApprovalInv
<1>1. /\ running = TRUE /\ broken = FALSE /\ records = << >> /\ ledger = << >>
      /\ requester = [c \in Requesters |-> RequestIs("idle")]
      /\ executor = [e \in Executors |-> ExecutionIs("idle")]
      /\ closed = {} /\ worker = [id \in Approvals |-> "none"] /\ hook = {}
      /\ runs = [id \in Approvals |-> 0] /\ time = 0
  BY DEF ApprovalInit
<1>2. OuterInv
  BY <1>1 DEF OuterInv, RequestIs, ExecutionIs
<1>3. DOMAIN records = {} /\ Cardinality(DOMAIN records) = 0
  BY <1>1, FS_EmptySet
<1>4. Good(records, consented, worker, closed)
  BY <1>1, <1>3, ApprovalAssumption DEF Good
<1>5. StoreInv
  BY <1>1, <1>4, ExtendsItself DEF StoreInv
<1>6. LockInv /\ \A e \in Executors : ExecutionInv(e)
  BY <1>1 DEF LockInv, ExecutionInv, ExecutionIs, UnderLock
<1> QED BY <1>2, <1>5, <1>6 DEF ApprovalInv

LEMMA ApprovalStepInv ==
  ASSUME ApprovalInv, [ApprovalNext]_approvalVars
  PROVE  ApprovalInv'
<1>1. ASSUME NEW c \in Requesters, Request(c) \/ RecordRequest(c)
      PROVE  ApprovalInv'
  BY <1>1, RequestKeeps, RecordRequestKeeps
<1>2. ASSUME NEW id \in Approvals, Decide(id, "approved") \/ Decide(id, "denied") \/ WorkerEnds(id) \/ Finish(id)
      PROVE  ApprovalInv'
  BY <1>2, DecideKeeps, WorkerEndsKeeps, FinishKeeps
<1>3. ASSUME NEW e \in Executors,
             Execute(e) \/ Lock(e) \/ Reserve(e) \/ SpawnWorker(e) \/ RecordSession(e) \/ Uncertain(e)
      PROVE  ApprovalInv'
  BY <1>3, ExecuteKeeps, TakeLockKeeps, ReserveKeeps, SpawnWorkerKeeps, RecordSessionKeeps, UncertainKeeps
<1>4. ASSUME NEW t \in Targets, CompleteTask(t.workspace)
      PROVE  ApprovalInv'
  BY <1>4, CompleteTaskKeeps
<1>5. CASE Pass \/ CrashServer \/ StartServer
  BY <1>5, PassKeeps, CrashServerKeeps, StartServerKeeps
<1>6. CASE UNCHANGED approvalVars
  BY <1>6, StutterKeeps
<1> QED BY <1>1, <1>2, <1>3, <1>4, <1>5, <1>6 DEF ApprovalNext

LEMMA ApprovalInvariant ==
  ApprovalSpec => []ApprovalInv
<1>1. ApprovalInit => ApprovalInv
  BY ApprovalInitInv
<1>2. ApprovalInv /\ [ApprovalNext]_approvalVars => ApprovalInv'
  BY ApprovalStepInv
<1> QED BY <1>1, <1>2, PTL DEF ApprovalSpec

\* An approved operation has one worker at most, whatever calls are repeated
\* or made at once, whichever writes of the ledger fail and whenever the
\* server crashes: executeLocked() has the reservation on disk before it
\* starts one, under an operationId that no other approval has.
THEOREM ConsumedOnceThm ==
  ApprovalSpec => []ConsumedOnce
<1>1. ApprovalInv => ConsumedOnce
  <2> SUFFICES ASSUME ApprovalInv PROVE ConsumedOnce
    OBVIOUS
  <2>1. ApprovalTypeOK
    BY DEF ApprovalInv, OuterInv, StoreInv, Good, ApprovalTypeOK, Ids
  <2>2. \A id \in Approvals : runs[id] > 0 => worker[id] # "none" /\ runs[id] = 1
    BY DEF ApprovalInv, OuterInv
  <2>3. \A id \in Approvals : worker[id] # "none" =>
          id \in consented /\ id \in DOMAIN ledger /\ ledger[id].operation # Nothing
    BY DEF ApprovalInv, StoreInv, Good
  <2>4. \A id, x \in DOMAIN ledger : x # id =>
          /\ ledger[x].requestId # ledger[id].requestId
          /\ ledger[x].operation # Nothing => ledger[x].operation # ledger[id].operation
    BY DEF ApprovalInv, StoreInv, Good
  <2> QED BY <2>1, <2>2, <2>3, <2>4 DEF ConsumedOnce
<1> QED BY <1>1, ApprovalInvariant, PTL

\* A running worker's approval is executing or unknown in ledger.json, and an
\* approval that succeeded has a worker that adopted the identity: finish()
\* and the catch of executeLocked() may come in either order, and a restart
\* in between turns what was executing into unknown.
THEOREM OutcomeIsHonestThm ==
  ApprovalSpec => []OutcomeIsHonest
<1>1. ApprovalInv => OutcomeIsHonest
  BY DEF ApprovalInv, StoreInv, Good, OutcomeIsHonest
<1> QED BY <1>1, ApprovalInvariant, PTL

\* No worker runs for a completed task: complete_task() and
\* executeLocked() take the same workspace lock, and the first one looks at
\* the approvals that are not resolved.
THEOREM CompletedTaskIsQuietThm ==
  ApprovalSpec => []CompletedTaskIsQuiet
<1>1. ApprovalInv => CompletedTaskIsQuiet
  BY DEF ApprovalInv, StoreInv, Good, CompletedTaskIsQuiet
<1> QED BY <1>1, ApprovalInvariant, PTL

-----------------------------------------------------------------------------
(* The host executor: its inductive invariant.                              *)

Counts == /\ got \in [Jobs -> Nat] /\ made \in [Jobs -> Nat]
          /\ written \in [Jobs -> Nat] /\ launches \in [Jobs -> Nat]

\* The companion's memory of jobs is lost when it ends.
AgentInv ==
  ~AgentRuns => \A j \in Jobs : runtime[j] = "none"

\* Nothing has been started for j, and no one but the companion's scan could.
Untouched(j) ==
  /\ launches[j] = 0 /\ child[j] = "none" /\ runtime[j] = "none"
  /\ file[j].result = "none" /\ ~file[j].state

Unclaimed(j) ==
  Untouched(j) /\ starting.job # j /\ ~file[j].claimed /\ ~file[j].marker

\* The request can be claimed only while nothing has come of it.
BeforeStart(j) ==
  /\ client[j] = "none" \/ file[j].request => Unclaimed(j)
  /\ starting.job = j /\ starting.step \in {"mark", "answer", "spawn"} => Untouched(j) /\ ~file[j].request
  /\ launches[j] <= 1

\* What the companion's record and the result file say of the command.
Outcome(j) ==
  /\ runtime[j] # "none" => file[j].result = "none"
  /\ runtime[j] \in {"closing", "closed"} => child[j] # "running"
  /\ runtime[j] = "closed" => written[j] = made[j]
  /\ file[j].result = "ended" => child[j] = "exited" /\ written[j] = made[j]
  /\ file[j].result = "failed" /\ child[j] = "running" => ~file[j].state /\ starting.job # j
  /\ starting.job = j /\ starting.step = "resolve" /\ child[j] = "running" => ~file[j].state

Told(j) ==
  /\ client[j] = "saw" /\ file[j].dir => file[j].result # "none"
  /\ client[j] = "ended" => child[j] = "exited" /\ got[j] = made[j]

JobInv(j) == BeforeStart(j) /\ Outcome(j) /\ Told(j)

HostInv == HostTypeOK /\ Counts /\ AgentInv /\ \A j \in Jobs : JobInv(j)

-----------------------------------------------------------------------------
\* The invariant is what the property says, and why.
LEMMA InvImplies == HostInv => HostRunsOnce
<1> SUFFICES ASSUME HostInv PROVE HostRunsOnce
  OBVIOUS
<1>1. ASSUME NEW j \in Jobs
      PROVE  /\ launches[j] <= 1
             /\ file[j].result # "none" =>
                  ~file[j].request /\ ~(starting.job = j /\ starting.step \in {"mark", "spawn"})
             /\ client[j] = "ended" => child[j] = "exited" /\ got[j] = made[j]
             /\ child[j] = "running" /\ file[j].state => file[j].result = "none"
  <2>1. JobInv(j) /\ file[j].result \in {"none", "ended", "failed"}
    BY DEF HostInv, HostTypeOK
  <2> QED BY <2>1 DEF JobInv, BeforeStart, Unclaimed, Untouched, Outcome, Told
<1> QED BY <1>1 DEF HostInv, HostRunsOnce, NeverReplayed, OutputComplete, EndedMeansEnded

LEMMA HostInitInv == HostInit => HostInv
  BY HostAssumption DEF HostInit, HostInv, HostTypeOK, Counts, AgentInv, AgentRuns, JobInv, BeforeStart,
     Unclaimed, Untouched, Outcome, Told, Idle, NoFiles

-----------------------------------------------------------------------------
(* What a step leaves alone.                                                *)

\* The command of k ends at most, the companion forgets k at most.
Spared(k) ==
  /\ file'[k] = file[k] /\ client'[k] = client[k] /\ got'[k] = got[k]
  /\ made'[k] = made[k] /\ written'[k] = written[k] /\ launches'[k] = launches[k]
  /\ child'[k] = child[k] \/ (child[k] = "running" /\ child'[k] = "exited")
  /\ runtime'[k] \in {runtime[k], "none"}
  /\ starting' = starting \/ starting'.job # k

LEMMA SparedKeeps ==
  ASSUME NEW k \in Jobs, JobInv(k), Spared(k)
  PROVE  JobInv(k)'
<1>1. BeforeStart(k)'
  BY DEF JobInv, Spared, BeforeStart, Unclaimed, Untouched
<1>2. Outcome(k)'
  BY DEF JobInv, Spared, Outcome
<1>3. Told(k)'
  BY DEF JobInv, Spared, Told
<1> QED BY <1>1, <1>2, <1>3 DEF JobInv

\* A step that changes nothing of the jobs but that.
LEMMA AllSpared ==
  ASSUME HostInv, HostTypeOK', Counts', AgentInv', \A k \in Jobs : Spared(k)
  PROVE  HostInv'
  BY SparedKeeps DEF HostInv

\* A step about the job j.
LEMMA OneJob ==
  ASSUME HostInv, HostTypeOK', Counts', AgentInv', NEW j \in Jobs, JobInv(j)',
         \A k \in Jobs \ {j} : Spared(k)
  PROVE  HostInv'
  BY SparedKeeps DEF HostInv

\* The scan has one job at a time.
LEMMA ScanOfOne ==
  ASSUME NEW j \in Jobs, NEW k \in Jobs \ {j}, NEW step, starting' = [job |-> j, step |-> step]
  PROVE  starting'.job # k
  OBVIOUS

LEMMA IdleIsNoJob == \A k \in Jobs : Idle.job # k
  BY HostAssumption DEF Idle
-----------------------------------------------------------------------------
(* The service and the client.                                              *)

\* What a job directory holds.
Files == [dir : BOOLEAN, request : BOOLEAN, claimed : BOOLEAN, marker : BOOLEAN,
          state : BOOLEAN, control : BOOLEAN, result : {"none", "ended", "failed"}]

LEMMA TypesOf ==
  ASSUME HostInv
  PROVE  /\ agent \in {"up", "stopping", "recovering", "down"}
         /\ starting \in [job : Jobs \cup {NoJob}, step : {"none", "mark", "answer", "spawn", "save", "resolve"}]
         /\ file \in [Jobs -> Files]
         /\ client \in [Jobs -> {"none", "polling", "saw", "ended", "failed", "left", "killed"}]
         /\ child \in [Jobs -> {"none", "running", "exited"}]
         /\ runtime \in [Jobs -> {"none", "opened", "polled", "closing", "closed"}]
         /\ got \in [Jobs -> Nat] /\ made \in [Jobs -> Nat]
         /\ written \in [Jobs -> Nat] /\ launches \in [Jobs -> Nat]
         /\ \A j \in Jobs : got[j] <= written[j] /\ written[j] <= made[j] /\ made[j] <= MaxChunks
  BY DEF HostInv, HostTypeOK, Counts, Files

LEMMA FilesFollow ==
  ASSUME HostInv, file' \in [Jobs -> Files], UNCHANGED <<agent, starting, childVars, runtime>>,
         client' \in [Jobs -> {"none", "polling", "saw", "ended", "failed", "left", "killed"}],
         got' \in [Jobs -> Nat], \A j \in Jobs : got'[j] \in {got[j], written[j]}
  PROVE  HostTypeOK' /\ Counts' /\ AgentInv'
<1>1. /\ agent' = agent /\ starting' = starting /\ runtime' = runtime /\ child' = child
      /\ made' = made /\ written' = written /\ launches' = launches
  BY DEF childVars
<1>2. \A j \in Jobs : got'[j] <= written'[j] /\ written'[j] <= made'[j] /\ made'[j] <= MaxChunks
  <2> SUFFICES ASSUME NEW j \in Jobs
               PROVE  got'[j] <= written'[j] /\ written'[j] <= made'[j] /\ made'[j] <= MaxChunks
    OBVIOUS
  <2>1. /\ got[j] \in Nat /\ written[j] \in Nat /\ made[j] \in Nat
        /\ got[j] <= written[j] /\ written[j] <= made[j] /\ made[j] <= MaxChunks
    BY TypesOf
  <2>2. got'[j] \in {got[j], written[j]}
    OBVIOUS
  <2> QED BY <1>1, <2>1, <2>2
<1>3. HostTypeOK'
  BY <1>1, <1>2, TypesOf DEF HostTypeOK, Files
<1>4. Counts'
  BY <1>1, TypesOf DEF Counts
<1>5. AgentInv'
  BY <1>1 DEF HostInv, AgentInv, AgentRuns
<1> QED BY <1>3, <1>4, <1>5

LEMMA CreateJobInv ==
  ASSUME HostInv, NEW j \in Jobs, CreateJob(j)
  PROVE  HostInv'
<1>1. JobInv(j) /\ file \in [Jobs -> Files] /\ client[j] = "none"
  BY TypesOf DEF HostInv, CreateJob
<1>2. /\ UNCHANGED <<agent, starting, client, got, child, made, written, launches, runtime, hostFaults>>
      /\ file' = [file EXCEPT ![j].dir = TRUE, ![j].request = TRUE]
  BY DEF CreateJob, clientVars, childVars
<1>3. /\ file' \in [Jobs -> Files]
      /\ file'[j] = [file[j] EXCEPT !.dir = TRUE, !.request = TRUE]
      /\ \A k \in Jobs \ {j} : file'[k] = file[k]
  BY <1>1, <1>2 DEF Files
<1>4. HostTypeOK' /\ Counts' /\ AgentInv'
  BY <1>2, <1>3, TypesOf, FilesFollow DEF childVars
<1>5. JobInv(j)'
  <2>1. /\ file'[j].result = file[j].result /\ file'[j].state = file[j].state
        /\ file'[j].claimed = file[j].claimed /\ file'[j].marker = file[j].marker
    BY <1>1, <1>3 DEF Files
  <2>2. Unclaimed(j)'
    BY <1>1, <1>2, <2>1 DEF JobInv, BeforeStart, Unclaimed, Untouched
  <2>3. BeforeStart(j)'
    BY <1>1, <1>2, <2>2 DEF JobInv, BeforeStart, Unclaimed, Untouched
  <2>4. Outcome(j)'
    BY <1>1, <1>2, <2>1 DEF JobInv, Outcome
  <2>5. Told(j)'
    BY <1>1, <1>2 DEF Told
  <2> QED BY <2>3, <2>4, <2>5 DEF JobInv
<1>6. \A k \in Jobs \ {j} : Spared(k)
  BY <1>2, <1>3 DEF Spared
<1> QED BY <1>4, <1>5, <1>6, OneJob

\* The steps of a client process, in the variables they change.
LEMMA ClientSteps ==
  ASSUME HostInv, NEW j \in Jobs,
         StartClient(j) \/ Drain(j) \/ SeeResult(j) \/ ExitWithResult(j) \/ LeaveTerminated(j) \/ KillClient(j)
  PROVE  /\ UNCHANGED <<agent, starting, file, child, made, written, launches, runtime, hostFaults>>
         /\ client' \in [Jobs -> {"none", "polling", "saw", "ended", "failed", "left", "killed"}]
         /\ got' \in [Jobs -> Nat] /\ got'[j] \in {got[j], written[j]}
         /\ \A k \in Jobs \ {j} : client'[k] = client[k] /\ got'[k] = got[k]
         /\ client'[j] # "none"
         /\ client'[j] = "saw" => file[j].result # "none"
         /\ client'[j] = "ended" => file[j].result = "ended" /\ got'[j] = written[j]
<1>1. /\ JobInv(j) /\ file[j].result \in {"none", "ended", "failed"}
      /\ client \in [Jobs -> {"none", "polling", "saw", "ended", "failed", "left", "killed"}]
      /\ got \in [Jobs -> Nat] /\ written \in [Jobs -> Nat]
  BY TypesOf DEF HostInv, Files
<1>2. CASE StartClient(j)
  BY <1>1, <1>2 DEF StartClient, childVars
<1>3. CASE Drain(j)
  BY <1>1, <1>3 DEF Drain, childVars
<1>4. CASE SeeResult(j)
  BY <1>1, <1>4 DEF SeeResult, childVars
<1>5. CASE ExitWithResult(j)
  <2>1. file[j].result # "none"
    BY <1>1, <1>5 DEF ExitWithResult, JobInv, Told
  <2> QED BY <1>1, <1>5, <2>1 DEF ExitWithResult, LastDrain, childVars
<1>6. CASE LeaveTerminated(j)
  BY <1>1, <1>6 DEF LeaveTerminated, childVars
<1>7. CASE KillClient(j)
  BY <1>1, <1>7 DEF KillClient, childVars
<1> QED BY <1>2, <1>3, <1>4, <1>5, <1>6, <1>7

LEMMA ClientInv ==
  ASSUME HostInv, NEW j \in Jobs,
         StartClient(j) \/ Drain(j) \/ SeeResult(j) \/ ExitWithResult(j) \/ LeaveTerminated(j) \/ KillClient(j)
  PROVE  HostInv'
<1>1. /\ UNCHANGED <<agent, starting, file, child, made, written, launches, runtime, hostFaults>>
      /\ client' \in [Jobs -> {"none", "polling", "saw", "ended", "failed", "left", "killed"}]
      /\ got' \in [Jobs -> Nat] /\ got'[j] \in {got[j], written[j]}
      /\ \A k \in Jobs \ {j} : client'[k] = client[k] /\ got'[k] = got[k]
      /\ client'[j] # "none"
      /\ client'[j] = "saw" => file[j].result # "none"
      /\ client'[j] = "ended" => file[j].result = "ended" /\ got'[j] = written[j]
  BY ClientSteps
<1>2. JobInv(j)
  BY DEF HostInv
<1>3. HostTypeOK' /\ Counts' /\ AgentInv'
  BY <1>1, TypesOf, FilesFollow DEF childVars
<1>4. JobInv(j)'
  BY <1>1, <1>2 DEF JobInv, BeforeStart, Unclaimed, Untouched, Outcome, Told
<1>5. \A k \in Jobs \ {j} : Spared(k)
  BY <1>1 DEF Spared
<1> QED BY <1>3, <1>4, <1>5, OneJob

LEMMA RequestTerminationInv ==
  ASSUME HostInv, NEW j \in Jobs, RequestTermination(j)
  PROVE  HostInv'
<1>1. JobInv(j) /\ file \in [Jobs -> Files]
  BY TypesOf DEF HostInv
<1>2. /\ UNCHANGED <<agent, starting, client, got, child, made, written, launches, runtime, hostFaults>>
      /\ file' = [file EXCEPT ![j].control = TRUE]
  BY DEF RequestTermination, clientVars, childVars
<1>3. /\ file' \in [Jobs -> Files] /\ \A k \in Jobs \ {j} : file'[k] = file[k]
      /\ file'[j].result = file[j].result /\ file'[j].state = file[j].state
      /\ file'[j].claimed = file[j].claimed /\ file'[j].marker = file[j].marker
      /\ file'[j].dir = file[j].dir /\ file'[j].request = file[j].request
  BY <1>1, <1>2 DEF Files
<1>4. HostTypeOK' /\ Counts' /\ AgentInv'
  BY <1>2, <1>3, TypesOf, FilesFollow DEF childVars
<1>5. JobInv(j)'
  BY <1>1, <1>2, <1>3 DEF JobInv, BeforeStart, Unclaimed, Untouched, Outcome, Told
<1>6. \A k \in Jobs \ {j} : Spared(k)
  BY <1>2, <1>3 DEF Spared
<1> QED BY <1>4, <1>5, <1>6, OneJob

LEMMA CleanUpInv ==
  ASSUME HostInv, NEW j \in Jobs, CleanUp(j)
  PROVE  HostInv'
<1>1. /\ JobInv(j) /\ file \in [Jobs -> Files] /\ NoFiles \in Files
      /\ client[j] \in {"ended", "failed", "left", "killed"}
  BY TypesOf DEF HostInv, CleanUp, NoFiles, Files
<1>2. /\ UNCHANGED <<agent, starting, client, got, child, made, written, launches, runtime, hostFaults>>
      /\ file' = [file EXCEPT ![j] = NoFiles]
  BY DEF CleanUp, clientVars, childVars
<1>3. /\ file' \in [Jobs -> Files] /\ \A k \in Jobs \ {j} : file'[k] = file[k]
      /\ file'[j].result = "none" /\ ~file'[j].state /\ ~file'[j].request
  BY <1>1, <1>2 DEF NoFiles
<1>4. HostTypeOK' /\ Counts' /\ AgentInv'
  BY <1>2, <1>3, TypesOf, FilesFollow DEF childVars
<1>5. JobInv(j)'
  BY <1>1, <1>2, <1>3 DEF JobInv, BeforeStart, Unclaimed, Untouched, Outcome, Told
<1>6. \A k \in Jobs \ {j} : Spared(k)
  BY <1>2, <1>3 DEF Spared
<1> QED BY <1>4, <1>5, <1>6, OneJob

-----------------------------------------------------------------------------
(* The companion's scan.                                                    *)

\* The numbers and the clients are left alone.
LEMMA ScanFollows ==
  ASSUME HostInv, file' \in [Jobs -> Files],
         agent' \in {"up", "stopping", "recovering", "down"},
         starting' \in [job : Jobs \cup {NoJob}, step : {"none", "mark", "answer", "spawn", "save", "resolve"}],
         child' \in [Jobs -> {"none", "running", "exited"}],
         runtime' \in [Jobs -> {"none", "opened", "polled", "closing", "closed"}],
         UNCHANGED <<client, got, made, written>>, launches' \in [Jobs -> Nat]
  PROVE  HostTypeOK' /\ Counts'
  BY TypesOf DEF HostTypeOK, Counts, Files

LEMMA ClaimInv ==
  ASSUME HostInv, NEW j \in Jobs, Claim(j)
  PROVE  HostInv'
<1>1. JobInv(j) /\ file \in [Jobs -> Files] /\ file[j].request /\ Fresh(j) /\ agent = "up"
      /\ starting = Idle
  BY TypesOf DEF HostInv, Claim
<1>2. /\ UNCHANGED <<agent, client, got, child, made, written, launches, runtime, hostFaults>>
      /\ file' = [file EXCEPT ![j].request = FALSE, ![j].claimed = TRUE]
      /\ starting' = [job |-> j, step |-> "mark"]
  BY DEF Claim, clientVars, childVars
<1>3. /\ file' \in [Jobs -> Files] /\ \A k \in Jobs \ {j} : file'[k] = file[k]
      /\ file'[j].result = file[j].result /\ file'[j].state = file[j].state
      /\ ~file'[j].request /\ file'[j].dir = file[j].dir
  BY <1>1, <1>2 DEF Files
<1>4. HostTypeOK' /\ Counts' /\ AgentInv'
  BY <1>1, <1>2, <1>3, TypesOf, ScanFollows DEF AgentInv, AgentRuns
<1>5. JobInv(j)'
  <2>1. client[j] # "none" /\ Untouched(j)
    BY <1>1 DEF Fresh, JobInv, BeforeStart, Unclaimed
  <2> QED BY <1>1, <1>2, <1>3, <2>1 DEF JobInv, BeforeStart, Untouched, Outcome, Told
<1>6. \A k \in Jobs \ {j} : Spared(k)
  BY <1>2, <1>3 DEF Spared
<1> QED BY <1>4, <1>5, <1>6, OneJob

LEMMA RejectInv ==
  ASSUME HostInv, NEW j \in Jobs, Reject(j)
  PROVE  HostInv'
<1>1. JobInv(j) /\ file \in [Jobs -> Files] /\ AgentRuns /\ starting = [job |-> j, step |-> "mark"]
  BY TypesOf DEF HostInv, Reject, At
<1>2. /\ UNCHANGED <<agent, client, got, child, made, written, launches, runtime, hostFaults>>
      /\ file' = [file EXCEPT ![j].claimed = FALSE]
      /\ starting' = [job |-> j, step |-> "answer"]
  BY <1>1 DEF Reject, clientVars, childVars
<1>3. /\ file' \in [Jobs -> Files] /\ \A k \in Jobs \ {j} : file'[k] = file[k]
      /\ file'[j].result = file[j].result /\ file'[j].state = file[j].state
      /\ file'[j].request = file[j].request
  BY <1>1, <1>2 DEF Files
<1>4. HostTypeOK' /\ Counts' /\ AgentInv'
  BY <1>1, <1>2, <1>3, TypesOf, ScanFollows DEF AgentInv, AgentRuns
<1>5. JobInv(j)'
  <2>1. client[j] # "none" /\ Untouched(j) /\ ~file[j].request
    BY <1>1 DEF JobInv, BeforeStart, Unclaimed
  <2> QED BY <1>1, <1>2, <1>3, <2>1 DEF JobInv, BeforeStart, Untouched, Outcome, Told
<1>6. \A k \in Jobs \ {j} : Spared(k)
  BY <1>1, <1>2, <1>3 DEF Spared
<1> QED BY <1>4, <1>5, <1>6, OneJob

LEMMA WriteRejectionInv ==
  ASSUME HostInv, NEW j \in Jobs, WriteRejection(j)
  PROVE  HostInv'
<1>1. JobInv(j) /\ file \in [Jobs -> Files] /\ AgentRuns /\ starting = [job |-> j, step |-> "answer"]
  BY TypesOf DEF HostInv, WriteRejection, At
<1>2. /\ UNCHANGED <<agent, client, got, child, made, written, launches, runtime, hostFaults>>
      /\ file' = [file EXCEPT ![j].result = "failed"]
      /\ starting' = Idle
  BY DEF WriteRejection, clientVars, childVars
<1>3. /\ file' \in [Jobs -> Files] /\ \A k \in Jobs \ {j} : file'[k] = file[k]
      /\ file'[j].result = "failed" /\ file'[j].request = file[j].request
  BY <1>1, <1>2 DEF Files
<1>4. HostTypeOK' /\ Counts' /\ AgentInv'
  BY <1>1, <1>2, <1>3, TypesOf, ScanFollows DEF AgentInv, AgentRuns, Idle
<1>5. JobInv(j)'
  <2>1. client[j] # "none" /\ Untouched(j) /\ ~file[j].request
    BY <1>1 DEF JobInv, BeforeStart, Unclaimed
  <2> QED BY <1>1, <1>2, <1>3, <2>1, IdleIsNoJob DEF JobInv, BeforeStart, Untouched, Outcome, Told
<1>6. \A k \in Jobs \ {j} : Spared(k)
  BY <1>2, <1>3, IdleIsNoJob DEF Spared
<1> QED BY <1>4, <1>5, <1>6, OneJob

LEMMA MarkInv ==
  ASSUME HostInv, NEW j \in Jobs, Mark(j)
  PROVE  HostInv'
<1>1. JobInv(j) /\ file \in [Jobs -> Files] /\ AgentRuns /\ starting = [job |-> j, step |-> "mark"]
  BY TypesOf DEF HostInv, Mark, At
<1>2. /\ UNCHANGED <<agent, client, got, child, made, written, launches, runtime, hostFaults>>
      /\ file' = [file EXCEPT ![j].marker = TRUE]
      /\ starting' = [job |-> j, step |-> "spawn"]
  BY <1>1 DEF Mark, clientVars, childVars
<1>3. /\ file' \in [Jobs -> Files] /\ \A k \in Jobs \ {j} : file'[k] = file[k]
      /\ file'[j].result = file[j].result /\ file'[j].state = file[j].state
      /\ file'[j].request = file[j].request
  BY <1>1, <1>2 DEF Files
<1>4. HostTypeOK' /\ Counts' /\ AgentInv'
  BY <1>1, <1>2, <1>3, TypesOf, ScanFollows DEF AgentInv, AgentRuns
<1>5. JobInv(j)'
  <2>1. client[j] # "none" /\ Untouched(j) /\ ~file[j].request
    BY <1>1 DEF JobInv, BeforeStart, Unclaimed
  <2> QED BY <1>1, <1>2, <1>3, <2>1 DEF JobInv, BeforeStart, Untouched, Outcome, Told
<1>6. \A k \in Jobs \ {j} : Spared(k)
  BY <1>1, <1>2, <1>3 DEF Spared
<1> QED BY <1>4, <1>5, <1>6, OneJob

LEMMA SpawnCommandInv ==
  ASSUME HostInv, NEW j \in Jobs, SpawnCommand(j)
  PROVE  HostInv'
<1>1. JobInv(j) /\ file \in [Jobs -> Files] /\ AgentRuns /\ starting = [job |-> j, step |-> "spawn"]
  BY TypesOf DEF HostInv, SpawnCommand, At
<1>2. /\ UNCHANGED <<agent, client, got, made, written, hostFaults>>
      /\ file' = [file EXCEPT ![j].claimed = FALSE]
      /\ starting' = [job |-> j, step |-> "save"]
  BY <1>1 DEF SpawnCommand, clientVars
<1>3. /\ file' \in [Jobs -> Files] /\ \A k \in Jobs \ {j} : file'[k] = file[k]
      /\ file'[j].result = file[j].result /\ file'[j].state = file[j].state
      /\ file'[j].request = file[j].request
  BY <1>1, <1>2 DEF Files
<1>4. client[j] # "none" /\ Untouched(j) /\ ~file[j].request
  BY <1>1 DEF JobInv, BeforeStart, Unclaimed
<1>5. /\ child' \in [Jobs -> {"none", "running", "exited"}] /\ launches' \in [Jobs -> Nat]
      /\ runtime' \in [Jobs -> {"none", "opened", "polled", "closing", "closed"}]
      /\ launches'[j] \in {0, 1}
      /\ \/ child'[j] = "running" /\ runtime'[j] = "opened"
         \/ child'[j] = "none" /\ runtime'[j] = "closing"
      /\ \A k \in Jobs \ {j} : child'[k] = child[k] /\ runtime'[k] = runtime[k] /\ launches'[k] = launches[k]
  BY <1>4, TypesOf DEF SpawnCommand, Untouched
<1>6. HostTypeOK' /\ Counts' /\ AgentInv'
  BY <1>1, <1>2, <1>3, <1>5, TypesOf, ScanFollows DEF AgentInv, AgentRuns
<1>7. JobInv(j)'
  BY <1>1, <1>2, <1>3, <1>4, <1>5 DEF JobInv, BeforeStart, Untouched, Outcome, Told
<1>8. \A k \in Jobs \ {j} : Spared(k)
  BY <1>1, <1>2, <1>3, <1>5 DEF Spared
<1> QED BY <1>6, <1>7, <1>8, OneJob

LEMMA SpawnWithoutFilesInv ==
  ASSUME HostInv, NEW j \in Jobs, SpawnWithoutFiles(j)
  PROVE  HostInv'
<1>1. JobInv(j) /\ file \in [Jobs -> Files] /\ AgentRuns /\ starting = [job |-> j, step |-> "spawn"]
  BY TypesOf DEF HostInv, SpawnWithoutFiles, At
<1>2. /\ UNCHANGED <<file, client, got, made, written, hostFaults>>
      /\ agent' = "down" /\ starting' = Idle /\ runtime' = [k \in Jobs |-> "none"]
      /\ child' = [child EXCEPT ![j] = "running"] /\ launches' = [launches EXCEPT ![j] = @ + 1]
  BY DEF SpawnWithoutFiles, clientVars, Gone
<1>3. client[j] # "none" /\ Untouched(j) /\ ~file[j].request
  BY <1>1 DEF JobInv, BeforeStart, Unclaimed
<1>4. /\ child' \in [Jobs -> {"none", "running", "exited"}] /\ launches' \in [Jobs -> Nat]
      /\ launches'[j] = 1 /\ child'[j] = "running"
      /\ \A k \in Jobs \ {j} : child'[k] = child[k] /\ launches'[k] = launches[k]
  BY <1>2, <1>3, TypesOf DEF Untouched
<1>5. HostTypeOK' /\ Counts' /\ AgentInv'
  BY <1>1, <1>2, <1>4, TypesOf, ScanFollows DEF AgentInv, AgentRuns, Idle
<1>6. JobInv(j)'
  BY <1>1, <1>2, <1>3, <1>4, IdleIsNoJob DEF JobInv, BeforeStart, Untouched, Outcome, Told
<1>7. \A k \in Jobs \ {j} : Spared(k)
  BY <1>2, <1>4, IdleIsNoJob DEF Spared
<1> QED BY <1>5, <1>6, <1>7, OneJob

LEMMA SaveStateInv ==
  ASSUME HostInv, NEW j \in Jobs, SaveState(j)
  PROVE  HostInv'
<1>1. JobInv(j) /\ file \in [Jobs -> Files] /\ AgentRuns /\ starting = [job |-> j, step |-> "save"]
  BY TypesOf DEF HostInv, SaveState, At
<1>2. /\ UNCHANGED <<agent, client, got, child, made, written, launches, hostFaults>>
      /\ file' = [file EXCEPT ![j].state = child[j] # "none"]
      /\ runtime' = [runtime EXCEPT ![j] = IF @ = "opened" THEN "polled" ELSE @]
      /\ starting' = Idle
  BY DEF SaveState, clientVars, childVars
<1>3. /\ file' \in [Jobs -> Files] /\ \A k \in Jobs \ {j} : file'[k] = file[k]
      /\ file'[j].result = file[j].result /\ file'[j].request = file[j].request
      /\ file'[j].dir = file[j].dir
  BY <1>1, <1>2 DEF Files
<1>4. /\ runtime' \in [Jobs -> {"none", "opened", "polled", "closing", "closed"}]
      /\ \A k \in Jobs \ {j} : runtime'[k] = runtime[k]
      /\ runtime'[j] = runtime[j] \/ (runtime[j] = "opened" /\ runtime'[j] = "polled")
  BY <1>2, TypesOf
<1>5. HostTypeOK' /\ Counts' /\ AgentInv'
  BY <1>1, <1>2, <1>3, <1>4, TypesOf, ScanFollows DEF AgentInv, AgentRuns, Idle
<1>6. client[j] # "none" /\ ~file[j].request
  BY <1>1 DEF JobInv, BeforeStart, Unclaimed
<1>7. JobInv(j)'
  BY <1>1, <1>2, <1>3, <1>4, <1>6, IdleIsNoJob, TypesOf DEF JobInv, BeforeStart, Outcome, Told
<1>8. \A k \in Jobs \ {j} : Spared(k)
  BY <1>1, <1>2, <1>3, <1>4, IdleIsNoJob DEF Spared
<1> QED BY <1>5, <1>7, <1>8, OneJob

-----------------------------------------------------------------------------
(* Steps that spare every job: commands end, the companion ends.            *)

LEMMA KillingSpares ==
  ASSUME HostInv
  PROVE  /\ Killed \in [Jobs -> {"none", "running", "exited"}]
         /\ \A k \in Jobs : Killed[k] = child[k] \/ (child[k] = "running" /\ Killed[k] = "exited")
  BY TypesOf DEF Killed

LEMMA QueueWriteFailsInv ==
  ASSUME HostInv, NEW j \in Jobs, QueueWriteFails(j)
  PROVE  HostInv'
<1>1. /\ UNCHANGED <<file, client, got, made, written, launches, runtime>>
      /\ starting' = Idle /\ agent' = "stopping" /\ child' \in {Killed, child}
  BY DEF QueueWriteFails, clientVars
<1>2. child' \in [Jobs -> {"none", "running", "exited"}]
  BY <1>1, KillingSpares, TypesOf
<1>3. HostTypeOK' /\ Counts' /\ AgentInv'
  BY <1>1, <1>2, TypesOf, ScanFollows DEF AgentInv, AgentRuns, Idle
<1>4. \A k \in Jobs : Spared(k)
  BY <1>1, KillingSpares, IdleIsNoJob DEF Spared
<1> QED BY <1>3, <1>4, AllSpared

LEMMA StopInv ==
  ASSUME HostInv, Stop
  PROVE  HostInv'
<1>1. /\ UNCHANGED <<starting, file, client, got, made, written, launches, runtime>>
      /\ agent' = "stopping" /\ child' = Killed
  BY DEF Stop, clientVars
<1>2. HostTypeOK' /\ Counts' /\ AgentInv'
  BY <1>1, KillingSpares, TypesOf, ScanFollows DEF AgentInv, AgentRuns
<1>3. \A k \in Jobs : Spared(k)
  BY <1>1, KillingSpares DEF Spared
<1> QED BY <1>2, <1>3, AllSpared

LEMMA CommandEndsInv ==
  ASSUME HostInv, NEW j \in Jobs, Poll(j) \/ ChildExits(j)
  PROVE  HostInv'
<1>1. /\ UNCHANGED <<agent, starting, file, client, got, made, written, launches, runtime, hostFaults>>
      /\ child[j] = "running" /\ child' = [child EXCEPT ![j] = "exited"]
  BY DEF Poll, ChildExits, clientVars
<1>2. /\ child' \in [Jobs -> {"none", "running", "exited"}]
      /\ \A k \in Jobs : child'[k] = child[k] \/ (child[k] = "running" /\ child'[k] = "exited")
  BY <1>1, TypesOf
<1>3. HostTypeOK' /\ Counts' /\ AgentInv'
  BY <1>1, <1>2, TypesOf, ScanFollows DEF HostInv, AgentInv, AgentRuns
<1>4. \A k \in Jobs : Spared(k)
  BY <1>1, <1>2 DEF Spared
<1> QED BY <1>3, <1>4, AllSpared

LEMMA CompanionEndsInv ==
  ASSUME HostInv, \/ Exit \/ Die \/ StartAgent \/ Ready
                  \/ \E j \in Jobs : RefuseStart(j) \/ ResultWriteFails(j) \/ RecoveryWriteFails(j)
  PROVE  HostInv'
<1>1. /\ UNCHANGED <<file, client, got, child, made, written, launches>>
      /\ \/ starting' = Idle /\ runtime' = [k \in Jobs |-> "none"] /\ agent' = "down"
         \/ starting' = starting /\ runtime' = runtime /\ ~AgentRuns
            /\ agent' \in {"up", "recovering", "down"}
  BY DEF Exit, Die, StartAgent, Ready, RefuseStart, ResultWriteFails, RecoveryWriteFails, Gone, AgentRuns, clientVars, childVars
<1>2. /\ starting' \in [job : Jobs \cup {NoJob}, step : {"none", "mark", "answer", "spawn", "save", "resolve"}]
      /\ runtime' \in [Jobs -> {"none", "opened", "polled", "closing", "closed"}]
      /\ \A k \in Jobs : runtime'[k] \in {runtime[k], "none"}
      /\ \A k \in Jobs : starting' = starting \/ starting'.job # k
  BY <1>1, TypesOf, IdleIsNoJob DEF Idle
<1>3. HostTypeOK' /\ Counts' /\ AgentInv'
  BY <1>1, <1>2, TypesOf, ScanFollows DEF HostInv, AgentInv
<1>4. \A k \in Jobs : Spared(k)
  BY <1>1, <1>2 DEF Spared
<1> QED BY <1>3, <1>4, AllSpared

-----------------------------------------------------------------------------
(* The command's output and its result.                                     *)

LEMMA ProduceInv ==
  ASSUME HostInv, NEW j \in Jobs, Produce(j)
  PROVE  HostInv'
<1>1. /\ UNCHANGED <<agent, starting, file, client, got, child, written, launches, runtime, hostFaults>>
      /\ child[j] = "running" /\ made[j] < MaxChunks /\ made' = [made EXCEPT ![j] = @ + 1]
  BY DEF Produce, clientVars
<1>2. JobInv(j) /\ made \in [Jobs -> Nat] /\ made' \in [Jobs -> Nat] /\ made'[j] = made[j] + 1
      /\ \A k \in Jobs \ {j} : made'[k] = made[k]
  BY <1>1, TypesOf DEF HostInv
<1>3. \A k \in Jobs : got'[k] <= written'[k] /\ written'[k] <= made'[k] /\ made'[k] <= MaxChunks
  BY <1>1, <1>2, TypesOf, HostAssumption
<1>4. HostTypeOK' /\ Counts' /\ AgentInv'
  BY <1>1, <1>2, <1>3 DEF HostInv, HostTypeOK, Counts, AgentInv, AgentRuns
<1>5. JobInv(j)'
  BY <1>1, <1>2 DEF JobInv, BeforeStart, Unclaimed, Untouched, Outcome, Told
<1>6. \A k \in Jobs \ {j} : Spared(k)
  BY <1>1, <1>2 DEF Spared
<1> QED BY <1>4, <1>5, <1>6, OneJob

\* The companion's events, in the variables they change.
LEMMA StreamInv ==
  ASSUME HostInv, NEW j \in Jobs, Pump(j) \/ CloseEvent(j) \/ CloseStreams(j)
  PROVE  HostInv'
<1>1. /\ UNCHANGED <<agent, starting, file, client, got, child, made, launches, hostFaults>>
      /\ AgentRuns /\ JobInv(j)
      /\ \A k \in Jobs : /\ got[k] \in Nat /\ made[k] \in Nat /\ written[k] \in Nat
                         /\ got[k] <= written[k] /\ written[k] <= made[k]
  BY TypesOf DEF HostInv, Pump, CloseEvent, CloseStreams, clientVars, childVars
<1>2. /\ written' \in [Jobs -> Nat] /\ written[j] <= written'[j] /\ written'[j] <= made[j]
      /\ runtime' \in [Jobs -> {"none", "opened", "polled", "closing", "closed"}]
      /\ runtime[j] # "none"
      /\ runtime'[j] \in {"closing", "closed"} => child[j] # "running"
      /\ runtime'[j] = "closed" => written'[j] = made[j]
      /\ \A k \in Jobs \ {j} : written'[k] = written[k] /\ runtime'[k] = runtime[k]
  <2>1. CASE Pump(j)
    BY <1>1, <2>1, TypesOf DEF Pump, InJobs
  <2>2. CASE CloseEvent(j)
    BY <1>1, <2>2, TypesOf DEF CloseEvent, InJobs, childVars
  <2>3. CASE CloseStreams(j)
    BY <1>1, <2>3, TypesOf DEF CloseStreams, JobInv, Outcome
  <2> QED BY <2>1, <2>2, <2>3
<1>3. \A k \in Jobs : got[k] <= written'[k] /\ written'[k] <= made[k]
  BY <1>1, <1>2
<1>4. HostTypeOK' /\ Counts' /\ AgentInv'
  BY <1>1, <1>2, <1>3 DEF HostInv, HostTypeOK, Counts, AgentInv, AgentRuns
<1>5. file[j].result = "none"
  BY <1>1, <1>2 DEF JobInv, Outcome
<1>6. JobInv(j)'
  BY <1>1, <1>2, <1>5 DEF JobInv, BeforeStart, Unclaimed, Untouched, Outcome, Told
<1>7. \A k \in Jobs \ {j} : Spared(k)
  BY <1>1, <1>2 DEF Spared
<1> QED BY <1>4, <1>6, <1>7, OneJob

LEMMA WriteResultInv ==
  ASSUME HostInv, NEW j \in Jobs, WriteResult(j)
  PROVE  HostInv'
<1>1. /\ JobInv(j) /\ file \in [Jobs -> Files] /\ AgentRuns /\ runtime[j] = "closed"
      /\ child[j] \in {"none", "exited"} /\ written[j] = made[j]
  BY TypesOf DEF HostInv, WriteResult, JobInv, Outcome
<1>2. /\ UNCHANGED <<agent, starting, client, got, child, made, written, launches, hostFaults>>
      /\ file' = [file EXCEPT ![j].result = IF child[j] = "none" THEN "failed" ELSE "ended"]
      /\ runtime' = [runtime EXCEPT ![j] = "none"]
  BY DEF WriteResult, clientVars, childVars
<1>3. /\ file' \in [Jobs -> Files] /\ \A k \in Jobs \ {j} : file'[k] = file[k]
      /\ file'[j].result = (IF child[j] = "none" THEN "failed" ELSE "ended")
      /\ file'[j].request = file[j].request /\ file'[j].state = file[j].state
  BY <1>1, <1>2 DEF Files
<1>4. /\ runtime' \in [Jobs -> {"none", "opened", "polled", "closing", "closed"}]
      /\ runtime'[j] = "none" /\ \A k \in Jobs \ {j} : runtime'[k] = runtime[k]
  BY <1>2, TypesOf
<1>5. HostTypeOK' /\ Counts' /\ AgentInv'
  BY <1>1, <1>2, <1>3, <1>4, TypesOf, ScanFollows DEF AgentInv, AgentRuns
<1>6. /\ client[j] # "none" /\ ~file[j].request
      /\ ~(starting.job = j /\ starting.step \in {"mark", "answer", "spawn"})
  BY <1>1 DEF JobInv, BeforeStart, Unclaimed, Untouched
<1>7. JobInv(j)'
  BY <1>1, <1>2, <1>3, <1>4, <1>6 DEF JobInv, BeforeStart, Outcome, Told
<1>8. \A k \in Jobs \ {j} : Spared(k)
  BY <1>2, <1>3, <1>4 DEF Spared
<1> QED BY <1>5, <1>7, <1>8, OneJob

LEMMA RecoverJobInv ==
  ASSUME HostInv, NEW j \in Jobs, RecoverJob(j)
  PROVE  HostInv'
<1>1. /\ JobInv(j) /\ file \in [Jobs -> Files] /\ agent = "recovering" /\ starting = Idle
      /\ file[j].claimed \/ file[j].marker
      /\ file[j].result = "none" /\ ~(file[j].state /\ child[j] = "running")
  BY TypesOf DEF HostInv, RecoverJob, ClaimedUnresolved, LiveSavedPid
<1>2. runtime[j] = "none" /\ ~AgentRuns
  BY <1>1 DEF HostInv, AgentInv, AgentRuns
<1>3. /\ UNCHANGED <<agent, client, got, child, made, written, launches, runtime, hostFaults>>
      /\ file' = [file EXCEPT ![j].claimed = FALSE]
      /\ starting' = [job |-> j, step |-> "resolve"]
  BY DEF RecoverJob, clientVars, childVars
<1>4. /\ file' \in [Jobs -> Files] /\ \A k \in Jobs \ {j} : file'[k] = file[k]
      /\ file'[j].result = "none" /\ file'[j].request = file[j].request
      /\ file'[j].state = file[j].state
  BY <1>1, <1>3 DEF Files
<1>5. HostTypeOK' /\ Counts' /\ AgentInv'
  BY <1>3, <1>4, TypesOf, ScanFollows DEF HostInv, AgentInv, AgentRuns
<1>6. client[j] # "none" /\ ~file[j].request
  BY <1>1 DEF JobInv, BeforeStart, Unclaimed
<1>7. JobInv(j)'
  BY <1>1, <1>2, <1>3, <1>4, <1>6, IdleIsNoJob DEF JobInv, BeforeStart, Outcome, Told
<1>8. \A k \in Jobs \ {j} : Spared(k)
  BY <1>3, <1>4 DEF Spared
<1> QED BY <1>5, <1>7, <1>8, OneJob

LEMMA WriteRecoveryInv ==
  ASSUME HostInv, NEW j \in Jobs, WriteRecovery(j)
  PROVE  HostInv'
<1>1. /\ JobInv(j) /\ file \in [Jobs -> Files] /\ agent = "recovering"
      /\ starting = [job |-> j, step |-> "resolve"]
  BY TypesOf DEF HostInv, WriteRecovery, Resolving
<1>2. runtime[j] = "none" /\ ~AgentRuns
  BY <1>1 DEF HostInv, AgentInv, AgentRuns
<1>3. /\ UNCHANGED <<agent, client, got, child, made, written, launches, runtime, hostFaults>>
      /\ file' = [file EXCEPT ![j].result = "failed"]
      /\ starting' = Idle
  BY DEF WriteRecovery, clientVars, childVars
<1>4. /\ file' \in [Jobs -> Files] /\ \A k \in Jobs \ {j} : file'[k] = file[k]
      /\ file'[j].result = "failed" /\ file'[j].request = file[j].request
      /\ file'[j].state = file[j].state
  BY <1>1, <1>3 DEF Files
<1>5. HostTypeOK' /\ Counts' /\ AgentInv'
  BY <1>3, <1>4, TypesOf, ScanFollows DEF HostInv, AgentInv, AgentRuns, Idle
<1>6. client[j] # "none" /\ ~file[j].request
  BY <1>1 DEF JobInv, BeforeStart, Unclaimed
<1>7. JobInv(j)'
  BY <1>1, <1>2, <1>3, <1>4, <1>6, IdleIsNoJob DEF JobInv, BeforeStart, Outcome, Told
<1>8. \A k \in Jobs \ {j} : Spared(k)
  BY <1>3, <1>4, IdleIsNoJob DEF Spared
<1> QED BY <1>5, <1>7, <1>8, OneJob

-----------------------------------------------------------------------------
(* The theorem.                                                             *)

LEMMA HostStepInv ==
  ASSUME HostInv, [HostNext]_hostVars
  PROVE  HostInv'
<1>1. CASE UNCHANGED hostVars
  BY <1>1, AllSpared DEF hostVars, HostInv, HostTypeOK, Counts, AgentInv, AgentRuns, Spared
<1>2. ASSUME NEW j \in Jobs,
             \/ CreateJob(j) \/ StartClient(j) \/ Drain(j) \/ SeeResult(j) \/ ExitWithResult(j)
             \/ RequestTermination(j) \/ LeaveTerminated(j) \/ KillClient(j) \/ CleanUp(j)
      PROVE  HostInv'
  BY <1>2, CreateJobInv, ClientInv, RequestTerminationInv, CleanUpInv
<1>3. ASSUME NEW j \in Jobs,
             \/ Claim(j) \/ Reject(j) \/ WriteRejection(j) \/ Mark(j) \/ SpawnCommand(j) \/ SpawnWithoutFiles(j)
             \/ SaveState(j) \/ QueueWriteFails(j)
      PROVE  HostInv'
  BY <1>3, ClaimInv, RejectInv, WriteRejectionInv, MarkInv, SpawnCommandInv, SpawnWithoutFilesInv, SaveStateInv, QueueWriteFailsInv
<1>4. ASSUME NEW j \in Jobs,
             \/ Poll(j) \/ Produce(j) \/ ChildExits(j) \/ Pump(j)
             \/ CloseEvent(j) \/ CloseStreams(j) \/ WriteResult(j) \/ ResultWriteFails(j)
             \/ RecoverJob(j) \/ WriteRecovery(j) \/ RecoveryWriteFails(j) \/ RefuseStart(j)
      PROVE  HostInv'
  BY <1>4, CommandEndsInv, ProduceInv, StreamInv, WriteResultInv, CompanionEndsInv, RecoverJobInv, WriteRecoveryInv
<1>5. CASE Stop \/ Exit \/ Die \/ StartAgent \/ Ready
  BY <1>5, StopInv, CompanionEndsInv
<1> QED BY <1>1, <1>2, <1>3, <1>4, <1>5 DEF HostNext

\* A host command is spawned at most once and never after its job has a result; a
\* client that leaves with the command's result has relayed all of its output; and a
\* job whose pid was saved has no result while its command runs (startJob(),
\* finalize(), recoverClaimedJobs(), and the client's last drain()).
THEOREM HostRunsOnceThm == HostSpec => []HostRunsOnce
<1> QED BY HostInitInv, HostStepInv, InvImplies, PTL DEF HostSpec

-----------------------------------------------------------------------------
(* The companion is at each job that it marked, or the job is answered.     *)

\* The next step of startJob() is before the spawn, or the record of the job exists.
Attended(j) ==
  \/ starting.job = j /\ starting.step \in {"mark", "answer", "spawn"}
  \/ runtime[j] # "none"
  \/ file[j].result # "none"

MarkedInv == agent = "up" => \A j \in Jobs : file[j].marker => Attended(j)

\* A step that goes on with what it is at, or answers it, and marks nothing.
LEMMA AttendedKeeps ==
  ASSUME MarkedInv, agent' = "up" => agent = "up",
         \A j \in Jobs : file'[j].marker => file[j].marker /\ (Attended(j) => Attended(j)')
  PROVE  MarkedInv'
  BY DEF MarkedInv

\* The service and the client: they answer nothing, and mark nothing.
LEMMA ClientsMarkNothing ==
  ASSUME HostInv, MarkedInv, NEW j \in Jobs,
         \/ CreateJob(j) \/ StartClient(j) \/ Drain(j) \/ SeeResult(j) \/ ExitWithResult(j)
         \/ RequestTermination(j) \/ LeaveTerminated(j) \/ KillClient(j) \/ CleanUp(j)
  PROVE  MarkedInv'
<1>1. file \in [Jobs -> Files] /\ UNCHANGED <<agent, starting, runtime>>
  BY TypesOf DEF CreateJob, StartClient, Drain, SeeResult, ExitWithResult, RequestTermination,
     LeaveTerminated, KillClient, CleanUp
<1>2. \/ UNCHANGED file
      \/ file' = [file EXCEPT ![j].dir = TRUE, ![j].request = TRUE]
      \/ file' = [file EXCEPT ![j].control = TRUE]
      \/ file' = [file EXCEPT ![j] = NoFiles]
  BY DEF CreateJob, StartClient, Drain, SeeResult, ExitWithResult, RequestTermination,
     LeaveTerminated, KillClient, CleanUp
<1>3. \A k \in Jobs : file'[k].marker => file[k].marker /\ file'[k].result = file[k].result
  BY <1>1, <1>2 DEF Files, NoFiles
<1> QED BY <1>1, <1>3, AttendedKeeps DEF Attended

\* The scan: from the claim on the job is attended to.
LEMMA ScanMarksItsJob ==
  ASSUME HostInv, MarkedInv, NEW j \in Jobs,
         Claim(j) \/ Reject(j) \/ WriteRejection(j) \/ Mark(j) \/ SpawnCommand(j) \/ SaveState(j)
  PROVE  MarkedInv'
<1>1. /\ file \in [Jobs -> Files] /\ runtime \in [Jobs -> {"none", "opened", "polled", "closing", "closed"}]
      /\ agent' = agent
  BY TypesOf DEF Claim, Reject, WriteRejection, Mark, SpawnCommand, SaveState
<1>2. starting.job \in {j, NoJob}
  BY DEF Claim, Reject, WriteRejection, Mark, SpawnCommand, SaveState, At, Idle
<1>3. /\ \A k \in Jobs \ {j} : file'[k] = file[k] /\ runtime'[k] = runtime[k]
      /\ file'[j].result # "none" \/ file'[j].result = file[j].result
  BY <1>1 DEF Claim, Reject, WriteRejection, Mark, SpawnCommand, SaveState, Files
<1>4. ASSUME agent = "up", NEW k \in Jobs \ {j}, file'[k].marker PROVE Attended(k)'
  <2>1. Attended(k) /\ starting.job # k
    BY <1>2, <1>3, <1>4, HostAssumption DEF MarkedInv
  <2> QED BY <1>3, <1>4, <2>1 DEF Attended
<1>5. ASSUME agent = "up", file'[j].marker PROVE Attended(j)'
  <2>1. CASE Claim(j) \/ Reject(j) \/ Mark(j)
    BY <2>1 DEF Claim, Reject, Mark, At, Attended
  <2>2. CASE WriteRejection(j)
    BY <1>1, <2>2 DEF WriteRejection, Attended, Files
  <2>3. CASE SpawnCommand(j)
    BY <1>1, <2>3 DEF SpawnCommand, Attended
  <2>4. CASE SaveState(j)
    <3>1. file[j].marker
      BY <1>1, <1>5, <2>4 DEF SaveState, Files
    <3>2. runtime[j] # "none" \/ file[j].result # "none"
      BY <1>5, <2>4, <3>1 DEF MarkedInv, Attended, SaveState, At
    <3>3. runtime'[j] = runtime[j] \/ runtime'[j] = "polled"
      BY <1>1, <2>4 DEF SaveState
    <3> QED BY <1>3, <3>2, <3>3 DEF Attended
  <2> QED BY <2>1, <2>2, <2>3, <2>4
<1> QED BY <1>1, <1>4, <1>5 DEF MarkedInv

\* The command's end: the record goes when the result is there.
LEMMA EndIsAnswered ==
  ASSUME HostInv, MarkedInv, NEW j \in Jobs,
         \/ Poll(j) \/ Produce(j) \/ ChildExits(j) \/ Pump(j)
         \/ CloseEvent(j) \/ CloseStreams(j) \/ WriteResult(j)
  PROVE  MarkedInv'
<1>1. /\ file \in [Jobs -> Files] /\ runtime \in [Jobs -> {"none", "opened", "polled", "closing", "closed"}]
      /\ UNCHANGED <<agent, starting>>
  BY TypesOf DEF Poll, Produce, ChildExits, Pump, CloseEvent, CloseStreams, WriteResult
<1>2. /\ \A k \in Jobs \ {j} : file'[k] = file[k] /\ runtime'[k] = runtime[k]
      /\ file'[j].marker = file[j].marker
  BY <1>1 DEF Poll, Produce, ChildExits, Pump, CloseEvent, CloseStreams, WriteResult, Files
<1>3. Attended(j) => Attended(j)'
  <2>1. CASE Poll(j) \/ Produce(j) \/ ChildExits(j) \/ Pump(j)
    BY <2>1 DEF Poll, Produce, ChildExits, Pump, Attended
  <2>2. CASE CloseEvent(j) \/ CloseStreams(j)
    BY <1>1, <2>2 DEF CloseEvent, CloseStreams, Attended
  <2>3. CASE WriteResult(j)
    <3>1. file'[j].result # "none"
      BY <1>1, <2>3 DEF WriteResult, Files
    <3> QED BY <3>1 DEF Attended
  <2> QED BY <2>1, <2>2, <2>3
<1>4. \A k \in Jobs \ {j} : Attended(k) => Attended(k)'
  BY <1>1, <1>2 DEF Attended
<1> QED BY <1>1, <1>2, <1>3, <1>4, AttendedKeeps

\* A companion comes up when no marked job is without its result, and stays up only as long
\* as it forgets none.
LEMMA UpWhenAnswered ==
  ASSUME HostInv, MarkedInv,
         \/ Stop \/ Exit \/ Die \/ StartAgent \/ Ready
         \/ \E j \in Jobs : \/ SpawnWithoutFiles(j) \/ QueueWriteFails(j) \/ ResultWriteFails(j)
                            \/ RecoverJob(j) \/ WriteRecovery(j) \/ RecoveryWriteFails(j) \/ RefuseStart(j)
  PROVE  MarkedInv'
<1>1. CASE Ready
  BY <1>1 DEF Ready, ClaimedUnresolved, MarkedInv, Attended
<1>2. CASE ~Ready
  <2>1. agent' # "up"
    BY <1>2 DEF Stop, Exit, Die, StartAgent, SpawnWithoutFiles, QueueWriteFails, ResultWriteFails,
       RecoverJob, WriteRecovery, Resolving, RecoveryWriteFails, RefuseStart
  <2> QED BY <2>1 DEF MarkedInv
<1> QED BY <1>1, <1>2

\* A death of the companion at whatever step, and a failed write, leave no job aside that
\* was marked as claimed (startJob(), recoverClaimedJobs()).
THEOREM MarkedIsAnsweredThm == HostSpec => []MarkedIsAnswered
<1>1. HostInit => MarkedInv
  BY DEF HostInit, NoFiles, MarkedInv
<1>2. HostInv /\ MarkedInv /\ [HostNext]_hostVars => MarkedInv'
  <2> SUFFICES ASSUME HostInv, MarkedInv, [HostNext]_hostVars PROVE MarkedInv'
    OBVIOUS
  <2>1. CASE UNCHANGED hostVars
    BY <2>1 DEF hostVars, MarkedInv, Attended
  <2>2. CASE HostNext
    BY <2>2, ClientsMarkNothing, ScanMarksItsJob, EndIsAnswered, UpWhenAnswered DEF HostNext
  <2> QED BY <2>1, <2>2
<1>3. MarkedInv => MarkedIsAnswered
  BY DEF MarkedInv, Attended, MarkedIsAnswered
<1> QED BY HostInitInv, HostStepInv, <1>1, <1>2, <1>3, PTL DEF HostSpec
=============================================================================
