--------------------------- MODULE TaskLedger_proofs ---------------------------
(***************************************************************************)
(* TLAPS proofs about TaskLedger: once per requestId, answers that hold,   *)
(* one active task, no lost update and the history of a task, for every    *)
(* set of callers and of requestIds and every bound.                       *)
(***************************************************************************)
EXTENDS TaskLedger, TLAPS, SequenceTheorems, FiniteSetTheorems

-----------------------------------------------------------------------------
(* The inductive invariant.                                                 *)

\* What every state.json says, when taskIds up to n have been generated.
Good(s, n) ==
  /\ Consistent(s)
  /\ IsFiniteSet(Recorded(s)) /\ s.workspaceRevision = Cardinality(Recorded(s))
  /\ \A r \in Recorded(s) :
       s.dedupe[r].result.revision <= s.tasks[s.dedupe[r].result.task].revision
  /\ \A q, r \in Recorded(s) :
       /\ s.dedupe[q].result.task = s.dedupe[r].result.task
       /\ s.dedupe[q].result.revision = s.dedupe[r].result.revision
       => q = r
  /\ \A t \in Tasks : t > n => s.tasks[t] = NoTask

\* u is s, or came after it.
Follows(s, u) ==
  /\ \A r \in RequestIds : s.dedupe[r] # None => u.dedupe[r] = s.dedupe[r]
  /\ \A t \in Tasks : /\ s.tasks[t].revision <= u.tasks[t].revision
                      /\ s.tasks[t].status # "active" => u.tasks[t] = s.tasks[t]

\* The mutation of the task t that c has checked.
Ready(c, t) ==
  /\ vis.dedupe[req[c].id] = None
  /\ Permitted(req[c].input)
  /\ t \in Tasks /\ t <= issued /\ vis.tasks[t].revision < MaxRevision
  /\ IF Generates(c) THEN vis.tasks[t] = NoTask ELSE t = req[c].input.task

\* Whoever is about to write holds the lock, and what it has read is still
\* what the file says, now and after a power loss.
WriteInv(c) ==
  pc[c] = "write" =>
    /\ Holds(c) /\ dur = vis
    /\ \E t \in Tasks : Ready(c, t) /\ next[c] = Mutated(c, t)

LInv ==
  /\ TypeOK
  /\ Good(vis, issued) /\ Good(dur, issued) /\ Follows(dur, vis)
  /\ AnswerSurvives
  /\ \A c \in Callers : req[c].input.task <= issued
  /\ \A c \in Callers : WriteInv(c)

-----------------------------------------------------------------------------
(* Types.                                                                   *)

LEMMA InputKinds ==
  ASSUME NEW i \in Input
  PROVE  /\ i.kind \in {"create", "update", "complete"}
         /\ i.kind = "create" => i.task = 0 /\ i.outcome = "active"
         /\ i.kind = "update" => i.task \in Tasks /\ i.outcome = "active"
         /\ i.kind = "complete" => i.task \in Tasks /\ i.outcome \in Outcomes
         /\ i.task \in Int /\ i.outcome \in Outcomes \cup {"active"}
  BY LedgerAssumption DEF Input, Tasks

LEMMA NoRequestType ==
  /\ NoRequest \in [id : RequestIds, input : Input]
  /\ NoRequest.input.task = 0
  <1>1. \E i \in Input : i.kind = "create"
    <2>1. [kind |-> "create", task |-> 0, expected |-> 0, outcome |-> "active"] \in Input
      BY DEF Input
    <2> QED BY <2>1
  <1>2. (CHOOSE i \in Input : i.kind = "create") \in Input
        /\ (CHOOSE i \in Input : i.kind = "create").kind = "create"
    BY <1>1
  <1> QED BY <1>2, InputKinds, LedgerAssumption DEF NoRequest

LEMMA EmptyType == Empty \in Snapshot
  BY LedgerAssumption DEF Empty, Snapshot, Tasks, Task, NoTask

\* The queue: whoever else queues or leaves, the holder holds.
LEMMA HolderKeeps ==
  ASSUME TypeOK, NEW c \in Callers, NEW d \in Callers, c # d, Holds(d),
         wsQ' \in {wsQ, Append(wsQ, c), IF Holds(c) THEN Tail(wsQ) ELSE wsQ}
  PROVE  Holds(d)'
  <1>1. wsQ \in Seq(Callers) /\ wsQ # <<>> /\ Head(wsQ) = d /\ ~Holds(c)
    BY DEF TypeOK, Holds
  <1>2. CASE wsQ' = Append(wsQ, c)
    <2>1. wsQ' # <<>> /\ Head(wsQ') = d
      BY <1>1, <1>2
    <2> QED BY <2>1 DEF Holds
  <1>3. CASE wsQ' = wsQ
    BY <1>1, <1>3 DEF Holds
  <1> QED BY <1>1, <1>2, <1>3

LEMMA QueueType ==
  ASSUME TypeOK, NEW c \in Callers,
         wsQ' \in {wsQ, Append(wsQ, c), IF Holds(c) THEN Tail(wsQ) ELSE wsQ}
  PROVE  wsQ' \in Seq(Callers)
  <1>1. wsQ \in Seq(Callers)
    BY DEF TypeOK
  <1>2. CASE wsQ' = Append(wsQ, c)
    BY <1>1, <1>2
  <1>3. CASE wsQ' = Tail(wsQ) /\ wsQ # <<>>
    BY <1>1, <1>3
  <1> QED BY <1>1, <1>2, <1>3 DEF Holds

LEMMA ReturnType ==
  ASSUME TypeOK, NEW c \in Callers, Return(c)
  PROVE  /\ pc' \in [Callers -> {"idle", "find", "mutate", "write"}]
         /\ req' \in [Callers -> [id : RequestIds, input : Input]]
         /\ next' \in [Callers -> Snapshot \cup {None}]
         /\ wsQ' \in Seq(Callers)
         /\ pc'[c] = "idle" /\ req'[c] = NoRequest
         /\ \A d \in Callers \ {c} : pc'[d] = pc[d] /\ req'[d] = req[d] /\ next'[d] = next[d]
         /\ \A d \in Callers \ {c} : Holds(d) => Holds(d)'
  <1>1. wsQ' \in Seq(Callers)
    BY QueueType DEF Return
  <1>2. \A d \in Callers \ {c} : Holds(d) => Holds(d)'
    BY HolderKeeps DEF Return
  <1> QED BY <1>1, <1>2, NoRequestType DEF TypeOK, Return

-----------------------------------------------------------------------------
(* What a mutation makes of the state it was checked against.               *)

LEMMA FollowsItself ==
  ASSUME NEW s \in Snapshot
  PROVE  Follows(s, s)
  BY DEF Follows, Snapshot, Task

LEMMA MutationType ==
  ASSUME TypeOK, NEW c \in Callers, NEW t \in Tasks, vis.tasks[t].revision < MaxRevision
  PROVE  /\ Mutated(c, t) \in Snapshot
         /\ Mutated(c, t).dedupe[req[c].id].input = req[c].input
         /\ Mutated(c, t).dedupe[req[c].id].result.task = t
         /\ Mutated(c, t).dedupe[req[c].id].result.revision = vis.tasks[t].revision + 1
         /\ Mutated(c, t).dedupe[req[c].id].result \in Result
         /\ Mutated(c, t).dedupe[req[c].id] # None
         /\ Mutated(c, t).dedupe[req[c].id] = [input |-> req[c].input,
                                               result |-> Mutated(c, t).dedupe[req[c].id].result]
  <1> DEFINE i == req[c].input
             task == [status |-> i.outcome, revision |-> vis.tasks[t].revision + 1]
             res == [task |-> t, revision |-> task.revision,
                     workspaceRevision |-> vis.workspaceRevision + 1, status |-> task.status]
             rec == [input |-> i, result |-> res]
  <1>1. /\ i \in Input /\ req[c].id \in RequestIds /\ vis \in Snapshot
        /\ i.outcome \in Outcomes \cup {"active"}
    BY InputKinds DEF TypeOK
  <1>2. /\ vis.tasks \in [Tasks -> Task] /\ vis.dedupe \in [RequestIds -> Dedupe \cup {None}]
        /\ vis.workspaceRevision \in Nat /\ vis.activeTask \in 0..MaxTasks
        /\ vis.tasks[t].revision \in 0..MaxRevision /\ vis.tasks[t].revision < MaxRevision
    BY <1>1 DEF Snapshot, Task
  <1>3. task \in Task /\ task.revision \in Revisions
    BY <1>1, <1>2, LedgerAssumption DEF Task, Revisions
  <1>4. res \in Result
    BY <1>1, <1>2, <1>3 DEF Result
  <1>5. rec \in Dedupe
    BY <1>1, <1>4 DEF Dedupe
  <1>6. Mutated(c, t) = [activeTask |-> ActiveAfter(i, t),
                         workspaceRevision |-> vis.workspaceRevision + 1,
                         tasks |-> [vis.tasks EXCEPT ![t] = task],
                         dedupe |-> [vis.dedupe EXCEPT ![req[c].id] = rec]]
    BY DEF Mutated
  <1>7. ActiveAfter(i, t) \in 0..MaxTasks
    BY LedgerAssumption DEF ActiveAfter, Tasks
  <1> HIDE DEF i, task, res, rec
  <1>8. /\ [vis.tasks EXCEPT ![t] = task] \in [Tasks -> Task]
        /\ [vis.dedupe EXCEPT ![req[c].id] = rec] \in [RequestIds -> Dedupe \cup {None}]
    BY <1>1, <1>2, <1>3, <1>5
  <1>9. Mutated(c, t) \in Snapshot
    BY <1>2, <1>6, <1>7, <1>8 DEF Snapshot
  <1>10. Mutated(c, t).dedupe[req[c].id] = rec
    BY <1>1, <1>2, <1>6
  <1>11. rec # None
    BY <1>5, NoneAssumption
  <1> USE DEF i, task, res, rec
  <1> QED BY <1>4, <1>9, <1>10, <1>11

LEMMA MutationFollows ==
  ASSUME TypeOK, NEW c \in Callers, NEW t \in Tasks, Ready(c, t)
  PROVE  Follows(vis, Mutated(c, t))
  <1>1. /\ vis.tasks \in [Tasks -> Task] /\ vis.dedupe \in [RequestIds -> Dedupe \cup {None}]
        /\ req[c].input \in Input /\ req[c].id \in RequestIds
    BY DEF TypeOK, Snapshot
  <1>2. \A u \in Tasks : vis.tasks[u].revision \in Int
    BY <1>1 DEF Task
  <1>3. vis.tasks[t].status = "active"
    BY DEF Ready, Generates, Permitted, NoTask
  <1>4. \A r \in RequestIds : vis.dedupe[r] # None => Mutated(c, t).dedupe[r] = vis.dedupe[r]
    BY <1>1 DEF Mutated, Ready
  <1>5. \A u \in Tasks : u # t => Mutated(c, t).tasks[u] = vis.tasks[u]
    BY <1>1 DEF Mutated
  <1>6. Mutated(c, t).tasks[t].revision = vis.tasks[t].revision + 1
    BY <1>1 DEF Mutated
  <1> QED BY <1>2, <1>3, <1>4, <1>5, <1>6 DEF Follows

LEMMA MutationGood ==
  ASSUME TypeOK, Good(vis, issued), NEW c \in Callers, NEW t \in Tasks, Ready(c, t)
  PROVE  Good(Mutated(c, t), issued)
  <1> DEFINE s == Mutated(c, t)  q == req[c].id  i == req[c].input
  <1>1. /\ vis.tasks \in [Tasks -> Task] /\ vis.dedupe \in [RequestIds -> Dedupe \cup {None}]
        /\ i \in Input /\ q \in RequestIds /\ vis.workspaceRevision \in Nat
        /\ vis.activeTask \in 0..MaxTasks /\ issued \in Int
    BY LedgerAssumption DEF TypeOK, Snapshot
  <1>2. /\ s \in Snapshot /\ s.dedupe[q] # None
        /\ s.dedupe[q].result.task = t
        /\ s.dedupe[q].result.revision = vis.tasks[t].revision + 1
    <2>1. vis.tasks[t].revision < MaxRevision
      BY DEF Ready
    <2> QED BY <2>1, MutationType
  <1>3. /\ s.workspaceRevision = vis.workspaceRevision + 1
        /\ s.activeTask = ActiveAfter(i, t)
        /\ s.tasks[t] = [status |-> i.outcome, revision |-> vis.tasks[t].revision + 1]
        /\ \A u \in Tasks \ {t} : s.tasks[u] = vis.tasks[u]
        /\ \A r \in RequestIds \ {q} : s.dedupe[r] = vis.dedupe[r]
    BY <1>1 DEF Mutated
  <1>4. vis.dedupe[q] = None /\ t <= issued /\ Permitted(i)
        /\ IF Generates(c) THEN vis.tasks[t] = NoTask ELSE t = i.task
    BY DEF Ready
  <1>5. \A u \in Tasks : vis.tasks[u].revision \in Nat
    BY <1>1 DEF Task
  <1> HIDE DEF s
  <1>6. Consistent(s)
    <2> SUFFICES ASSUME NEW u \in Tasks
                 PROVE  (s.tasks[u].revision > 0 /\ s.tasks[u].status = "active") <=> s.activeTask = u
      BY DEF Consistent
    <2>1. (vis.tasks[u].revision > 0 /\ vis.tasks[u].status = "active") <=> vis.activeTask = u
      BY DEF Good, Consistent
    <2>2. 0 \notin Tasks
      BY DEF Tasks
    <2>3. CASE i.kind = "complete"
      <3>1. s.activeTask = 0 /\ vis.activeTask = t /\ i.outcome # "active"
        BY <1>1, <1>3, <1>4, <2>3, InputKinds DEF ActiveAfter, Permitted, Generates, Outcomes
      <3> QED BY <1>3, <2>1, <2>2, <3>1
    <2>4. CASE i.kind # "complete"
      <3>1. s.activeTask = t /\ i.outcome = "active" /\ vis.activeTask \in {0, t}
        BY <1>1, <1>3, <1>4, <2>4, InputKinds DEF ActiveAfter, Permitted, Generates
      <3>2. s.tasks[t].revision > 0 /\ s.tasks[t].status = "active"
        BY <1>3, <1>5, <3>1
      <3> QED BY <1>3, <2>1, <2>2, <3>1, <3>2
    <2> QED BY <2>3, <2>4
  <1>7. Recorded(s) = Recorded(vis) \cup {q} /\ q \notin Recorded(vis)
    BY <1>1, <1>2, <1>3, <1>4 DEF Recorded
  <1>8. IsFiniteSet(Recorded(s)) /\ s.workspaceRevision = Cardinality(Recorded(s))
    <2>1. IsFiniteSet(Recorded(vis)) /\ vis.workspaceRevision = Cardinality(Recorded(vis))
      BY DEF Good
    <2>2. /\ IsFiniteSet(Recorded(vis) \cup {q})
          /\ Cardinality(Recorded(vis) \cup {q}) = Cardinality(Recorded(vis)) + 1
      BY <1>7, <2>1, FS_AddElement
    <2> QED BY <1>3, <1>7, <2>1, <2>2
  <1>9. ASSUME NEW r \in Recorded(s)
        PROVE  s.dedupe[r].result.revision <= s.tasks[s.dedupe[r].result.task].revision
    <2>1. CASE r = q
      BY <1>2, <1>3, <1>5, <2>1
    <2>2. CASE r # q
      <3>1. /\ r \in Recorded(vis) /\ s.dedupe[r] = vis.dedupe[r]
            /\ vis.dedupe[r].result.revision <= vis.tasks[vis.dedupe[r].result.task].revision
        BY <1>3, <1>7, <1>9, <2>2 DEF Good, Recorded
      <3>2. vis.dedupe[r].result \in Result
        BY <1>1, <3>1 DEF Recorded, Dedupe
      <3>3. vis.dedupe[r].result.task \in Tasks /\ vis.dedupe[r].result.revision \in Int
        BY <3>2 DEF Result, Revisions
      <3> QED BY <1>3, <1>5, <3>1, <3>3
    <2> QED BY <2>1, <2>2
  <1>10. ASSUME NEW p \in Recorded(s), NEW r \in Recorded(s),
                s.dedupe[p].result.task = s.dedupe[r].result.task,
                s.dedupe[p].result.revision = s.dedupe[r].result.revision
         PROVE  p = r
    <2>1. ASSUME NEW x \in Recorded(vis), vis.dedupe[x].result.task = t
          PROVE  /\ s.dedupe[x] = vis.dedupe[x]
                 /\ vis.dedupe[x].result.revision # vis.tasks[t].revision + 1
      <3>1. /\ s.dedupe[x] = vis.dedupe[x] /\ vis.dedupe[x].result \in Result
            /\ vis.dedupe[x].result.revision <= vis.tasks[t].revision
        BY <1>1, <1>3, <1>7, <2>1 DEF Good, Recorded, Dedupe
      <3> QED BY <1>5, <3>1 DEF Result, Revisions
    <2>2. CASE p = q /\ r # q
      <3>1. r \in Recorded(vis) /\ s.dedupe[r] = vis.dedupe[r]
        BY <1>3, <1>7, <2>2 DEF Recorded
      <3> QED BY <1>2, <1>10, <2>1, <2>2, <3>1
    <2>3. CASE p # q /\ r = q
      <3>1. p \in Recorded(vis) /\ s.dedupe[p] = vis.dedupe[p]
        BY <1>3, <1>7, <2>3 DEF Recorded
      <3> QED BY <1>2, <1>10, <2>1, <2>3, <3>1
    <2>4. CASE p # q /\ r # q
      <3>1. /\ p \in Recorded(vis) /\ s.dedupe[p] = vis.dedupe[p]
            /\ r \in Recorded(vis) /\ s.dedupe[r] = vis.dedupe[r]
        BY <1>3, <1>7, <2>4 DEF Recorded
      <3> QED BY <1>10, <3>1 DEF Good
    <2> QED BY <2>2, <2>3, <2>4
  <1>11. \A u \in Tasks : u > issued => s.tasks[u] = NoTask
    BY <1>1, <1>3, <1>4 DEF Good, Tasks
  <1>12. Good(s, issued)
    BY <1>6, <1>8, <1>9, <1>10, <1>11 DEF Good
  <1> QED BY <1>12 DEF s

-----------------------------------------------------------------------------
(* What the steps have in common.                                           *)

\* The new state of the file follows the durable one.
FileStep ==
  /\ vis' \in Snapshot /\ dur' \in Snapshot
  /\ Good(vis', issued') /\ Good(dur', issued') /\ Follows(dur', vis')
  /\ Follows(dur, dur')

LEMMA AnswersKept ==
  ASSUME LInv, Follows(dur, dur'), NEW a \in told
  PROVE  dur'.dedupe[a.id] = [input |-> a.input, result |-> a.result]
  <1>1. /\ a.id \in RequestIds /\ dur.dedupe[a.id] = [input |-> a.input, result |-> a.result]
        /\ [input |-> a.input, result |-> a.result] \in Dedupe
    BY DEF LInv, TypeOK, AnswerSurvives, Dedupe
  <1>2. dur.dedupe[a.id] # None
    BY <1>1, NoneAssumption
  <1> QED BY <1>1, <1>2 DEF Follows

\* Generating a taskId takes nothing from what the file says.
LEMMA GoodGrows ==
  ASSUME NEW s, NEW n \in Int, NEW k \in {n, n + 1}, Good(s, n)
  PROVE  Good(s, k)
  <1>1. \A t \in Tasks : t > k => t > n
    BY DEF Tasks
  <1> QED BY <1>1 DEF Good

\* The four ways the file changes, other than by a write.
LEMMA ReadKeeps ==
  ASSUME LInv, \/ vis' = vis /\ dur' \in {vis, dur}
               \/ vis' \in {vis, dur} /\ dur' = vis',
         issued' \in {issued, issued + 1}
  PROVE  FileStep
  <1>1. /\ vis \in Snapshot /\ dur \in Snapshot /\ issued \in Int
        /\ Good(vis, issued) /\ Good(dur, issued) /\ Follows(dur, vis)
    BY LedgerAssumption DEF LInv, TypeOK
  <1>2. Good(vis, issued') /\ Good(dur, issued')
    BY <1>1, GoodGrows
  <1>3. Follows(vis, vis) /\ Follows(dur, dur)
    BY <1>1, FollowsItself
  <1> QED BY <1>1, <1>2, <1>3 DEF FileStep

LEMMA OthersWait ==
  ASSUME NEW c \in Callers, NEW d \in Callers, c # d, Holds(c), WriteInv(d)
  PROVE  pc[d] # "write"
  BY DEF WriteInv, Holds

\* A caller about to write is not disturbed by a step that leaves the file and
\* the lock to it.
LEMMA WriterKeeps ==
  ASSUME NEW d \in Callers, WriteInv(d),
         vis' = vis, dur' \in {vis, dur}, issued' = issued,
         pc'[d] = pc[d], req'[d] = req[d], next'[d] = next[d], Holds(d) => Holds(d)'
  PROVE  WriteInv(d)'
  <1> SUFFICES ASSUME pc'[d] = "write"
               PROVE  /\ Holds(d)' /\ dur' = vis'
                      /\ \E t \in Tasks : Ready(d, t)' /\ next'[d] = Mutated(d, t)'
    BY DEF WriteInv
  <1>1. Holds(d) /\ dur = vis
    BY DEF WriteInv
  <1>2. PICK t \in Tasks : Ready(d, t) /\ next[d] = Mutated(d, t)
    BY DEF WriteInv
  <1>3. Ready(d, t)'
    BY <1>2 DEF Ready, Permitted, Generates
  <1>4. Mutated(d, t)' = Mutated(d, t)
    BY DEF Mutated
  <1> QED BY <1>1, <1>2, <1>3, <1>4

-----------------------------------------------------------------------------
(* The steps.                                                               *)

LEMMA CallKeeps ==
  ASSUME LInv, NEW c \in Callers, Call(c)
  PROVE  LInv' /\ FileStep
  <1>1. PICK r \in RequestIds, i \in Input :
          /\ i.task <= issued
          /\ req' = [req EXCEPT ![c] = [id |-> r, input |-> i]]
          /\ IF i.kind = "create"
             THEN pc' = [pc EXCEPT ![c] = "mutate"] /\ wsQ' = Append(wsQ, c)
             ELSE pc' = [pc EXCEPT ![c] = "find"] /\ UNCHANGED wsQ
    BY DEF Call
  <1>2. TypeOK /\ pc[c] = "idle"
        /\ UNCHANGED <<vis, dur, next, issued, told, faults, crashes>>
    BY DEF LInv, Call
  <1>3. FileStep
    BY <1>2, ReadKeeps
  <1>4. wsQ' \in Seq(Callers)
    BY <1>1, <1>2, QueueType
  <1>5. TypeOK'
    BY <1>1, <1>2, <1>4 DEF TypeOK
  <1>6. AnswerSurvives'
    BY <1>2, <1>3, AnswersKept DEF AnswerSurvives, FileStep
  <1>7. \A d \in Callers : req'[d].input.task <= issued'
    BY <1>1, <1>2 DEF LInv, TypeOK
  <1>8. ASSUME NEW d \in Callers PROVE WriteInv(d)'
    <2>1. CASE d = c
      <3>1. pc'[c] # "write"
        BY <1>1, <1>2 DEF TypeOK
      <3> QED BY <2>1, <3>1 DEF WriteInv
    <2>2. CASE d # c
      <3>1. pc'[d] = pc[d] /\ req'[d] = req[d] /\ next'[d] = next[d]
        BY <1>1, <1>2, <2>2 DEF TypeOK
      <3>2. Holds(d) => Holds(d)'
        BY <1>1, <1>2, <2>2, HolderKeeps
      <3> QED BY <1>2, <3>1, <3>2, WriterKeeps DEF LInv
    <2> QED BY <2>1, <2>2
  <1> QED BY <1>3, <1>5, <1>6, <1>7, <1>8 DEF LInv, FileStep

\* A request that ends without a write.
LEMMA ReturnKeeps ==
  ASSUME LInv, NEW c \in Callers, Return(c),
         vis' = vis, dur' \in {vis, dur}, issued' = issued,
         faults' \in 0..MaxFaults, crashes' = crashes,
         told' \subseteq [id : RequestIds, input : Input, result : Result],
         AnswerSurvives'
  PROVE  LInv' /\ FileStep
  <1>1. FileStep
    BY ReadKeeps
  <1>2. /\ pc' \in [Callers -> {"idle", "find", "mutate", "write"}]
        /\ req' \in [Callers -> [id : RequestIds, input : Input]]
        /\ next' \in [Callers -> Snapshot \cup {None}]
        /\ wsQ' \in Seq(Callers)
        /\ pc'[c] = "idle" /\ req'[c] = NoRequest
        /\ \A d \in Callers \ {c} : pc'[d] = pc[d] /\ req'[d] = req[d] /\ next'[d] = next[d]
        /\ \A d \in Callers \ {c} : Holds(d) => Holds(d)'
    BY ReturnType DEF LInv
  <1>3. TypeOK'
    BY <1>1, <1>2 DEF LInv, TypeOK, FileStep
  <1>4. \A d \in Callers : req'[d].input.task <= issued'
    BY <1>2, NoRequestType DEF LInv, TypeOK
  <1>5. ASSUME NEW d \in Callers PROVE WriteInv(d)'
    <2>1. CASE d = c
      BY <1>2, <2>1 DEF WriteInv
    <2>2. CASE d # c
      BY <1>2, <2>2, WriterKeeps DEF LInv
    <2> QED BY <2>1, <2>2
  <1> QED BY <1>1, <1>3, <1>4, <1>5 DEF LInv, FileStep

\* ... and without an answer.
LEMMA RefusalKeeps ==
  ASSUME LInv, NEW c \in Callers, Return(c),
         \/ ReadState /\ UNCHANGED faults
         \/ Fault /\ UNCHANGED <<vis, dur>>,
         UNCHANGED <<issued, told, crashes>>
  PROVE  LInv' /\ FileStep
  <1>1. vis' = vis /\ dur' \in {vis, dur} /\ issued' = issued
    BY DEF ReadState
  <1>2. faults' \in 0..MaxFaults
    BY LedgerAssumption DEF LInv, TypeOK, Fault
  <1>3. FileStep
    BY <1>1, ReadKeeps
  <1>4. AnswerSurvives'
    BY <1>3, AnswersKept DEF AnswerSurvives, FileStep
  <1>5. told' \subseteq [id : RequestIds, input : Input, result : Result]
    BY DEF LInv, TypeOK
  <1> QED BY <1>1, <1>2, <1>4, <1>5, ReturnKeeps

LEMMA RequireTaskKeeps ==
  ASSUME LInv, NEW c \in Callers, RequireTask(c)
  PROVE  LInv' /\ FileStep
  <1>1. CASE Return(c)
    BY <1>1, RefusalKeeps DEF RequireTask
  <1>2. CASE /\ ReadState /\ UNCHANGED faults
             /\ pc' = [pc EXCEPT ![c] = "mutate"]
             /\ wsQ' = Append(wsQ, c)
             /\ UNCHANGED <<req, next>>
    <2>1. TypeOK /\ vis' = vis /\ dur' = vis
          /\ UNCHANGED <<issued, told, crashes, faults, req, next>>
      BY <1>2 DEF LInv, RequireTask, ReadState
    <2>2. FileStep
      BY <2>1, ReadKeeps
    <2>3. wsQ' \in Seq(Callers)
      BY <1>2, <2>1, QueueType
    <2>4. TypeOK'
      BY <1>2, <2>1, <2>2, <2>3 DEF TypeOK, FileStep
    <2>5. AnswerSurvives'
      BY <2>1, <2>2, AnswersKept DEF AnswerSurvives, FileStep
    <2>6. ASSUME NEW d \in Callers PROVE WriteInv(d)'
      <3>1. CASE d = c
        BY <1>2, <2>1, <3>1 DEF WriteInv, TypeOK
      <3>2. CASE d # c
        <4>1. pc'[d] = pc[d]
          BY <1>2, <2>1, <3>2 DEF TypeOK
        <4>2. Holds(d) => Holds(d)'
          BY <1>2, <2>1, <3>2, HolderKeeps
        <4> QED BY <2>1, <4>1, <4>2, WriterKeeps DEF LInv
      <3> QED BY <3>1, <3>2
    <2> QED BY <2>1, <2>2, <2>4, <2>5, <2>6 DEF LInv, FileStep
  <1> QED BY <1>1, <1>2 DEF RequireTask

\* The recorded result of a repeat is read before it is told.
LEMMA ReplayKeeps ==
  ASSUME LInv, NEW c \in Callers, ReadState, Repeated(c),
         Answer(c, Replayed(c)), Return(c), UNCHANGED <<issued, faults, crashes>>
  PROVE  LInv' /\ FileStep
  <1>1. vis' = vis /\ dur' = vis /\ TypeOK
    BY DEF ReadState, LInv
  <1>2. FileStep
    BY <1>1, ReadKeeps
  <1>3. /\ req[c].id \in RequestIds /\ req[c].input \in Input
        /\ vis.dedupe[req[c].id] \in Dedupe
        /\ vis.dedupe[req[c].id].input = req[c].input
    BY <1>1 DEF Repeated, TypeOK, Snapshot
  <1>4. vis.dedupe[req[c].id] = [input |-> req[c].input, result |-> Replayed(c)]
        /\ Replayed(c) \in Result
    BY <1>3 DEF Dedupe, Replayed
  <1>5. told' = told \cup {[id |-> req[c].id, input |-> req[c].input, result |-> Replayed(c)]}
    BY DEF Answer
  <1>6. told' \subseteq [id : RequestIds, input : Input, result : Result]
    BY <1>1, <1>3, <1>4, <1>5 DEF TypeOK
  <1>7. \A a \in told : dur'.dedupe[a.id] = [input |-> a.input, result |-> a.result]
    BY <1>2, AnswersKept DEF FileStep
  <1>8. AnswerSurvives'
    <2> SUFFICES ASSUME NEW a \in told'
                 PROVE  dur'.dedupe[a.id] = [input |-> a.input, result |-> a.result]
      BY DEF AnswerSurvives
    <2>1. CASE a \in told
      BY <1>7, <2>1
    <2>2. CASE a = [id |-> req[c].id, input |-> req[c].input, result |-> Replayed(c)]
      BY <1>1, <1>4, <2>2
    <2> QED BY <1>5, <2>1, <2>2
  <1>9. faults' \in 0..MaxFaults
    BY <1>1 DEF TypeOK
  <1> QED BY <1>1, <1>6, <1>8, <1>9, ReturnKeeps

\* A mutation is computed from what the file says.
LEMMA PrepareKeeps ==
  ASSUME LInv, NEW c \in Callers, Locked(c), ReadState, ~Repeated(c),
         ~IdConflict(c), Permitted(req[c].input),
         About(c) \in Tasks, vis.tasks[About(c)].revision < MaxRevision,
         next' = [next EXCEPT ![c] = Mutated(c, About(c))],
         issued' = (IF Generates(c) THEN issued + 1 ELSE issued),
         pc' = [pc EXCEPT ![c] = "write"],
         UNCHANGED <<wsQ, req, told, faults, crashes>>
  PROVE  LInv' /\ FileStep
  <1>0. PICK t \in Tasks : t = About(c)
    OBVIOUS
  <1>1. /\ vis' = vis /\ dur' = vis /\ TypeOK /\ Good(vis, issued)
        /\ issued \in Nat /\ issued' \in {issued, issued + 1} /\ Holds(c)
        /\ req[c].id \in RequestIds
    BY LedgerAssumption DEF ReadState, LInv, TypeOK, Locked
  <1>2. FileStep
    BY <1>1, ReadKeeps
  <1>3. vis.dedupe[req[c].id] = None
    BY DEF Repeated, IdConflict
  <1>4. issued' \in 0..MaxTasks /\ t <= issued' /\ issued <= issued'
    <2>1. CASE Generates(c)
      BY <1>0, <1>1, <2>1 DEF About, Tasks
    <2>2. CASE ~Generates(c)
      BY <1>0, <1>1, <2>2 DEF About, LInv, TypeOK
    <2> QED BY <2>1, <2>2
  <1>5. IF Generates(c) THEN vis.tasks[t] = NoTask ELSE t = req[c].input.task
    BY <1>0, <1>1 DEF Good, About
  <1>6. Ready(c, t)'
    BY <1>0, <1>1, <1>3, <1>4, <1>5 DEF Ready, Permitted, Generates
  <1>7. Mutated(c, t)' = Mutated(c, t)
    BY <1>1 DEF Mutated
  <1>8. Mutated(c, t) \in Snapshot
    BY <1>0, <1>1, MutationType
  <1>9. TypeOK'
    <2>1. next' \in [Callers -> Snapshot \cup {None}]
      BY <1>0, <1>1, <1>8 DEF TypeOK
    <2> QED BY <1>1, <1>2, <1>4, <2>1 DEF TypeOK, FileStep
  <1>10. AnswerSurvives'
    BY <1>2, AnswersKept DEF AnswerSurvives, FileStep
  <1>11. \A d \in Callers : req'[d].input.task <= issued'
    BY <1>1, <1>4 DEF LInv, TypeOK, Input, Tasks
  <1>12. ASSUME NEW d \in Callers PROVE WriteInv(d)'
    <2>1. CASE d = c
      <3>1. Holds(c)' /\ dur' = vis' /\ next'[c] = Mutated(c, t)'
        BY <1>0, <1>1, <1>7 DEF Holds, TypeOK
      <3> QED BY <1>6, <2>1, <3>1 DEF WriteInv
    <2>2. CASE d # c
      <3>1. pc[d] # "write"
        BY <1>1, <2>2, OthersWait DEF LInv
      <3> QED BY <1>1, <2>2, <3>1 DEF WriteInv, TypeOK
    <2> QED BY <2>1, <2>2
  <1> QED BY <1>2, <1>9, <1>10, <1>11, <1>12 DEF LInv, FileStep

LEMMA MutateKeeps ==
  ASSUME LInv, NEW c \in Callers, Mutate(c)
  PROVE  LInv' /\ FileStep
  <1>1. CASE ReadState /\ Repeated(c) /\ Answer(c, Replayed(c)) /\ Return(c)
             /\ UNCHANGED <<issued, faults>>
    BY <1>1, ReplayKeeps DEF Mutate
  <1>2. CASE /\ ReadState /\ ~Repeated(c)
             /\ ~IdConflict(c) /\ Permitted(req[c].input)
             /\ About(c) \in Tasks /\ vis.tasks[About(c)].revision < MaxRevision
             /\ next' = [next EXCEPT ![c] = Mutated(c, About(c))]
             /\ issued' = IF Generates(c) THEN issued + 1 ELSE issued
             /\ pc' = [pc EXCEPT ![c] = "write"]
             /\ UNCHANGED <<wsQ, req, told, faults>>
    <2>1. Locked(c) /\ UNCHANGED crashes
      BY DEF Mutate
    <2> QED BY <1>2, <2>1, PrepareKeeps
  <1>3. CASE ReadState /\ Return(c) /\ UNCHANGED <<issued, told, faults>>
    BY <1>3, RefusalKeeps DEF Mutate
  <1>4. CASE Fault /\ Return(c) /\ UNCHANGED <<vis, dur, issued, told>>
    BY <1>4, RefusalKeeps DEF Mutate
  <1> QED BY <1>1, <1>2, <1>3, <1>4 DEF Mutate

\* The holder's mutation is one of the state that is still there.
LEMMA WriteKeeps ==
  ASSUME LInv, NEW c \in Callers, Write(c)
  PROVE  LInv' /\ FileStep
  <1>1. TypeOK /\ WriteInv(c) /\ pc[c] = "write" /\ Return(c) /\ UNCHANGED <<issued, crashes>>
    BY DEF LInv, Write
  <1>2. Holds(c) /\ dur = vis
    BY <1>1 DEF WriteInv
  <1>3. PICK t \in Tasks : Ready(c, t) /\ next[c] = Mutated(c, t)
    BY <1>1 DEF WriteInv
  <1>4. /\ vis \in Snapshot /\ Good(vis, issued) /\ Follows(vis, vis)
        /\ req[c].id \in RequestIds /\ req[c].input \in Input
    BY <1>1, FollowsItself DEF LInv, TypeOK
  <1>5. vis.tasks[t].revision < MaxRevision
    BY <1>3 DEF Ready
  <1>6. /\ next[c] \in Snapshot
        /\ next[c].dedupe[req[c].id].result \in Result
        /\ next[c].dedupe[req[c].id] = [input |-> req[c].input,
                                       result |-> next[c].dedupe[req[c].id].result]
    BY <1>1, <1>3, <1>5, MutationType
  <1>7. Good(next[c], issued) /\ Follows(vis, next[c])
    BY <1>1, <1>3, <1>4, MutationGood, MutationFollows
  <1>8. Follows(next[c], next[c])
    BY <1>6, FollowsItself
  <1>9. ASSUME vis' = next[c], dur' = vis',
               Answer(c, next[c].dedupe[req[c].id].result),
               UNCHANGED faults
        PROVE  /\ FileStep /\ AnswerSurvives' /\ faults' \in 0..MaxFaults
               /\ told' \subseteq [id : RequestIds, input : Input, result : Result]
    <2>1. FileStep
      BY <1>1, <1>2, <1>6, <1>7, <1>8, <1>9 DEF FileStep
    <2>2. told' = told \cup {[id |-> req[c].id, input |-> req[c].input,
                              result |-> next[c].dedupe[req[c].id].result]}
      BY <1>9 DEF Answer
    <2>3. told' \subseteq [id : RequestIds, input : Input, result : Result]
      BY <1>1, <1>4, <1>6, <2>2 DEF TypeOK
    <2>4. \A a \in told : dur'.dedupe[a.id] = [input |-> a.input, result |-> a.result]
      BY <2>1, AnswersKept DEF FileStep
    <2>5. AnswerSurvives'
      <3> SUFFICES ASSUME NEW a \in told'
                   PROVE  dur'.dedupe[a.id] = [input |-> a.input, result |-> a.result]
        BY DEF AnswerSurvives
      <3>1. CASE a \in told
        BY <2>4, <3>1
      <3>2. CASE a = [id |-> req[c].id, input |-> req[c].input,
                      result |-> next[c].dedupe[req[c].id].result]
        BY <1>6, <1>9, <3>2
      <3> QED BY <2>2, <3>1, <3>2
    <2>6. faults' \in 0..MaxFaults
      BY <1>1, <1>9 DEF TypeOK
    <2> QED BY <2>1, <2>3, <2>5, <2>6
  <1>10. ASSUME Fault, vis' \in {vis, next[c]}, UNCHANGED <<dur, told>>
        PROVE  /\ FileStep /\ AnswerSurvives' /\ faults' \in 0..MaxFaults
               /\ told' \subseteq [id : RequestIds, input : Input, result : Result]
    <2>1. FileStep
      BY <1>1, <1>2, <1>4, <1>6, <1>7, <1>10 DEF FileStep
    <2>2. AnswerSurvives'
      BY <2>1, AnswersKept, <1>10 DEF AnswerSurvives, FileStep
    <2>3. faults' \in 0..MaxFaults
      BY <1>1, <1>10, LedgerAssumption DEF TypeOK, Fault
    <2>4. told' \subseteq [id : RequestIds, input : Input, result : Result]
      BY <1>1, <1>10 DEF TypeOK
    <2> QED BY <2>1, <2>2, <2>3, <2>4
  <1>11. /\ FileStep /\ AnswerSurvives' /\ faults' \in 0..MaxFaults
         /\ told' \subseteq [id : RequestIds, input : Input, result : Result]
    <2>1. \/ /\ vis' = next[c] /\ dur' = vis'
             /\ Answer(c, next[c].dedupe[req[c].id].result)
             /\ UNCHANGED faults
          \/ Fault /\ vis' \in {vis, next[c]} /\ UNCHANGED <<dur, told>>
      BY DEF Write
    <2> QED BY <1>9, <1>10, <2>1
  <1>12. /\ pc' \in [Callers -> {"idle", "find", "mutate", "write"}]
         /\ req' \in [Callers -> [id : RequestIds, input : Input]]
         /\ next' \in [Callers -> Snapshot \cup {None}]
         /\ wsQ' \in Seq(Callers)
         /\ pc'[c] = "idle" /\ req'[c] = NoRequest
         /\ \A d \in Callers \ {c} : pc'[d] = pc[d] /\ req'[d] = req[d] /\ next'[d] = next[d]
    BY <1>1, ReturnType
  <1>13. TypeOK'
    BY <1>1, <1>11, <1>12 DEF TypeOK, FileStep
  <1>14. \A d \in Callers : req'[d].input.task <= issued'
    BY <1>1, <1>12, NoRequestType DEF LInv, TypeOK
  <1>15. ASSUME NEW d \in Callers PROVE WriteInv(d)'
    <2>1. pc'[d] # "write"
      BY <1>2, <1>12, OthersWait DEF LInv
    <2> QED BY <2>1 DEF WriteInv
  <1> QED BY <1>11, <1>13, <1>14, <1>15 DEF LInv, FileStep

LEMMA RestartKeeps ==
  ASSUME LInv, Restart,
         \/ vis' = vis /\ dur' = dur
         \/ vis' \in {vis, dur} /\ dur' = vis'
  PROVE  LInv' /\ FileStep
  <1>1. TypeOK /\ crashes' \in 0..MaxCrashes /\ UNCHANGED <<issued, told, faults>>
    BY LedgerAssumption DEF LInv, TypeOK, Restart
  <1>2. FileStep
    BY <1>1, ReadKeeps
  <1>3. <<>> \in Seq(Callers)
    OBVIOUS
  <1>4. TypeOK'
    BY <1>1, <1>2, <1>3, NoRequestType DEF TypeOK, FileStep, Restart
  <1>5. AnswerSurvives'
    BY <1>1, <1>2, AnswersKept DEF AnswerSurvives, FileStep
  <1>6. \A d \in Callers : req'[d].input.task <= issued' /\ pc'[d] = "idle"
    BY <1>1, NoRequestType DEF TypeOK, Restart
  <1> QED BY <1>2, <1>4, <1>5, <1>6 DEF LInv, FileStep, WriteInv

-----------------------------------------------------------------------------
(* The theorems.                                                            *)

LEMMA Initially ==
  ASSUME Init
  PROVE  LInv
  <1>1. Empty \in Snapshot /\ Follows(Empty, Empty)
    BY EmptyType, FollowsItself
  <1>2. Recorded(Empty) = {}
    BY DEF Recorded, Empty
  <1>3. IsFiniteSet({}) /\ Cardinality({}) = 0
    BY FS_EmptySet
  <1>4. Consistent(Empty)
    BY DEF Consistent, Empty, NoTask, Tasks
  <1>5. Good(Empty, 0)
    BY <1>2, <1>3, <1>4 DEF Good, Empty
  <1>6. <<>> \in Seq(Callers)
    OBVIOUS
  <1>7. TypeOK
    BY <1>1, <1>6, NoRequestType, LedgerAssumption DEF TypeOK, Init
  <1>8. \A d \in Callers : req[d].input.task <= issued /\ pc[d] = "idle"
    BY NoRequestType DEF Init
  <1> QED BY <1>1, <1>5, <1>7, <1>8 DEF LInv, Init, AnswerSurvives, WriteInv

LEMMA StepKeeps ==
  ASSUME LInv, [Next]_vars
  PROVE  LInv' /\ FileStep
  <1>1. CASE UNCHANGED vars
    <2>1. FileStep
      BY <1>1, ReadKeeps DEF vars
    <2>2. TypeOK' /\ AnswerSurvives'
      BY <1>1 DEF LInv, TypeOK, AnswerSurvives, vars
    <2>3. \A d \in Callers : req'[d].input.task <= issued'
      BY <1>1 DEF LInv, vars
    <2>4. \A d \in Callers : WriteInv(d)'
      BY <1>1, WriterKeeps DEF LInv, vars, Holds
    <2> QED BY <2>1, <2>2, <2>3, <2>4 DEF LInv, FileStep
  <1>2. CASE \E c \in Callers : Call(c)
    BY <1>2, CallKeeps
  <1>3. CASE \E c \in Callers : RequireTask(c)
    BY <1>3, RequireTaskKeeps
  <1>4. CASE \E c \in Callers : Mutate(c)
    BY <1>4, MutateKeeps
  <1>5. CASE \E c \in Callers : Write(c)
    BY <1>5, WriteKeeps
  <1>6. CASE Crash
    BY <1>6, RestartKeeps DEF Crash
  <1>7. CASE PowerLoss
    BY <1>7, RestartKeeps DEF PowerLoss
  <1> QED BY <1>1, <1>2, <1>3, <1>4, <1>5, <1>6, <1>7 DEF Next

LEMMA Inductive == Spec => []LInv
  <1> QED BY Initially, StepKeeps, PTL DEF Spec

\* An answer that a client has received is never withdrawn: whatever write
\* fails and whenever the power is lost, the file keeps its requestId with the
\* result it was told (checkDedupe, after readWorkspace confirmed durability).
THEOREM AnswerSurvivesThm == Spec => []AnswerSurvives
  <1>1. LInv => AnswerSurvives
    BY DEF LInv
  <1> QED BY <1>1, Inductive, PTL

\* activeTaskId is always the one task that is active (create, complete).
THEOREM OneActiveTaskThm == Spec => []OneActiveTask
  <1>1. LInv => OneActiveTask
    BY DEF LInv, Good, OneActiveTask
  <1> QED BY <1>1, Inductive, PTL

\* Every recorded requestId has mutated the workspace once, and nothing else
\* has: workspaceRevision counts the dedupe records.
THEOREM RecordedOnceThm == Spec => []RecordedOnce
  <1>1. LInv => RecordedOnce
    BY DEF LInv, Good, RecordedOnce
  <1> QED BY <1>1, Inductive, PTL

\* Two requests that were both told they made the same revision of a task are
\* the same request: the check of expectedRevision and the write happen under
\* one hold of the workspace lock (update, complete).
THEOREM NoLostUpdateThm == Spec => []NoLostUpdate
  <1>1. ASSUME LInv PROVE NoLostUpdate
    <2> SUFFICES ASSUME NEW a \in told, NEW b \in told,
                        a.result.task = b.result.task, a.result.revision = b.result.revision
                 PROVE  a.id = b.id
      BY DEF NoLostUpdate
    <2>1. ASSUME NEW x \in told
          PROVE  x.id \in Recorded(dur) /\ dur.dedupe[x.id].result = x.result
      <3>1. /\ x.id \in RequestIds /\ dur.dedupe[x.id] = [input |-> x.input, result |-> x.result]
            /\ [input |-> x.input, result |-> x.result] \in Dedupe
        BY <1>1, <2>1 DEF LInv, TypeOK, AnswerSurvives, Dedupe
      <3> QED BY <3>1, NoneAssumption DEF Recorded
    <2>2. a.id \in Recorded(dur) /\ dur.dedupe[a.id].result = a.result
      BY <2>1
    <2>3. b.id \in Recorded(dur) /\ dur.dedupe[b.id].result = b.result
      BY <2>1
    <2> QED BY <1>1, <2>2, <2>3 DEF LInv, Good
  <1> QED BY <1>1, Inductive, PTL

\* No step, crash and power loss included, takes a durable task back to an
\* earlier revision or changes a closed one.
THEOREM TaskHistoryThm == Spec => TaskHistory
  <1> DEFINE Forward ==
        \A t \in Tasks :
          /\ dur'.tasks[t].revision >= dur.tasks[t].revision
          /\ dur.tasks[t].status # "active" => dur'.tasks[t] = dur.tasks[t]
  <1>1. LInv /\ [Next]_vars => [Forward]_vars
    <2> SUFFICES ASSUME LInv, [Next]_vars PROVE Forward
      OBVIOUS
    <2>1. FileStep
      BY StepKeeps
    <2> QED BY <2>1 DEF FileStep, Follows
  <1>2. TaskHistory <=> [][Forward]_vars
    BY DEF TaskHistory
  <1> QED BY <1>1, <1>2, Inductive, PTL DEF Spec
=============================================================================
