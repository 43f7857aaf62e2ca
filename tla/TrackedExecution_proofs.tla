--------------------- MODULE TrackedExecution_proofs ---------------------
(***************************************************************************)
(* TLAPS proofs about TrackedExecution, for every set of callers, of       *)
(* operations and of inputs, and every number of boots and faults.         *)
(***************************************************************************)
EXTENDS TrackedExecution, TLAPS, SequenceTheorems

-----------------------------------------------------------------------------
(* The inductive invariant.                                                 *)

\* The steps between reading a receipt and writing it, under its lock.
Rewrites == {"writeRunning", "writeDegraded", "writeFailed"}

Taken(c) == req[c].batch \ req[c].todo

Completing  == {"complete", "listReceipts", "writeTask"}
Reconciling == {"reconcile", "lockReceipt", "commit"}

\* Whoever is about to write a receipt holds its execution lock (and a request
\* carries the choice that its kind has).
CallerLock(c) ==
  /\ pc[c] \in Completing => req[c].choice \in {"completed", "abandoned"}
  /\ pc[c] \in Reconciling =>
       req[c].choice \in {"verified_no_retry", "external_effect_unknown"}
  /\ pc[c] \in Rewrites \cup {"writePrepared"} => Holds(c, exQ[req[c].op])
  /\ pc[c] \in {"lockReceipt", "commit"} => \A o \in Taken(c) : Holds(c, exQ[o])
  /\ pc[c] = "reconcile" => Taken(c) = {}
  /\ pc[c] = "commit" => req[c].todo = {}
HookLock(o) == pc[o] = "writeTerminal" => Holds(o, exQ[o])

LockInv == (\A c \in Callers : CallerLock(c)) /\ (\A o \in Ops : HookLock(o))

\* ... and what it has read is still what the file says.
CallerFresh(c) ==
  /\ pc[c] = "writePrepared" => vis[req[c].op] = None
  /\ pc[c] \in Rewrites =>
       seen[c][req[c].op] # None /\ seen[c][req[c].op] = vis[req[c].op]
  /\ pc[c] \in {"lockReceipt", "commit"} =>
       \A o \in Taken(c) : seen[c][o] # None /\ seen[c][o] = vis[o]
HookFresh(o) ==
  pc[o] = "writeTerminal" => seen[o][o] # None /\ seen[o][o] = vis[o]

FreshInv == (\A c \in Callers : CallerFresh(c)) /\ (\A o \in Ops : HookFresh(o))

\* At most one caller may spawn an operation, and only if nobody has.
SpawnInv ==
  /\ \A c \in Callers : pc[c] = "spawn" =>
       /\ vis[req[c].op] # None /\ dur[req[c].op] # None
       /\ attempts[req[c].op] = 0
       /\ \A d \in Callers : pc[d] = "spawn" /\ req[d].op = req[c].op => d = c
  /\ \A o \in Ops : vis[o] = None => dur[o] = None
  /\ \A o \in Ops : attempts[o] > 0 => dur[o] # None
  /\ \A o \in Ops : attempts[o] <= 1

\* The hook runs only for a process of this boot that has ended.
ProcInv ==
  /\ \A o \in Ops : proc[o] # "none" => attempts[o] = 1
  /\ \A o \in Ops : pc[o] \in {"markTerminal", "writeTerminal"} => proc[o] \in Settled
  /\ up = "booting" => /\ \A a \in Actors : pc[a] = "idle"
                       /\ \A o \in Ops : proc[o] = "none"

IInv == TypeOK /\ LockInv /\ FreshInv /\ SpawnInv /\ ProcInv

-----------------------------------------------------------------------------
(* Queues.                                                                  *)

LEMMA AppendType ==
  ASSUME NEW S, NEW q \in Seq(S), NEW a \in S
  PROVE  Append(q, a) \in Seq(S)
  OBVIOUS

LEMMA UnlockedType ==
  ASSUME NEW S, NEW q \in Seq(S), NEW a
  PROVE  Unlocked(a, q) \in Seq(S)
  BY DEF Unlocked, Holds

\* The holder of a lock keeps it whoever else queues up or releases.
LEMMA HoldsAppend ==
  ASSUME NEW S, NEW q \in Seq(S), NEW a \in S, NEW b, Holds(b, q)
  PROVE  Holds(b, Append(q, a))
  BY DEF Holds

LEMMA HoldsUnlocked ==
  ASSUME NEW a, NEW b, NEW q, b # a, Holds(b, q)
  PROVE  Holds(b, Unlocked(a, q))
  BY DEF Holds, Unlocked

-----------------------------------------------------------------------------
(* Types of what the helpers of the actions assign.                         *)

LEMMA NoRequestType == NoRequest \in Request
  BY ConstantsAssumption DEF NoRequest, Request

LEMMA UnreadType == Unread \in [Ops -> Receipt \cup {None}]
  BY DEF Unread

LEMMA ReleaseType ==
  ASSUME TypeOK, NEW a, ReleaseAll(a)
  PROVE  LockType'
  BY UnlockedType DEF TypeOK, LockType, ReleaseAll

LEMMA EnqueuedType ==
  ASSUME LockType, NEW a \in Actors, NEW o \in Ops
  PROVE  Enqueued(a, o) \in [Ops -> Seq(Actors)]
  BY AppendType DEF LockType, Enqueued

LEMMA GotoType ==
  ASSUME SessionType, NEW a \in Actors, NEW l \in CallerPC \cup HookPC, Goto(a, l)
  PROVE  pc' \in [Actors -> CallerPC \cup HookPC]
  BY DEF SessionType, Goto

LEMMA ReturnType ==
  ASSUME TypeOK, NEW c \in Callers, Return(c)
  PROVE  SessionType' /\ LockType'
  <1>1. LockType'
    BY ReleaseType DEF Return
  <1>2. SessionType'
    BY NoRequestType, UnreadType
    DEF TypeOK, SessionType, Return, Goto, Actors, CallerPC
  <1> QED BY <1>1, <1>2

LEMMA HookDoneType ==
  ASSUME TypeOK, NEW o \in Ops, HookDone(o)
  PROVE  SessionType' /\ LockType'
  <1>1. LockType'
    BY ReleaseType DEF HookDone
  <1>2. SessionType'
    BY UnreadType DEF TypeOK, SessionType, HookDone, Goto, Actors, CallerPC
  <1> QED BY <1>1, <1>2

LEMMA FaultType ==
  ASSUME StorageType, Fault
  PROVE  faults' \in 0..MaxFaults
  BY ConstantsAssumption DEF StorageType, Fault

LEMMA ReadType ==
  ASSUME StorageType, NEW o \in Ops, ReadReceipt(o) \/ ReadTask \/ ReadFailed
  PROVE  StorageType'
  BY FaultType DEF StorageType, ReadReceipt, ReadTask, ReadFailed, files, tasks

LEMMA WriteType ==
  ASSUME StorageType, NEW o \in Ops, NEW r \in Receipt,
         Written(o, r) \/ WriteFailed(o, r)
  PROVE  StorageType'
  BY FaultType DEF StorageType, Written, WriteFailed, tasks

-----------------------------------------------------------------------------
(* What a step of one actor cannot disturb.                                 *)

\* Only a is concerned: the others keep their locks, and the receipts that
\* change are those whose lock a holds.
Isolated(a) ==
  /\ \A b \in Actors \ {a} :
       /\ pc'[b] = pc[b] /\ seen'[b] = seen[b]
       /\ b \in Callers => req'[b] = req[b]
       /\ \A o \in Ops : Holds(b, exQ[o]) => Holds(b, exQ'[o])
  /\ \A o \in Ops : vis'[o] # vis[o] => Holds(a, exQ[o])

\* No receipt disappears, and none is durable that is not there.
KeepsReceipts ==
  \A o \in Ops :
    /\ vis[o] # None => vis'[o] # None
    /\ dur[o] # None => dur'[o] # None
    /\ vis'[o] = None => dur'[o] = None

LEMMA OthersKeep ==
  ASSUME TypeOK, LockInv, FreshInv, NEW a \in Actors, Isolated(a)
  PROVE  /\ \A c \in Callers \ {a} : CallerLock(c)' /\ CallerFresh(c)'
         /\ \A o \in Ops \ {a} : HookLock(o)' /\ HookFresh(o)'
  <1>1. ASSUME NEW c \in Callers \ {a} PROVE CallerLock(c)' /\ CallerFresh(c)'
    <2>1. /\ pc'[c] = pc[c] /\ seen'[c] = seen[c] /\ req'[c] = req[c]
          /\ \A o \in Ops : Holds(c, exQ[o]) => Holds(c, exQ'[o])
          /\ \A o \in Ops : Holds(c, exQ[o]) => vis'[o] = vis[o]
      BY DEF Isolated, Actors, Holds
    <2>2. req[c].op \in Ops /\ Taken(c) \subseteq Ops
      BY DEF TypeOK, SessionType, Request, Taken
    <2>3. CallerLock(c) /\ CallerFresh(c)
      BY DEF LockInv, FreshInv
    <2> QED BY <2>1, <2>2, <2>3 DEF CallerLock, Completing, Reconciling, CallerFresh, Taken
  <1>2. ASSUME NEW o \in Ops \ {a} PROVE HookLock(o)' /\ HookFresh(o)'
    <2>1. /\ pc'[o] = pc[o] /\ seen'[o] = seen[o]
          /\ Holds(o, exQ[o]) => Holds(o, exQ'[o]) /\ vis'[o] = vis[o]
      BY DEF Isolated, Actors, Holds
    <2> QED BY <2>1 DEF LockInv, FreshInv, HookLock, HookFresh
  <1> QED BY <1>1, <1>2

LEMMA ReleaseIsolates ==
  ASSUME TypeOK, NEW a \in Actors, ReleaseAll(a),
         NEW b \in Actors \ {a}, NEW o \in Ops, Holds(b, exQ[o])
  PROVE  Holds(b, exQ'[o])
  BY HoldsUnlocked DEF ReleaseAll

LEMMA EnqueueIsolates ==
  ASSUME TypeOK, NEW a \in Actors, NEW p \in Ops, exQ' = Enqueued(a, p),
         NEW b \in Actors, NEW o \in Ops, Holds(b, exQ[o])
  PROVE  Holds(b, exQ'[o])
  BY HoldsAppend DEF TypeOK, LockType, Enqueued

LEMMA ReadKeeps ==
  ASSUME TypeOK, SpawnInv, NEW o \in Ops, ReadReceipt(o) \/ ReadTask \/ ReadFailed
  PROVE  KeepsReceipts /\ vis' = vis
  BY DEF TypeOK, StorageType, SpawnInv, KeepsReceipts, ReadReceipt, ReadTask,
         ReadFailed, files, tasks

LEMMA WriteKeeps ==
  ASSUME TypeOK, SpawnInv, NEW o \in Ops, NEW r \in Receipt,
         Written(o, r) \/ WriteFailed(o, r)
  PROVE  KeepsReceipts /\ \A p \in Ops : vis'[p] # vis[p] => p = o
  BY NoneAssumption
  DEF TypeOK, StorageType, SpawnInv, KeepsReceipts, Written, WriteFailed

\* A step of an actor that spawns nothing and starts no hook.
LEMMA StepInv ==
  ASSUME IInv, TypeOK', NEW a \in Actors, pc[a] # "idle",
         Isolated(a), KeepsReceipts, UNCHANGED <<up, proc, attempts>>,
         a \in Callers => pc'[a] # "spawn" /\ CallerLock(a)' /\ CallerFresh(a)',
         a \in Ops => /\ pc'[a] = "markTerminal" => pc[a] = "markTerminal"
                      /\ pc'[a] = "writeTerminal" => pc[a] = "markTerminal"
                      /\ HookLock(a)' /\ HookFresh(a)'
  PROVE  IInv'
  <1>1. LockInv' /\ FreshInv'
    BY OthersKeep DEF IInv, LockInv, FreshInv
  <1>2. \A c \in Callers : pc'[c] = "spawn" => pc[c] = "spawn" /\ req'[c] = req[c]
    BY DEF Isolated, Actors
  <1>3. SpawnInv'
    BY <1>2 DEF IInv, TypeOK, SessionType, Request, SpawnInv, KeepsReceipts
  <1>4. up = "up" /\ up' = "up"
    BY DEF IInv, TypeOK, ProcInv
  <1>5. \A o \in Ops : pc'[o] \in {"markTerminal", "writeTerminal"} =>
                        pc[o] \in {"markTerminal", "writeTerminal"}
    BY DEF Isolated, Actors
  <1>6. ProcInv'
    BY <1>4, <1>5 DEF IInv, ProcInv
  <1> QED BY <1>1, <1>3, <1>6 DEF IInv

\* A request that returns: whatever it wrote, it held the lock for.
LEMMA ReturnInv ==
  ASSUME IInv, NEW c \in Callers, pc[c] # "idle", Return(c),
         StorageType', KeepsReceipts,
         \A o \in Ops : vis'[o] # vis[o] => Holds(c, exQ[o]),
         UNCHANGED <<up, boot, procs>>, promised' \in [Ops -> SUBSET Settled]
  PROVE  IInv'
  <1>1. TypeOK'
    BY ReturnType DEF IInv, TypeOK, ProcType, procs
  <1>2. Isolated(c)
    BY ReleaseIsolates
    DEF IInv, TypeOK, SessionType, Isolated, Return, Goto, Actors
  <1>3. pc'[c] = "idle"
    BY DEF IInv, TypeOK, SessionType, Return, Goto, Actors
  <1>4. CallerLock(c)' /\ CallerFresh(c)'
    BY <1>3 DEF CallerLock, Completing, Reconciling, CallerFresh, Rewrites
  <1>5. c \notin Ops /\ c \in Actors
    BY ConstantsAssumption DEF Actors
  <1> QED BY <1>1, <1>2, <1>3, <1>4, <1>5, StepInv DEF procs

-----------------------------------------------------------------------------
(* Each action preserves the invariant.                                     *)

LEMMA InitInv == Init => IInv
  <1> SUFFICES ASSUME Init PROVE IInv
    OBVIOUS
  <1>1. TypeOK
    BY NoRequestType, UnreadType, ConstantsAssumption
    DEF Init, TypeOK, SessionType, LockType, StorageType, ProcType, Actors, CallerPC
  <1>2. LockInv /\ FreshInv
    <2>1. \A a \in Actors : pc[a] = "idle"
      BY DEF Init
    <2> QED BY <2>1 DEF LockInv, FreshInv, CallerLock, CallerFresh, HookLock,
                        HookFresh, Completing, Reconciling, Rewrites, Actors
  <1>3. SpawnInv /\ ProcInv
    BY DEF Init, SpawnInv, ProcInv, Unread, Actors
  <1> QED BY <1>1, <1>2, <1>3 DEF IInv

\* A call: the caller was idle and holds nothing yet.
LEMMA CallInv ==
  ASSUME IInv, NEW c \in Callers, Call(c)
  PROVE  IInv'
  <1>1. PICK l \in {"prepare", "poll", "complete", "reconcile"}, r \in Request :
          /\ up = "up" /\ pc[c] = "idle" /\ Goto(c, l)
          /\ req' = [req EXCEPT ![c] = r]
          /\ l \in Completing => r.choice \in {"completed", "abandoned"}
          /\ l \in Reconciling =>
               r.choice \in {"verified_no_retry", "external_effect_unknown"}
          /\ r.batch = r.todo
          /\ wsQ' = wsQ \/ wsQ' = Append(wsQ, c)
          /\ UNCHANGED <<up, boot, seen, exQ, files, tasks, procs, promised, faults>>
    <2> USE DEF Completing, Reconciling
    <2>1. CASE ExecCall(c)
      BY <2>1, NoRequestType DEF ExecCall, Request, NoRequest
    <2>2. CASE PollCall(c)
      BY <2>2, NoRequestType DEF PollCall, Request, NoRequest, locks
    <2>3. CASE CompleteCall(c)
      BY <2>3, NoRequestType DEF CompleteCall, Request, NoRequest
    <2>4. CASE ReconcileCall(c)
      BY <2>4, NoRequestType DEF ReconcileCall, Request, NoRequest
    <2> QED BY <2>1, <2>2, <2>3, <2>4 DEF Call
  <1>2. c \in Actors /\ c \notin Ops
    BY ConstantsAssumption DEF Actors
  <1>3. TypeOK'
    <2>1. SessionType'
      BY <1>1, <1>2, GotoType DEF IInv, TypeOK, SessionType, CallerPC
    <2>2. LockType'
      BY <1>1, AppendType DEF IInv, TypeOK, LockType
    <2> QED BY <1>1, <2>1, <2>2
            DEF IInv, TypeOK, StorageType, ProcType, files, tasks, procs
  <1>4. Isolated(c)
    BY <1>1, <1>2 DEF IInv, TypeOK, SessionType, Isolated, Goto, files
  <1>5. pc'[c] = l
    BY <1>1, <1>2 DEF IInv, TypeOK, SessionType, Goto
  <1>10. req'[c] = r
    BY <1>1 DEF IInv, TypeOK, SessionType
  <1>6. LockInv' /\ FreshInv'
    BY <1>1, <1>2, <1>4, <1>5, <1>10, OthersKeep
    DEF IInv, LockInv, FreshInv, CallerLock, CallerFresh, Rewrites, Taken
  <1>7. \A d \in Callers : pc'[d] = "spawn" => pc[d] = "spawn" /\ req'[d] = req[d]
    BY <1>4, <1>5 DEF Isolated, Actors
  <1>8. SpawnInv'
    BY <1>1, <1>7 DEF IInv, SpawnInv, files, procs
  <1>9. ProcInv'
    BY <1>1, <1>2, <1>4 DEF IInv, ProcInv, Isolated, Actors, procs
  <1> QED BY <1>3, <1>6, <1>8, <1>9 DEF IInv

\* A caller that queues for the next lock after reading the task.
LEMMA PrepareTaskInv ==
  ASSUME IInv, NEW c \in Callers, PrepareTask(c)
  PROVE  IInv'
  <1>0. /\ pc[c] = "prepare" /\ UNCHANGED <<up, boot, procs, promised>>
        /\ c \in Actors /\ c \notin Ops /\ req[c].op \in Ops
    BY ConstantsAssumption
    DEF PrepareTask, Actors, IInv, TypeOK, SessionType, Request
  <1>1. ReadTask \/ ReadFailed
    BY DEF PrepareTask
  <1>2. StorageType' /\ KeepsReceipts /\ vis' = vis
    BY <1>0, <1>1, ReadType, ReadKeeps DEF IInv, TypeOK
  <1>3. CASE Return(c)
    BY <1>0, <1>2, <1>3, ReturnInv DEF IInv, TypeOK
  <1>4. CASE /\ Goto(c, "claim") /\ exQ' = Enqueued(c, req[c].op)
             /\ UNCHANGED <<req, seen, wsQ>>
    <2>1. pc'[c] = "claim"
      BY <1>0, <1>4 DEF IInv, TypeOK, SessionType, Goto
    <2>2. TypeOK'
      <3>1. SessionType'
        BY <1>0, <1>4, GotoType DEF IInv, TypeOK, SessionType, CallerPC
      <3>2. LockType'
        BY <1>0, <1>4, EnqueuedType DEF IInv, TypeOK, LockType
      <3> QED BY <1>0, <1>2, <3>1, <3>2 DEF IInv, TypeOK, ProcType, procs
    <2>3. Isolated(c)
      BY <1>0, <1>2, <1>4, EnqueueIsolates
      DEF IInv, TypeOK, SessionType, Isolated, Goto
    <2>4. CallerLock(c)' /\ CallerFresh(c)'
      BY <2>1 DEF CallerLock, Completing, Reconciling, CallerFresh, Rewrites
    <2> QED BY <1>0, <1>2, <2>1, <2>2, <2>3, <2>4, StepInv DEF procs
  <1> QED BY <1>3, <1>4 DEF PrepareTask

LEMMA PrepareReadInv ==
  ASSUME IInv, NEW c \in Callers, PrepareRead(c)
  PROVE  IInv'
  <1> DEFINE o == req[c].op
  <1>0. /\ pc[c] = "claim" /\ UNCHANGED <<up, boot, procs>> /\ Holds(c, exQ[o])
        /\ c \in Actors /\ c \notin Ops /\ o \in Ops
        /\ ReadReceipt(o) \/ ReadFailed
    BY ConstantsAssumption
    DEF PrepareRead, Actors, IInv, TypeOK, SessionType, Request
  <1>1. StorageType' /\ KeepsReceipts /\ vis' = vis
    BY <1>0, ReadType, ReadKeeps DEF IInv, TypeOK
  <1>2. promised' \in [Ops -> SUBSET Settled]
    BY <1>0 DEF PrepareRead, IInv, TypeOK, Told
  <1>3. CASE Return(c)
    BY <1>0, <1>1, <1>2, <1>3, ReturnInv
  <1>4. CASE /\ vis[o] = None /\ Goto(c, "writePrepared")
             /\ UNCHANGED <<req, seen, locks>>
    <2>1. pc'[c] = "writePrepared"
      BY <1>0, <1>4 DEF IInv, TypeOK, SessionType, Goto
    <2>2. TypeOK'
      <3>1. SessionType'
        BY <1>0, <1>4, GotoType DEF IInv, TypeOK, SessionType, CallerPC
      <3> QED BY <1>0, <1>1, <1>2, <1>4, <3>1
              DEF IInv, TypeOK, ProcType, procs, LockType, locks
    <2>3. Isolated(c)
      BY <1>0, <1>1, <1>4 DEF IInv, TypeOK, SessionType, Isolated, Goto, locks
    <2>4. CallerLock(c)' /\ CallerFresh(c)'
      BY <1>0, <1>1, <1>4, <2>1 DEF CallerLock, Completing, Reconciling, CallerFresh, Rewrites, locks
    <2> QED BY <1>0, <1>1, <2>1, <2>2, <2>3, <2>4, StepInv DEF procs
  <1>5. CASE /\ Goto(c, "observe") /\ seen' = [seen EXCEPT ![c][o] = vis[o]]
             /\ ReleaseAll(c) /\ UNCHANGED req
    <2>1. pc'[c] = "observe"
      BY <1>0, <1>5 DEF IInv, TypeOK, SessionType, Goto
    <2>2. TypeOK'
      <3>1. SessionType'
        BY <1>0, <1>5, GotoType DEF IInv, TypeOK, SessionType, StorageType, CallerPC
      <3>2. LockType'
        BY <1>5, ReleaseType DEF IInv
      <3> QED BY <1>0, <1>1, <1>2, <3>1, <3>2 DEF IInv, TypeOK, ProcType, procs
    <2>3. Isolated(c)
      BY <1>0, <1>1, <1>5, ReleaseIsolates
      DEF IInv, TypeOK, SessionType, Isolated, Goto
    <2>4. CallerLock(c)' /\ CallerFresh(c)'
      BY <2>1 DEF CallerLock, Completing, Reconciling, CallerFresh, Rewrites
    <2> QED BY <1>0, <1>1, <2>1, <2>2, <2>3, <2>4, StepInv DEF procs
  <1> QED BY <1>3, <1>4, <1>5 DEF PrepareRead

LEMMA PrepareWriteInv ==
  ASSUME IInv, NEW c \in Callers, PrepareWrite(c)
  PROVE  IInv'
  <1> DEFINE o == req[c].op
             r == PreparedReceipt(req[c].input)
  <1>0. /\ pc[c] = "writePrepared" /\ UNCHANGED <<up, boot, procs, promised>>
        /\ c \in Actors /\ c \notin Ops /\ o \in Ops
        /\ Holds(c, exQ[o]) /\ vis[o] = None
        /\ Written(o, r) \/ WriteFailed(o, r)
    BY ConstantsAssumption
    DEF PrepareWrite, Actors, IInv, TypeOK, SessionType, Request,
        LockInv, CallerLock, FreshInv, CallerFresh
  <1>1. r \in Receipt
    BY <1>0 DEF IInv, TypeOK, SessionType, Request, PreparedReceipt, Receipt,
               Settled, Unsettled
  <1>2. StorageType' /\ KeepsReceipts /\ \A q \in Ops : vis'[q] # vis[q] => q = o
    BY <1>0, <1>1, WriteType, WriteKeeps DEF IInv, TypeOK
  <1>3. CASE Return(c)
    BY <1>0, <1>2, <1>3, ReturnInv DEF IInv, TypeOK
  <1>4. CASE Written(o, r) /\ Goto(c, "spawn") /\ ReleaseAll(c) /\ UNCHANGED <<req, seen>>
    <2>1. pc'[c] = "spawn" /\ \A b \in Actors \ {c} : pc'[b] = pc[b]
      BY <1>0, <1>4 DEF IInv, TypeOK, SessionType, Goto
    <2>2. TypeOK'
      <3>1. SessionType'
        BY <1>0, <1>4, GotoType DEF IInv, TypeOK, SessionType, CallerPC
      <3>2. LockType'
        BY <1>4, ReleaseType DEF IInv
      <3> QED BY <1>0, <1>2, <3>1, <3>2 DEF IInv, TypeOK, ProcType, procs
    <2>3. Isolated(c)
      BY <1>0, <1>2, <1>4, <2>1, ReleaseIsolates DEF IInv, Isolated
    <2>4. LockInv' /\ FreshInv'
      <3>1. CallerLock(c)' /\ CallerFresh(c)'
        BY <2>1 DEF CallerLock, Completing, Reconciling, CallerFresh, Rewrites
      <3> QED BY <1>0, <2>3, <3>1, OthersKeep DEF IInv, LockInv, FreshInv
    <2>5. SpawnInv'
      <3>1. vis'[o] # None /\ dur'[o] # None
        BY <1>0, <1>1, <1>4, NoneAssumption
        DEF IInv, TypeOK, StorageType, Written
      <3>2. attempts[o] = 0 /\ \A d \in Callers : pc[d] = "spawn" => req[d].op # o
        BY <1>0 DEF IInv, TypeOK, ProcType, SpawnInv
      <3>3. ASSUME NEW d \in Callers, pc'[d] = "spawn"
            PROVE  /\ vis'[req[d].op] # None /\ dur'[req[d].op] # None
                   /\ attempts[req[d].op] = 0
                   /\ \A e \in Callers : pc'[e] = "spawn" /\ req[e].op = req[d].op => e = d
        <4>1. CASE d = c
          BY <2>1, <3>1, <3>2, <4>1 DEF Actors
        <4>2. CASE d # c
          <5>1. pc[d] = "spawn" /\ req[d].op \in Ops
            BY <2>1, <3>3, <4>2 DEF Actors, IInv, TypeOK, SessionType, Request
          <5> QED BY <1>2, <2>1, <3>2, <5>1 DEF IInv, SpawnInv, KeepsReceipts, Actors
        <4> QED BY <4>1, <4>2
      <3> QED BY <1>0, <1>2, <1>4, <3>3 DEF IInv, SpawnInv, KeepsReceipts, procs
    <2>6. ProcInv'
      BY <1>0, <2>1 DEF IInv, ProcInv, procs, Actors
    <2> QED BY <2>2, <2>4, <2>5, <2>6 DEF IInv
  <1> QED BY <1>3, <1>4 DEF PrepareWrite

\* The step the invariant is about: nobody else may spawn this operation.
LEMMA SpawnStepInv ==
  ASSUME IInv, NEW c \in Callers, Spawn(c)
  PROVE  IInv'
  <1> DEFINE o == req[c].op
  <1>0. /\ pc[c] = "spawn" /\ exQ' = Enqueued(c, o)
        /\ UNCHANGED <<up, boot, req, seen, wsQ, files, tasks, promised, faults>>
        /\ c \in Actors /\ c \notin Ops /\ o \in Ops
    BY ConstantsAssumption
    DEF Spawn, Actors, IInv, TypeOK, SessionType, Request
  <1>1. /\ dur[o] # None /\ attempts[o] = 0 /\ proc[o] = "none"
        /\ pc[o] \notin {"markTerminal", "writeTerminal"}
        /\ \A d \in Callers : pc[d] = "spawn" /\ req[d].op = o => d = c
    BY <1>0 DEF IInv, TypeOK, ProcType, SpawnInv, ProcInv, Settled
  <1>2. /\ pc'[c] \in {"markRunning", "markFailed"}
        /\ \A b \in Actors \ {c} : pc'[b] = pc[b]
        /\ pc' \in [Actors -> CallerPC \cup HookPC]
    BY <1>0 DEF Spawn, IInv, TypeOK, SessionType, Goto, CallerPC
  <1>3. /\ ProcType'
        /\ \A p \in Ops \ {o} : proc'[p] = proc[p] /\ attempts'[p] = attempts[p]
        /\ attempts'[o] \in {0, 1}
        /\ proc'[o] # "none" => attempts'[o] = 1
    <2> USE DEF IInv, TypeOK, ProcType
    <2>1. CASE UNCHANGED procs
      BY <1>0, <1>1, <2>1 DEF procs
    <2>2. ASSUME NEW s \in {"alive", "stillborn"}, NEW n \in {runs[o], runs[o] + 1},
                 proc' = [proc EXCEPT ![o] = s],
                 managed' = [managed EXCEPT ![o] = TRUE],
                 attempts' = [attempts EXCEPT ![o] = @ + 1],
                 runs' = [runs EXCEPT ![o] = n]
          PROVE  /\ ProcType'
                 /\ \A p \in Ops \ {o} : proc'[p] = proc[p] /\ attempts'[p] = attempts[p]
                 /\ attempts'[o] = 1
      BY <1>0, <1>1, <2>2
    <2>3. runs = [runs EXCEPT ![o] = runs[o]]
      BY <1>0
    <2> QED BY <1>0, <2>1, <2>2, <2>3 DEF Spawn
  <1>4. TypeOK'
    <2>1. LockType'
      BY <1>0, EnqueuedType DEF IInv, TypeOK, LockType
    <2> QED BY <1>0, <1>2, <1>3, <2>1
            DEF IInv, TypeOK, SessionType, StorageType, files, tasks
  <1>5. LockInv' /\ FreshInv'
    <2>1. Isolated(c)
      BY <1>0, <1>2, EnqueueIsolates DEF IInv, Isolated, files
    <2>2. CallerLock(c)' /\ CallerFresh(c)'
      BY <1>2 DEF CallerLock, Completing, Reconciling, CallerFresh, Rewrites
    <2> QED BY <1>0, <2>1, <2>2, OthersKeep DEF IInv, LockInv, FreshInv
  <1>6. SpawnInv'
    <2>1. ASSUME NEW d \in Callers, pc'[d] = "spawn"
          PROVE  pc[d] = "spawn" /\ req[d].op \in Ops \ {o}
      BY <1>1, <1>2, <2>1 DEF Actors, IInv, TypeOK, SessionType, Request
    <2> QED BY <1>0, <1>1, <1>3, <2>1 DEF IInv, SpawnInv, files
  <1>7. ProcInv'
    <2>1. up = "up" /\ up' = "up"
      BY <1>0 DEF IInv, TypeOK, ProcInv
    <2> QED BY <1>0, <1>1, <1>2, <1>3, <2>1 DEF IInv, ProcInv, Actors
  <1> QED BY <1>4, <1>5, <1>6, <1>7 DEF IInv

-----------------------------------------------------------------------------
(* The shapes that the remaining steps of a caller have in common.          *)

\* The labels at which a caller holds no receipt it has read.
Plain == {"observe", "awaitHook", "pollHook", "listReceipts", "writeTask",
          "markDegraded"}

LEMMA CallerFacts ==
  ASSUME IInv, NEW c \in Callers
  PROVE  /\ c \in Actors /\ c \notin Ops /\ req[c].op \in Ops
         /\ req[c].batch \subseteq Ops /\ req[c].todo \subseteq Ops
  BY ConstantsAssumption DEF IInv, TypeOK, SessionType, Request, Actors

\* A caller moves on to a plain label.
LEMMA MoveInv ==
  ASSUME IInv, NEW c \in Callers, pc[c] # "idle",
         NEW l \in Plain, Goto(c, l), req' = req,
         l \in Completing => req[c].choice \in {"completed", "abandoned"},
         NEW s \in [Ops -> Receipt \cup {None}], seen' = [seen EXCEPT ![c] = s],
         LockType', StorageType', KeepsReceipts,
         \A o \in Ops : vis'[o] # vis[o] => Holds(c, exQ[o]),
         \A b \in Actors \ {c} : \A o \in Ops : Holds(b, exQ[o]) => Holds(b, exQ'[o]),
         UNCHANGED <<up, boot, procs, promised>>
  PROVE  IInv'
  <1>0. c \in Actors /\ c \notin Ops
    BY CallerFacts
  <1>1. pc'[c] = l /\ \A b \in Actors \ {c} : pc'[b] = pc[b]
    BY <1>0 DEF IInv, TypeOK, SessionType, Goto
  <1>2. TypeOK'
    <2>1. SessionType'
      BY <1>0, GotoType DEF IInv, TypeOK, SessionType, CallerPC, Plain
    <2> QED BY <2>1 DEF IInv, TypeOK, ProcType, procs
  <1>3. Isolated(c)
    BY <1>0, <1>1 DEF IInv, TypeOK, SessionType, Isolated
  <1>4. CallerLock(c)' /\ CallerFresh(c)' /\ pc'[c] # "spawn"
    BY <1>1 DEF CallerLock, Completing, Reconciling, CallerFresh, Rewrites, Plain
  <1> QED BY <1>0, <1>2, <1>3, <1>4, StepInv DEF procs

\* A caller reads the receipt under its lock, to write it in the next step.
LEMMA ReadToWriteInv ==
  ASSUME IInv, NEW c \in Callers, pc[c] # "idle", NEW l \in Rewrites,
         Holds(c, exQ[req[c].op]), ReadReceipt(req[c].op), vis[req[c].op] # None,
         Goto(c, l), seen' = [seen EXCEPT ![c][req[c].op] = vis[req[c].op]],
         UNCHANGED <<req, locks>>, UNCHANGED <<up, boot, procs, promised>>
  PROVE  IInv'
  <1>0. c \in Actors /\ c \notin Ops /\ req[c].op \in Ops
    BY CallerFacts
  <1>1. StorageType' /\ KeepsReceipts /\ vis' = vis
    BY <1>0, ReadType, ReadKeeps DEF IInv, TypeOK
  <1>2. pc'[c] = l /\ \A b \in Actors \ {c} : pc'[b] = pc[b]
    BY <1>0 DEF IInv, TypeOK, SessionType, Goto
  <1>3. seen'[c][req[c].op] = vis[req[c].op]
    BY <1>0 DEF IInv, TypeOK, SessionType
  <1>4. TypeOK'
    <2>1. SessionType'
      BY <1>0, GotoType DEF IInv, TypeOK, SessionType, StorageType, CallerPC, Rewrites
    <2> QED BY <1>1, <2>1 DEF IInv, TypeOK, ProcType, procs, LockType, locks
  <1>5. Isolated(c)
    BY <1>0, <1>1, <1>2 DEF IInv, TypeOK, SessionType, Isolated, locks
  <1>6. CallerLock(c)' /\ CallerFresh(c)' /\ pc'[c] # "spawn"
    BY <1>1, <1>2, <1>3 DEF CallerLock, Completing, Reconciling, CallerFresh, Rewrites, locks
  <1> QED BY <1>0, <1>1, <1>4, <1>5, <1>6, StepInv DEF procs

\* ... and the write, which ends the request or the hook.
LEMMA WriteReturnInv ==
  ASSUME IInv, NEW c \in Callers, pc[c] \in Rewrites, NEW r \in Receipt,
         Written(req[c].op, r) \/ WriteFailed(req[c].op, r), Return(c),
         UNCHANGED <<up, boot, procs, promised>>
  PROVE  IInv'
  <1>0. pc[c] # "idle" /\ req[c].op \in Ops /\ Holds(c, exQ[req[c].op])
    BY CallerFacts DEF IInv, LockInv, CallerLock, Rewrites
  <1>1. StorageType' /\ KeepsReceipts
        /\ \A q \in Ops : vis'[q] # vis[q] => q = req[c].op
    BY <1>0, WriteType, WriteKeeps DEF IInv, TypeOK
  <1> QED BY <1>0, <1>1, ReturnInv DEF IInv, TypeOK

\* A read after which the request returns, whatever it tells the client.
LEMMA ReadReturnInv ==
  ASSUME IInv, NEW c \in Callers, pc[c] # "idle", NEW o \in Ops,
         ReadReceipt(o) \/ ReadTask \/ ReadFailed, Return(c),
         UNCHANGED <<up, boot, procs>>, promised' \in [Ops -> SUBSET Settled]
  PROVE  IInv'
  <1>1. StorageType' /\ KeepsReceipts /\ vis' = vis
    BY ReadType, ReadKeeps DEF IInv, TypeOK
  <1> QED BY <1>1, ReturnInv

LEMMA DegradeIsolates ==
  ASSUME TypeOK, NEW c \in Callers, req[c].op \in Ops, Holds(c, exQ[req[c].op]), Degrade(c)
  PROVE  /\ LockType'
         /\ \A b \in Actors \ {c} : \A o \in Ops : Holds(b, exQ[o]) => Holds(b, exQ'[o])
  <1> DEFINE p == req[c].op
  <1>1. c \in Actors /\ exQ[p] \in Seq(Actors) /\ exQ[p] # <<>>
    BY DEF TypeOK, LockType, Actors, Holds
  <1>2. exQ' = [exQ EXCEPT ![p] = Append(Tail(exQ[p]), c)] /\ wsQ' = wsQ
    BY DEF Degrade
  <1>3. Append(Tail(exQ[p]), c) \in Seq(Actors)
    BY <1>1
  <1>4. LockType'
    BY <1>2, <1>3 DEF TypeOK, LockType
  <1>5. ASSUME NEW b \in Actors \ {c}, NEW o \in Ops, Holds(b, exQ[o])
        PROVE  Holds(b, exQ'[o])
    <2>1. o # p
      BY <1>5 DEF Holds
    <2> QED BY <1>2, <1>5, <2>1 DEF TypeOK, LockType
  <1> QED BY <1>4, <1>5

LEMMA DegradeInv ==
  ASSUME IInv, NEW c \in Callers, pc[c] # "idle",
         Holds(c, exQ[req[c].op]), Degrade(c), StorageType', KeepsReceipts,
         \A o \in Ops : vis'[o] # vis[o] => o = req[c].op,
         UNCHANGED <<up, boot, procs, promised>>
  PROVE  IInv'
  BY CallerFacts, UnreadType, MoveInv, DegradeIsolates
  DEF IInv, Degrade, Plain, Completing

-----------------------------------------------------------------------------
(* The remaining steps of a caller.                                         *)

LEMMA MarkRunningInv ==
  ASSUME IInv, NEW c \in Callers, MarkRunning(c)
  PROVE  IInv'
  <1> DEFINE o == req[c].op
  <1>0. /\ pc[c] = "markRunning" /\ Holds(c, exQ[o]) /\ o \in Ops
        /\ UNCHANGED <<up, boot, procs, promised>>
        /\ ReadReceipt(o) \/ ReadFailed
    BY CallerFacts DEF MarkRunning
  <1>1. StorageType' /\ KeepsReceipts /\ vis' = vis
    BY <1>0, ReadType, ReadKeeps DEF IInv, TypeOK
  <1>2. CASE /\ ReadReceipt(o) /\ vis[o] # None /\ Goto(c, "writeRunning")
             /\ seen' = [seen EXCEPT ![c][o] = vis[o]] /\ UNCHANGED <<req, locks>>
    BY <1>0, <1>2, ReadToWriteInv DEF Rewrites
  <1>3. CASE Goto(c, "observe") /\ ReleaseAll(c) /\ UNCHANGED <<req, seen>>
    <2>1. /\ LockType'
          /\ \A b \in Actors \ {c} : \A q \in Ops : Holds(b, exQ[q]) => Holds(b, exQ'[q])
      BY <1>3, CallerFacts, ReleaseType, ReleaseIsolates DEF IInv
    <2>2. seen[c] \in [Ops -> Receipt \cup {None}] /\ seen' = [seen EXCEPT ![c] = seen[c]]
      BY <1>3, CallerFacts DEF IInv, TypeOK, SessionType
    <2> QED BY <1>0, <1>1, <1>3, <2>1, <2>2, MoveInv DEF Plain, Completing
  <1>4. CASE Degrade(c)
    BY <1>0, <1>1, <1>4, DegradeInv
  <1> QED BY <1>2, <1>3, <1>4 DEF MarkRunning

LEMMA MarkRunningWriteInv ==
  ASSUME IInv, NEW c \in Callers, MarkRunningWrite(c)
  PROVE  IInv'
  <1> DEFINE o == req[c].op
             r == [seen[c][o] EXCEPT !.state = "running", !.session = attempts[o]]
  <1>0. /\ pc[c] = "writeRunning" /\ Holds(c, exQ[o]) /\ o \in Ops
        /\ UNCHANGED <<up, boot, procs, promised>>
        /\ Written(o, r) \/ WriteFailed(o, r)
        /\ seen[c][o] # None
    BY CallerFacts
    DEF MarkRunningWrite, IInv, LockInv, CallerLock, FreshInv, CallerFresh, Rewrites
  <1>1. r \in Receipt
    <2>1. seen[c][o] \in Receipt /\ attempts[o] \in Nat
      BY <1>0, CallerFacts DEF IInv, TypeOK, SessionType, ProcType
    <2> QED BY <2>1 DEF Receipt, Unsettled
  <1>2. /\ StorageType' /\ KeepsReceipts
        /\ \A q \in Ops : vis'[q] # vis[q] => q = o
    BY <1>0, <1>1, WriteType, WriteKeeps DEF IInv, TypeOK
  <1>3. CASE /\ Goto(c, "observe") /\ ReleaseAll(c)
             /\ seen' = [seen EXCEPT ![c] = Unread] /\ UNCHANGED req
    <2>1. /\ LockType'
          /\ \A b \in Actors \ {c} : \A q \in Ops : Holds(b, exQ[q]) => Holds(b, exQ'[q])
      BY <1>3, CallerFacts, ReleaseType, ReleaseIsolates DEF IInv
    <2> QED BY <1>0, <1>2, <1>3, <2>1, UnreadType, MoveInv DEF Plain, Completing
  <1>4. CASE Degrade(c)
    BY <1>0, <1>2, <1>4, DegradeInv
  <1> QED BY <1>3, <1>4 DEF MarkRunningWrite

LEMMA MarkDegradedInv ==
  ASSUME IInv, NEW c \in Callers, MarkDegraded(c)
  PROVE  IInv'
  <1> DEFINE o == req[c].op
  <1>0. /\ pc[c] = "markDegraded" /\ Holds(c, exQ[o]) /\ o \in Ops
        /\ UNCHANGED <<up, boot, procs, promised>>
        /\ promised \in [Ops -> SUBSET Settled]
    BY CallerFacts DEF MarkDegraded, IInv, TypeOK
  <1>1. CASE /\ ReadReceipt(o) /\ vis[o] # None /\ Goto(c, "writeDegraded")
             /\ seen' = [seen EXCEPT ![c][o] = vis[o]] /\ UNCHANGED <<req, locks>>
    BY <1>0, <1>1, ReadToWriteInv DEF Rewrites
  <1>2. CASE (ReadReceipt(o) \/ ReadFailed) /\ Return(c)
    BY <1>0, <1>2, ReadReturnInv
  <1> QED BY <1>1, <1>2 DEF MarkDegraded

LEMMA MarkDegradedWriteInv ==
  ASSUME IInv, NEW c \in Callers, MarkDegradedWrite(c)
  PROVE  IInv'
  <1>1. seen[c][req[c].op] \in Receipt
    BY CallerFacts
    DEF MarkDegradedWrite, IInv, TypeOK, SessionType, FreshInv, CallerFresh, Rewrites
  <1>2. [seen[c][req[c].op] EXCEPT !.degraded = TRUE] \in Receipt
    BY <1>1 DEF Receipt
  <1> QED BY <1>2, WriteReturnInv DEF MarkDegradedWrite, Rewrites

LEMMA MarkSpawnFailedInv ==
  ASSUME IInv, NEW c \in Callers, MarkSpawnFailed(c)
  PROVE  IInv'
  <1> DEFINE o == req[c].op
  <1>0. /\ pc[c] = "markFailed" /\ Holds(c, exQ[o]) /\ o \in Ops
        /\ UNCHANGED <<up, boot, procs, promised>>
        /\ promised \in [Ops -> SUBSET Settled]
    BY CallerFacts DEF MarkSpawnFailed, IInv, TypeOK
  <1>1. CASE /\ ReadReceipt(o) /\ vis[o] # None /\ Goto(c, "writeFailed")
             /\ seen' = [seen EXCEPT ![c][o] = vis[o]] /\ UNCHANGED <<req, locks>>
    BY <1>0, <1>1, ReadToWriteInv DEF Rewrites
  <1>2. CASE (ReadReceipt(o) \/ ReadFailed) /\ Return(c)
    BY <1>0, <1>2, ReadReturnInv
  <1> QED BY <1>1, <1>2 DEF MarkSpawnFailed

LEMMA MarkSpawnFailedWriteInv ==
  ASSUME IInv, NEW c \in Callers, MarkSpawnFailedWrite(c)
  PROVE  IInv'
  <1>1. seen[c][req[c].op] \in Receipt
    BY CallerFacts
    DEF MarkSpawnFailedWrite, IInv, TypeOK, SessionType, FreshInv, CallerFresh, Rewrites
  <1>2. [seen[c][req[c].op] EXCEPT !.state = "spawn_failed"] \in Receipt
    BY <1>1 DEF Receipt, Settled
  <1> QED BY <1>2, WriteReturnInv DEF MarkSpawnFailedWrite, Rewrites

LEMMA ToldType ==
  ASSUME TypeOK, NEW o \in Ops, NEW r
  PROVE  Told(o, r) \in [Ops -> SUBSET Settled]
  BY DEF TypeOK, Told

\* Observations only read, and end the request.
LEMMA ObserveInv ==
  ASSUME IInv, NEW c \in Callers,
         \/ ObserveRunning(c) \/ ObserveEvicted(c) \/ PollRecover(c)
         \/ AwaitHook(c) \/ PollExpires(c)
  PROVE  IInv'
  <1>0. req[c].op \in Ops /\ promised \in [Ops -> SUBSET Settled]
    BY CallerFacts DEF IInv, TypeOK
  <1>1. CASE ObserveRunning(c)
    BY <1>0, <1>1, ReadReturnInv, ToldType DEF ObserveRunning, IInv
  <1>2. CASE PollRecover(c)
    BY <1>0, <1>2, ReadReturnInv, ToldType DEF PollRecover, IInv
  <1>3. CASE AwaitHook(c)
    BY <1>0, <1>3, ReadReturnInv, ToldType DEF AwaitHook, IInv
  <1>4. CASE ObserveEvicted(c) \/ PollExpires(c)
    <2>1. StorageType' /\ KeepsReceipts /\ vis' = vis
      BY <1>4 DEF ObserveEvicted, PollExpires, IInv, TypeOK, StorageType, SpawnInv,
                  KeepsReceipts, files, tasks
    <2> QED BY <1>0, <1>4, <2>1, ReturnInv, ToldType
            DEF ObserveEvicted, PollExpires, IInv
  <1> QED BY <1>1, <1>2, <1>3, <1>4

LEMMA ObserveEndedInv ==
  ASSUME IInv, NEW c \in Callers, ObserveEnded(c)
  PROVE  IInv'
  <1>1. PICK l \in {"awaitHook", "pollHook"} : Goto(c, l)
    BY DEF ObserveEnded
  <1>2. /\ StorageType' /\ LockType' /\ KeepsReceipts /\ vis' = vis /\ exQ' = exQ
        /\ pc[c] # "idle"
    BY DEF ObserveEnded, IInv, TypeOK, StorageType, LockType, SpawnInv,
           KeepsReceipts, files, tasks, locks
  <1>3. seen[c] \in [Ops -> Receipt \cup {None}] /\ seen' = [seen EXCEPT ![c] = seen[c]]
    BY CallerFacts DEF ObserveEnded, IInv, TypeOK, SessionType
  <1> QED BY <1>1, <1>2, <1>3, MoveInv
      DEF ObserveEnded, Plain, Completing

LEMMA CompleteInv ==
  ASSUME IInv, NEW c \in Callers, CompleteTask(c) \/ ListReceipts(c) \/ WriteTask(c)
  PROVE  IInv'
  <1>0. /\ pc[c] # "idle" /\ UNCHANGED <<up, boot, procs, promised>>
        /\ req[c] \in Request /\ promised \in [Ops -> SUBSET Settled]
    BY DEF CompleteTask, ListReceipts, WriteTask, IInv, TypeOK, SessionType
  <1>1. /\ \E o \in Ops : TRUE
        /\ pc[c] \in Completing /\ req[c].choice \in {"completed", "abandoned"}
    BY ConstantsAssumption
    DEF CompleteTask, ListReceipts, WriteTask, IInv, LockInv, CallerLock, Completing
  <1>2. seen[c] \in [Ops -> Receipt \cup {None}]
        /\ (UNCHANGED seen => seen' = [seen EXCEPT ![c] = seen[c]])
    BY CallerFacts DEF IInv, TypeOK, SessionType
  <1>3. CASE CompleteTask(c)
    <2>1. StorageType' /\ KeepsReceipts /\ vis' = vis
      BY <1>1, <1>3, ReadType, ReadKeeps DEF CompleteTask, IInv, TypeOK
    <2>2. CASE Return(c)
      BY <1>0, <2>1, <2>2, ReturnInv
    <2>3. CASE Goto(c, "listReceipts") /\ UNCHANGED <<req, seen, locks>>
      BY <1>0, <1>1, <1>2, <2>1, <2>3, MoveInv DEF Plain, locks, IInv, TypeOK, LockType
    <2> QED BY <1>3, <2>2, <2>3 DEF CompleteTask
  <1>4. CASE ListReceipts(c)
    <2>1. StorageType' /\ KeepsReceipts /\ vis' = vis
      BY <1>4, FaultType
      DEF ListReceipts, ReadFailed, IInv, TypeOK, StorageType, SpawnInv,
          KeepsReceipts, files, tasks
    <2>2. CASE Return(c)
      BY <1>0, <2>1, <2>2, ReturnInv
    <2>3. CASE Goto(c, "writeTask") /\ UNCHANGED <<req, seen, locks>>
      BY <1>0, <1>1, <1>2, <2>1, <2>3, MoveInv DEF Plain, locks, IInv, TypeOK, LockType
    <2> QED BY <1>4, <2>2, <2>3 DEF ListReceipts
  <1>5. CASE WriteTask(c)
    <2>1. req[c].choice \in {"completed", "abandoned"}
      BY <1>5 DEF WriteTask, IInv, LockInv, CallerLock, Completing
    <2>2. StorageType' /\ KeepsReceipts /\ vis' = vis
      BY <1>5, <2>1, FaultType
      DEF WriteTask, IInv, TypeOK, StorageType, SpawnInv, KeepsReceipts, files
    <2> QED BY <1>0, <1>5, <2>2, ReturnInv DEF WriteTask
  <1> QED BY <1>3, <1>4, <1>5

-----------------------------------------------------------------------------
(* Reconciliation.                                                          *)

LEMMA FirstType ==
  ASSUME NEW S \in SUBSET Ops, NEW o \in First(S)
  PROVE  o \in Ops /\ o \in S
  BY DEF First

LEMMA ReconcileTaskInv ==
  ASSUME IInv, NEW c \in Callers, ReconcileTask(c)
  PROVE  IInv'
  <1>0. /\ pc[c] = "reconcile" /\ UNCHANGED <<up, boot, procs, promised>>
        /\ c \in Actors /\ c \notin Ops /\ req[c].todo \subseteq Ops
        /\ ReadTask \/ ReadFailed
        /\ promised \in [Ops -> SUBSET Settled] /\ \E o \in Ops : TRUE
    BY CallerFacts, ConstantsAssumption DEF ReconcileTask, IInv, TypeOK
  <1>1. StorageType' /\ KeepsReceipts /\ vis' = vis
    BY <1>0, ReadType, ReadKeeps DEF IInv, TypeOK
  <1>2. CASE Return(c)
    BY <1>0, <1>1, <1>2, ReturnInv
  <1>3. CASE /\ Goto(c, "lockReceipt") /\ UNCHANGED <<req, seen, wsQ>>
             /\ \E o \in First(req[c].todo) : exQ' = Enqueued(c, o)
    <2>1. PICK o \in Ops : exQ' = Enqueued(c, o)
      BY <1>0, <1>3, FirstType
    <2>2. pc'[c] = "lockReceipt" /\ \A b \in Actors \ {c} : pc'[b] = pc[b]
      BY <1>0, <1>3 DEF IInv, TypeOK, SessionType, Goto
    <2>3. TypeOK'
      <3>1. SessionType'
        BY <1>0, <1>3, GotoType DEF IInv, TypeOK, SessionType, CallerPC
      <3>2. LockType'
        BY <1>0, <1>3, <2>1, EnqueuedType DEF IInv, TypeOK, LockType
      <3> QED BY <1>0, <1>1, <3>1, <3>2 DEF IInv, TypeOK, ProcType, procs
    <2>4. Isolated(c)
      BY <1>0, <1>1, <1>3, <2>1, <2>2, EnqueueIsolates DEF IInv, Isolated
    <2>5. Taken(c)' = {}
      BY <1>0, <1>3 DEF Taken, IInv, LockInv, CallerLock
    <2>6. CallerLock(c)' /\ CallerFresh(c)'
      <3>1. req'[c] = req[c] /\ req[c].choice \in {"verified_no_retry", "external_effect_unknown"}
        BY <1>0, <1>3 DEF IInv, LockInv, CallerLock, Reconciling
      <3> QED BY <2>2, <2>5, <3>1
              DEF CallerLock, CallerFresh, Rewrites, Completing
    <2> QED BY <1>0, <1>1, <2>2, <2>3, <2>4, <2>6, StepInv DEF procs
  <1> QED BY <1>2, <1>3 DEF ReconcileTask

LEMMA LockReceiptInv ==
  ASSUME IInv, NEW c \in Callers, LockReceipt(c)
  PROVE  IInv'
  <1>0. /\ pc[c] = "lockReceipt" /\ UNCHANGED <<up, boot, procs, promised>>
        /\ c \in Actors /\ c \notin Ops /\ req[c].todo \subseteq Ops
        /\ req[c].batch \subseteq Ops
        /\ promised \in [Ops -> SUBSET Settled]
    BY CallerFacts DEF LockReceipt, IInv, TypeOK
  <1>1. PICK o \in First(req[c].todo) :
          /\ Holds(c, exQ[o])
          /\ \/ /\ ReadReceipt(o) /\ Reconcilable(vis[o], req[c].choice)
                /\ LockNext(c, o)
             \/ (ReadReceipt(o) \/ ReadFailed) /\ Return(c)
    BY DEF LockReceipt
  <1>2. o \in Ops /\ o \in req[c].todo
    BY <1>0, <1>1, FirstType
  <1>3. StorageType' /\ KeepsReceipts /\ vis' = vis
    BY <1>1, <1>2, ReadType, ReadKeeps DEF IInv, TypeOK
  <1>4. CASE Return(c)
    BY <1>0, <1>3, <1>4, ReturnInv
  <1>5. CASE Reconcilable(vis[o], req[c].choice) /\ LockNext(c, o)
    <2> DEFINE left == req[c].todo \ {o}
    <2>1. /\ req' = [req EXCEPT ![c].todo = left]
          /\ seen' = [seen EXCEPT ![c][o] = vis[o]] /\ wsQ' = wsQ
          /\ \/ left = {} /\ Goto(c, "commit") /\ exQ' = exQ
             \/ pc' = pc /\ \E p \in Ops : exQ' = Enqueued(c, p)
      BY <1>0, <1>5, FirstType DEF LockNext
    <2>2. /\ req'[c] = [req[c] EXCEPT !.todo = left]
          /\ \A b \in Callers \ {c} : req'[b] = req[b]
          /\ req' \in [Callers -> Request]
      <3>1. req[c] \in Request /\ req \in [Callers -> Request]
        BY DEF IInv, TypeOK, SessionType
      <3>2. [req[c] EXCEPT !.todo = left] \in Request
        BY <3>1 DEF Request
      <3> QED BY <2>1, <3>1, <3>2
    <2>3. /\ seen'[c] = [seen[c] EXCEPT ![o] = vis[o]]
          /\ \A b \in Actors \ {c} : seen'[b] = seen[b]
          /\ seen' \in [Actors -> [Ops -> Receipt \cup {None}]]
      BY <1>0, <1>2, <2>1 DEF IInv, TypeOK, SessionType, StorageType
    <2>4. /\ pc'[c] \in {"lockReceipt", "commit"}
          /\ pc'[c] = "commit" => left = {}
          /\ \A b \in Actors \ {c} : pc'[b] = pc[b]
          /\ pc' \in [Actors -> CallerPC \cup HookPC]
      BY <1>0, <2>1 DEF IInv, TypeOK, SessionType, Goto, CallerPC
    <2>5. /\ \A b \in Actors, p \in Ops : Holds(b, exQ[p]) => Holds(b, exQ'[p])
          /\ LockType'
      <3>1. CASE exQ' = exQ
        BY <2>1, <3>1 DEF IInv, TypeOK, LockType
      <3>2. CASE \E p \in Ops : exQ' = Enqueued(c, p)
        BY <1>0, <2>1, <3>2, EnqueuedType, EnqueueIsolates DEF IInv, TypeOK, LockType
      <3> QED BY <2>1, <3>1, <3>2
    <2>6. TypeOK'
      BY <1>0, <1>3, <2>2, <2>3, <2>4, <2>5 DEF IInv, TypeOK, SessionType, ProcType, procs
    <2>7. Isolated(c)
      BY <1>3, <2>2, <2>3, <2>4, <2>5 DEF Isolated
    <2>8. /\ Taken(c)' = Taken(c) \cup ({o} \cap req[c].batch)
          /\ req'[c].choice = req[c].choice /\ req'[c].todo = left
      BY <2>2 DEF Taken, IInv, TypeOK, SessionType, Request
    <2>9. CallerLock(c)'
      BY <1>0, <1>1, <1>2, <2>4, <2>5, <2>8
      DEF IInv, LockInv, CallerLock, Rewrites, Completing, Reconciling, Taken
    <2>10. CallerFresh(c)'
      <3>1. vis[o] # None
        BY <1>5 DEF Reconcilable
      <3>2. \A p \in Taken(c) : seen[c][p] # None /\ seen[c][p] = vis[p]
        BY <1>0 DEF IInv, FreshInv, CallerFresh
      <3>3. \A p \in Ops : seen'[c][p] = IF p = o THEN vis[o] ELSE seen[c][p]
        BY <2>3, <1>0 DEF IInv, TypeOK, SessionType
      <3>4. Taken(c) \subseteq Ops
        BY <1>0 DEF Taken
      <3> QED BY <1>0, <1>3, <2>4, <2>8, <3>1, <3>2, <3>3, <3>4 DEF CallerFresh, Rewrites
    <2> QED BY <1>0, <1>3, <2>4, <2>6, <2>7, <2>9, <2>10, StepInv DEF procs
  <1> QED BY <1>1, <1>4, <1>5

LEMMA CommitReconciliationInv ==
  ASSUME IInv, NEW c \in Callers, CommitReconciliation(c)
  PROVE  IInv'
  <1> DEFINE after == [o \in Ops |->
               IF o \in req[c].batch
               THEN [seen[c][o] EXCEPT !.resolution = req[c].choice] ELSE vis[o]]
             afterDur == [o \in Ops |->
               IF o \in req[c].batch
               THEN [seen[c][o] EXCEPT !.resolution = req[c].choice] ELSE dur[o]]
  <1>0. /\ pc[c] = "commit" /\ UNCHANGED <<up, boot, procs, promised>> /\ Return(c)
        /\ \/ vis' = after /\ dur' = afterDur /\ UNCHANGED <<tasks, faults>>
           \/ Fault /\ vis' \in {vis, after} /\ UNCHANGED <<dur, tasks>>
        /\ promised \in [Ops -> SUBSET Settled]
    BY DEF CommitReconciliation, IInv, TypeOK
  <1>1. /\ req[c].choice \in {"verified_no_retry", "external_effect_unknown"}
        /\ \A o \in req[c].batch :
             Holds(c, exQ[o]) /\ seen[c][o] # None /\ seen[c][o] = vis[o]
    BY <1>0 DEF IInv, LockInv, FreshInv, CallerLock, CallerFresh, Reconciling, Taken
  <1>2. \A o \in Ops : o \in req[c].batch =>
          [seen[c][o] EXCEPT !.resolution = req[c].choice] \in Receipt
    <2>1. \A o \in Ops : o \in req[c].batch => seen[c][o] \in Receipt
      BY <1>1, CallerFacts DEF IInv, TypeOK, SessionType
    <2> QED BY <1>1, <2>1 DEF Receipt
  <1>3. /\ vis \in [Ops -> Receipt \cup {None}] /\ dur \in [Ops -> Receipt \cup {None}]
        /\ after \in [Ops -> Receipt \cup {None}] /\ afterDur \in [Ops -> Receipt \cup {None}]
        /\ \A o \in Ops \cap req[c].batch : after[o] # None /\ afterDur[o] # None
        /\ \A o \in Ops \ req[c].batch : after[o] = vis[o] /\ afterDur[o] = dur[o]
    BY <1>2, NoneAssumption DEF IInv, TypeOK, StorageType
  <1> HIDE DEF after, afterDur
  <1>4. StorageType'
    BY <1>0, <1>3, FaultType DEF IInv, TypeOK, StorageType, tasks
  <1>5. KeepsReceipts
    BY <1>0, <1>1, <1>3, NoneAssumption DEF IInv, SpawnInv, KeepsReceipts
  <1>6. \A o \in Ops : vis'[o] # vis[o] => Holds(c, exQ[o])
    BY <1>0, <1>1, <1>3
  <1> QED BY <1>0, <1>4, <1>5, <1>6, ReturnInv

-----------------------------------------------------------------------------
(* The process and its hook.                                                *)

LEMMA OpFacts == ASSUME NEW o \in Ops PROVE o \in Actors /\ o \notin Callers
  BY ConstantsAssumption DEF Actors

LEMMA FinishInv ==
  ASSUME IInv, NEW o \in Ops, Finish(o)
  PROVE  IInv'
  <1>0. /\ proc[o] \in {"alive", "stillborn"} /\ Goto(o, "markTerminal")
        /\ proc' = [proc EXCEPT ![o] = IF @ = "alive" THEN "exited" ELSE "spawn_failed"]
        /\ exQ' = Enqueued(o, o)
        /\ UNCHANGED <<up, boot, req, seen, wsQ, files, tasks, managed, attempts, runs,
                       promised, faults>>
        /\ o \in Actors /\ o \notin Callers
    BY OpFacts DEF Finish
  <1>1. pc'[o] = "markTerminal" /\ \A b \in Actors \ {o} : pc'[b] = pc[b]
    BY <1>0 DEF Goto, IInv, TypeOK, SessionType
  <1>2. /\ proc'[o] \in Settled /\ \A p \in Ops \ {o} : proc'[p] = proc[p]
        /\ proc' \in [Ops -> {"none", "alive", "stillborn"} \cup Settled]
    BY <1>0 DEF IInv, TypeOK, ProcType, Settled
  <1>3. TypeOK'
    <2>1. SessionType'
      BY <1>0, GotoType DEF IInv, TypeOK, SessionType, HookPC
    <2>2. LockType'
      BY <1>0, EnqueuedType DEF IInv, TypeOK, LockType
    <2> QED BY <1>0, <1>2, <2>1, <2>2
            DEF IInv, TypeOK, StorageType, ProcType, files, tasks
  <1>4. Isolated(o)
    BY <1>0, <1>1, EnqueueIsolates DEF IInv, Isolated, files
  <1>5. HookLock(o)' /\ HookFresh(o)'
    BY <1>1 DEF HookLock, HookFresh
  <1>6. LockInv' /\ FreshInv'
    BY <1>0, <1>4, <1>5, OthersKeep DEF IInv, LockInv, FreshInv
  <1>7. SpawnInv'
    BY <1>0, <1>1 DEF IInv, SpawnInv, files, Actors
  <1>8. ProcInv'
    BY <1>0, <1>1, <1>2 DEF IInv, ProcInv, Actors
  <1> QED BY <1>3, <1>6, <1>7, <1>8 DEF IInv

LEMMA HookDoneInv ==
  ASSUME IInv, NEW o \in Ops, pc[o] # "idle", HookDone(o),
         StorageType', KeepsReceipts,
         \A p \in Ops : vis'[p] # vis[p] => Holds(o, exQ[p]),
         UNCHANGED <<up, boot, procs, promised>>
  PROVE  IInv'
  <1>1. TypeOK'
    BY HookDoneType DEF IInv, TypeOK, ProcType, procs
  <1>2. Isolated(o)
    BY ReleaseIsolates, OpFacts
    DEF IInv, TypeOK, SessionType, Isolated, HookDone, Goto
  <1>3. pc'[o] = "idle"
    BY OpFacts DEF IInv, TypeOK, SessionType, HookDone, Goto
  <1>4. HookLock(o)' /\ HookFresh(o)'
    BY <1>3 DEF HookLock, HookFresh
  <1> QED BY <1>1, <1>2, <1>3, <1>4, OpFacts, StepInv DEF procs

LEMMA MarkTerminalInv ==
  ASSUME IInv, NEW o \in Ops, MarkTerminal(o)
  PROVE  IInv'
  <1>0. /\ pc[o] = "markTerminal" /\ Holds(o, exQ[o]) /\ o \in Actors /\ o \notin Callers
        /\ UNCHANGED <<up, boot, procs, promised>>
        /\ ReadReceipt(o) \/ ReadFailed
    BY OpFacts DEF MarkTerminal
  <1>1. StorageType' /\ KeepsReceipts /\ vis' = vis
    BY <1>0, ReadType, ReadKeeps DEF IInv, TypeOK
  <1>2. CASE HookDone(o)
    BY <1>0, <1>1, <1>2, HookDoneInv
  <1>3. CASE /\ Accepts(vis[o]) /\ Goto(o, "writeTerminal")
             /\ seen' = [seen EXCEPT ![o][o] = vis[o]] /\ UNCHANGED <<req, locks>>
    <2>1. pc'[o] = "writeTerminal" /\ \A b \in Actors \ {o} : pc'[b] = pc[b]
      BY <1>0, <1>3 DEF IInv, TypeOK, SessionType, Goto
    <2>2. /\ seen'[o][o] = vis[o] /\ vis[o] # None
          /\ \A b \in Actors \ {o} : seen'[b] = seen[b]
          /\ seen' \in [Actors -> [Ops -> Receipt \cup {None}]]
      BY <1>0, <1>3 DEF Accepts, IInv, TypeOK, SessionType, StorageType
    <2>3. TypeOK'
      <3>1. SessionType'
        BY <1>0, <1>3, <2>2, GotoType DEF IInv, TypeOK, SessionType, HookPC
      <3> QED BY <1>0, <1>1, <1>3, <3>1 DEF IInv, TypeOK, ProcType, procs, LockType, locks
    <2>4. Isolated(o)
      BY <1>1, <1>3, <2>1, <2>2 DEF Isolated, locks
    <2>5. HookLock(o)' /\ HookFresh(o)'
      BY <1>0, <1>1, <1>3, <2>2 DEF HookLock, HookFresh, locks
    <2> QED BY <1>0, <1>1, <2>1, <2>3, <2>4, <2>5, StepInv DEF procs
  <1> QED BY <1>2, <1>3 DEF MarkTerminal

LEMMA MarkTerminalWriteInv ==
  ASSUME IInv, NEW o \in Ops, MarkTerminalWrite(o)
  PROVE  IInv'
  <1> DEFINE r == [seen[o][o] EXCEPT !.state = proc[o], !.session = attempts[o]]
  <1>0. /\ pc[o] = "writeTerminal" /\ HookDone(o)
        /\ UNCHANGED <<up, boot, procs, promised>>
        /\ Written(o, r) \/ WriteFailed(o, r)
        /\ Holds(o, exQ[o]) /\ seen[o][o] # None /\ proc[o] \in Settled
    BY DEF MarkTerminalWrite, IInv, LockInv, HookLock, FreshInv, HookFresh, ProcInv
  <1>1. r \in Receipt
    <2>1. seen[o][o] \in Receipt /\ attempts[o] \in Nat
      BY <1>0, OpFacts DEF IInv, TypeOK, SessionType, ProcType
    <2> QED BY <1>0, <2>1 DEF Receipt
  <1>2. /\ StorageType' /\ KeepsReceipts
        /\ \A p \in Ops : vis'[p] # vis[p] => p = o
    BY <1>0, <1>1, WriteType, WriteKeeps DEF IInv, TypeOK
  <1> QED BY <1>0, <1>2, HookDoneInv

LEMMA EvictInv ==
  ASSUME IInv, NEW o \in Ops, Evict(o)
  PROVE  IInv'
  <1>1. TypeOK'
    BY DEF Evict, IInv, TypeOK, SessionType, LockType, StorageType, ProcType,
           session, locks, files, tasks
  <1>2. LockInv' /\ FreshInv'
    BY DEF Evict, IInv, LockInv, FreshInv, CallerLock, CallerFresh, HookLock,
           HookFresh, Taken, session, locks, files
  <1>3. SpawnInv' /\ ProcInv'
    BY DEF Evict, IInv, SpawnInv, ProcInv, session, files
  <1> QED BY <1>1, <1>2, <1>3 DEF IInv

-----------------------------------------------------------------------------
(* Restart.                                                                 *)

\* While nobody is at work, nobody can be wrong about a lock or a receipt.
LEMMA IdleInv ==
  ASSUME \A a \in Actors : pc'[a] = "idle"
  PROVE  LockInv' /\ FreshInv'
  BY DEF LockInv, FreshInv, CallerLock, CallerFresh, HookLock, HookFresh,
         Completing, Reconciling, Rewrites, Actors

\* A new server process: nobody is at work, and every durable receipt is there.
LEMMA NewBootInv ==
  ASSUME IInv, NewBoot, StorageType', UNCHANGED promised,
         \A o \in Ops : /\ dur[o] # None => dur'[o] # None
                        /\ vis'[o] = None => dur'[o] = None
  PROVE  IInv'
  <1>1. /\ boot' \in 1..MaxBoots /\ up' = "booting"
        /\ pc' = [a \in Actors |-> "idle"]
        /\ attempts' = attempts /\ runs' = runs
    BY ConstantsAssumption DEF NewBoot, IInv, TypeOK
  <1>2. TypeOK'
    <2>1. SessionType'
      BY <1>1, NoRequestType, UnreadType DEF NewBoot, SessionType, CallerPC
    <2>2. LockType' /\ ProcType'
      BY <1>1 DEF NewBoot, IInv, TypeOK, LockType, ProcType
    <2> QED BY <1>1, <2>1, <2>2 DEF IInv, TypeOK
  <1>3. \A a \in Actors : pc'[a] = "idle"
    BY <1>1
  <1>4. LockInv' /\ FreshInv'
    BY <1>3, IdleInv
  <1>5. SpawnInv'
    BY <1>1, <1>3 DEF IInv, SpawnInv, Actors
  <1>6. ProcInv'
    BY <1>1, <1>3 DEF NewBoot, ProcInv, Actors
  <1> QED BY <1>2, <1>4, <1>5, <1>6 DEF IInv

LEMMA CrashInv ==
  ASSUME IInv, Crash
  PROVE  IInv'
  <1>1. StorageType' /\ promised' = promised
    BY DEF Crash, NewBoot, IInv, TypeOK, StorageType, files, tasks
  <1>2. \A o \in Ops : /\ dur[o] # None => dur'[o] # None
                       /\ vis'[o] = None => dur'[o] = None
    BY DEF Crash, IInv, SpawnInv, files
  <1> QED BY <1>1, <1>2, NewBootInv DEF Crash

LEMMA PowerLossInv ==
  ASSUME IInv, PowerLoss
  PROVE  IInv'
  <1>1. PICK S \in SUBSET Ops :
          /\ vis' = [o \in Ops |-> IF o \in S THEN dur[o] ELSE vis[o]]
          /\ dur' = vis' /\ taskVis' \in {taskVis, taskDur} /\ taskDur' = taskVis'
          /\ faults' = faults /\ NewBoot /\ promised' = promised
    BY DEF PowerLoss, NewBoot
  <1>2. StorageType'
    BY <1>1 DEF IInv, TypeOK, StorageType
  <1>3. \A o \in Ops : /\ dur[o] # None => dur'[o] # None
                       /\ vis'[o] = None => dur'[o] = None
    BY <1>1 DEF IInv, SpawnInv
  <1> QED BY <1>1, <1>2, <1>3, NewBootInv

LEMMA RecoverReceiptInv ==
  ASSUME IInv, NEW o \in Ops, RecoverReceipt(o)
  PROVE  IInv'
  <1> DEFINE r == [vis[o] EXCEPT !.state = "unknown"]
  <1>0. up = "booting" /\ vis[o] # None /\ promised' = promised
    BY DEF RecoverReceipt, Lost
  <1>1. r \in Receipt
    <2>1. vis[o] \in Receipt
      BY <1>0 DEF IInv, TypeOK, StorageType
    <2> QED BY <2>1 DEF Receipt
  <1>2. CASE WriteFailed(o, r) /\ NewBoot
    BY <1>0, <1>1, <1>2, WriteType, WriteKeeps, NewBootInv DEF IInv, TypeOK, KeepsReceipts
  <1>3. CASE Written(o, r) /\ UNCHANGED <<up, boot, session, locks, procs>>
    <2>1. TypeOK'
      BY <1>0, <1>1, <1>3, WriteType
      DEF IInv, TypeOK, SessionType, LockType, ProcType, session, locks, procs
    <2>2. pc' = pc /\ \A a \in Actors : pc[a] = "idle"
      BY <1>0, <1>3 DEF IInv, ProcInv, session
    <2>3. LockInv' /\ FreshInv'
      BY <2>2, IdleInv
    <2>4. SpawnInv'
      BY <1>1, <1>3, <2>2, WriteKeeps
      DEF IInv, SpawnInv, KeepsReceipts, Actors, procs
    <2>5. ProcInv'
      BY <1>3, <2>2 DEF IInv, ProcInv, procs, Actors
    <2> QED BY <2>1, <2>3, <2>4, <2>5 DEF IInv
  <1> QED BY <1>2, <1>3 DEF RecoverReceipt

\* A step that changes no more than "up".
LEMMA QuietInv ==
  ASSUME IInv, up' \in {up, "up"},
         UNCHANGED <<boot, session, locks, files, tasks, procs, promised, faults>>
  PROVE  IInv'
  <1>1. TypeOK'
    BY DEF IInv, TypeOK, SessionType, LockType, StorageType, ProcType,
           session, locks, files, tasks, procs
  <1>2. LockInv' /\ FreshInv'
    BY DEF IInv, LockInv, FreshInv, CallerLock, CallerFresh, HookLock,
           HookFresh, Taken, session, locks, files
  <1>3. SpawnInv' /\ ProcInv'
    BY DEF IInv, SpawnInv, ProcInv, session, files, procs
  <1> QED BY <1>1, <1>2, <1>3 DEF IInv

-----------------------------------------------------------------------------
(* The theorems.                                                            *)

LEMMA ServeInv ==
  ASSUME IInv, NEW c \in Callers, Serve(c)
  PROVE  IInv'
  BY PrepareTaskInv, PrepareReadInv, PrepareWriteInv, SpawnStepInv, MarkRunningInv,
     MarkRunningWriteInv, MarkDegradedInv, MarkDegradedWriteInv, MarkSpawnFailedInv,
     MarkSpawnFailedWriteInv, ObserveInv, ObserveEndedInv, CompleteInv,
     ReconcileTaskInv, LockReceiptInv, CommitReconciliationInv
  DEF Serve

\* Every step, or stuttering, preserves the inductive invariant.
THEOREM Inductive == IInv /\ [Next]_vars => IInv'
  <1> SUFFICES ASSUME IInv, [Next]_vars PROVE IInv'
    OBVIOUS
  <1>1. ASSUME NEW c \in Callers, Call(c) \/ Serve(c) PROVE IInv'
    BY <1>1, CallInv, ServeInv
  <1>2. ASSUME NEW o \in Ops, Finish(o) \/ Hook(o) \/ Evict(o) \/ RecoverReceipt(o)
        PROVE IInv'
    BY <1>2, FinishInv, MarkTerminalInv, MarkTerminalWriteInv, EvictInv,
       RecoverReceiptInv DEF Hook
  <1>3. CASE BootDone
    BY <1>3, QuietInv DEF BootDone
  <1>4. CASE UNCHANGED vars
    BY <1>4, QuietInv DEF vars
  <1> QED BY <1>1, <1>2, <1>3, <1>4, CrashInv, PowerLossInv DEF Next

THEOREM Invariance == Spec => []IInv
  BY InitInv, Inductive, PTL DEF Spec

\* Every reachable state of the tracked execution has the declared types,
\* whatever the number of requests, operations, restarts and faults.
THEOREM TypeCorrect == Spec => []TypeOK
  <1>1. IInv => TypeOK
    BY DEF IInv
  <1> QED BY <1>1, Invariance, PTL

\* An operationId spawns at most one command (README 211-214), for every
\* number of clients that retry it, of restarts and of failed writes.
THEOREM AtMostOnceThm == Spec => []AtMostOnce
  <1>1. IInv => AtMostOnce
    BY DEF IInv, SpawnInv, AtMostOnce
  <1> QED BY <1>1, Invariance, PTL

\* A command that has been spawned has a receipt that a power loss keeps.
THEOREM SpawnIsRecordedThm == Spec => []SpawnIsRecorded
  <1>1. IInv => SpawnIsRecorded
    BY DEF IInv, SpawnInv, SpawnIsRecorded
  <1> QED BY <1>1, Invariance, PTL

-----------------------------------------------------------------------------
(***************************************************************************)
(* What the receipts promise: honesty, durability of what was told, the    *)
(* restart, and the refinement of AtMostOnceExecution.  All of it rests on *)
(* one fact about the files: a receipt is only ever replaced by one that   *)
(* follows it.                                                             *)
(***************************************************************************)
\* s may replace the receipt r: it is about the same call, a state that is
\* settled or unknown stays, and so does a resolution.
Follows(r, s) ==
  /\ s.input = r.input /\ s.boot = r.boot
  /\ r.state \notin Unsettled => s.state = r.state
  /\ r.resolution # "none" => s.resolution = r.resolution
  /\ s.state = "prepared" => r.state = "prepared"

\* r says nothing of o that is not so.
Sound(o, r) ==
  /\ r.boot <= boot
  /\ r.state = "unknown" => r.boot < boot
  /\ r.resolution # "none" => r.state = "unknown"
  /\ r.state = "exited" => runs[o] = 1
  /\ r.state = "spawn_failed" => runs[o] = 0

\* The receipt that is read follows the one that a power loss would leave.
OrderInv ==
  \A o \in Ops :
    /\ dur[o] # None => vis[o] # None /\ Follows(dur[o], vis[o])
    /\ dur[o] = None /\ vis[o] # None => vis[o].state \in {"prepared", "unknown"}

SoundInv ==
  \A o \in Ops : /\ vis[o] # None => Sound(o, vis[o])
                 /\ dur[o] # None => Sound(o, dur[o])

\* What an actor has read was durable then, and the durable receipt follows it.
SeenInv ==
  \A a \in Actors, o \in Ops :
    seen[a][o] # None => dur[o] # None /\ Follows(seen[a][o], dur[o])

RunsInv ==
  \A o \in Ops :
    /\ runs[o] \in {0, 1} /\ runs[o] <= attempts[o]
    /\ proc[o] \in {"alive", "exited"} => runs[o] = 1
    /\ proc[o] \in {"stillborn", "spawn_failed"} => runs[o] = 0

\* What an actor's step says of the operation it works on, and of what it read.
CallerWork(c) ==
  LET o == req[c].op IN
  /\ pc[c] = "spawn" => vis[o].state = "prepared" /\ dur[o].state = "prepared"
  /\ pc[c] \in {"markRunning", "writeRunning"} => attempts[o] = 1
  /\ pc[c] \in {"markFailed", "writeFailed"} =>
       /\ vis[o] # None /\ attempts[o] = 0
       /\ \A d \in Callers : pc[d] = "spawn" => req[d].op # o
  /\ pc[c] \in {"writeRunning", "writeFailed"} => seen[c][o].state = "prepared"
  /\ pc[c] \in {"lockReceipt", "commit"} =>
       \A p \in Taken(c) : /\ seen[c][p].state = "unknown"
                           /\ seen[c][p].resolution \in {"none", req[c].choice}
HookWork(o) == pc[o] = "writeTerminal" => seen[o][o].state \in Unsettled

WorkInv == (\A c \in Callers : CallerWork(c)) /\ (\A o \in Ops : HookWork(o))

FilesInv == OrderInv /\ SoundInv /\ NoGhostReceipt
HInv == FilesInv /\ SeenInv /\ VerifiedIsDurable /\ RunsInv /\ WorkInv

\* The task may be closed with this outcome, and the disk knows every receipt
\* that says so.
Closed(outcome) ==
  \A o \in Ops : /\ Closeable(vis[o], outcome) /\ Closeable(dur[o], outcome)
                 /\ vis[o] # None => dur[o] # None

TaskSteps == {"claim", "writePrepared", "listReceipts", "writeTask"}

\* Who works on the task holds its lock, and has found it active.
TaskWork(c) ==
  /\ pc[c] \in TaskSteps => Holds(c, wsQ) /\ taskVis = "active"
  /\ pc[c] = "writeTask" => Closed(req[c].choice)

TaskInv ==
  /\ \A c \in Callers : TaskWork(c)
  /\ taskDur # "active" => taskVis = taskDur
  /\ taskVis # "active" => Closed(taskVis)

-----------------------------------------------------------------------------
(* Following receipts.                                                      *)

LEMMA FollowsItself ==
  ASSUME NEW r
  PROVE  Follows(r, r)
  BY DEF Follows

LEMMA FollowsOn ==
  ASSUME NEW r, NEW s, NEW t, Follows(r, s), Follows(s, t)
  PROVE  Follows(r, t)
  BY DEF Follows

\* What a step does to the receipt of o: it stays, is replaced by one that
\* follows it, or is created; and the disk has an old or the new one.
Revised(o) ==
  /\ vis[o] # None /\ vis'[o] # None /\ Follows(vis[o], vis'[o])
  /\ Sound(o, vis'[o])
  /\ vis'[o].state \in Unsettled => vis'[o].boot = vis[o].boot
  /\ dur[o] = None => vis'[o].state \in {"prepared", "unknown"}

Created(o) ==
  /\ vis[o] = None /\ vis'[o] # None
  /\ vis'[o].state = "prepared" /\ vis'[o].boot = boot /\ vis'[o].resolution = "none"

ReceiptStep ==
  \A o \in Ops :
    /\ vis'[o] = vis[o] \/ Revised(o) \/ Created(o)
    /\ dur'[o] \in {dur[o], vis[o], vis'[o]}

\* What it has done to the disk afterwards.
LedgerStep ==
  \A o \in Ops :
    /\ dur[o] # None => dur'[o] # None /\ Follows(dur[o], dur'[o])
    /\ dur[o] = None /\ dur'[o] # None => dur'[o].state \in {"prepared", "unknown"}

LEMMA FilesStep ==
  ASSUME TypeOK, TypeOK', SpawnInv, FilesInv, ReceiptStep, UNCHANGED runs,
         UNCHANGED <<up, boot>> \/ (up' = "booting" /\ boot' = boot + 1)
  PROVE  FilesInv' /\ LedgerStep
  <1>0. boot \in Int /\ boot' \in {boot, boot + 1}
    BY ConstantsAssumption DEF TypeOK
  <1>1. ASSUME NEW o \in Ops
        PROVE  /\ dur'[o] # None => vis'[o] # None /\ Follows(dur'[o], vis'[o])
               /\ dur'[o] = None /\ vis'[o] # None => vis'[o].state \in {"prepared", "unknown"}
               /\ dur[o] # None => dur'[o] # None /\ Follows(dur[o], dur'[o])
               /\ dur[o] = None /\ dur'[o] # None => dur'[o].state \in {"prepared", "unknown"}
               /\ vis'[o] # None => Sound(o, vis'[o])
               /\ dur'[o] # None => Sound(o, dur'[o])
               /\ up' = "up" /\ vis'[o] # None /\ vis'[o].state \in Unsettled => vis'[o].boot = boot'
    <2>1. /\ dur[o] # None => vis[o] # None /\ Follows(dur[o], vis[o])
          /\ dur[o] = None /\ vis[o] # None => vis[o].state \in {"prepared", "unknown"}
          /\ vis[o] # None => Sound(o, vis[o])
          /\ dur[o] # None => Sound(o, dur[o])
          /\ up = "up" /\ vis[o] # None /\ vis[o].state \in Unsettled => vis[o].boot = boot
      BY DEF FilesInv, OrderInv, SoundInv, NoGhostReceipt
    <2>2. dur'[o] \in {dur[o], vis[o], vis'[o]}
      BY DEF ReceiptStep
    <2>3. CASE vis'[o] = vis[o]
      BY <2>1, <2>2, <2>3, FollowsItself
    <2>4. CASE Revised(o)
      <3>1. /\ vis[o] # None /\ vis'[o] # None /\ Follows(vis[o], vis'[o]) /\ Sound(o, vis'[o])
            /\ dur[o] = None => vis'[o].state \in {"prepared", "unknown"}
            /\ vis'[o].state \in Unsettled => vis'[o].boot = vis[o].boot /\ vis[o].state \in Unsettled
        BY <2>4 DEF Revised, Follows
      <3>2. dur[o] # None => Follows(dur[o], vis'[o])
        BY <2>1, <3>1, FollowsOn
      <3> QED BY <2>1, <2>2, <3>1, <3>2, FollowsItself
    <2>5. CASE Created(o)
      <3>1. vis[o] = None /\ dur[o] = None /\ vis'[o] # None /\ vis'[o].state = "prepared"
            /\ vis'[o].boot = boot /\ vis'[o].resolution = "none"
        BY <2>1, <2>5 DEF Created
      <3>2. Sound(o, vis'[o])
        BY <3>1 DEF Sound, TypeOK
      <3> QED BY <2>2, <3>1, <3>2, FollowsItself
    <2> QED BY <2>3, <2>4, <2>5 DEF ReceiptStep
  <1>2. OrderInv' /\ LedgerStep
    BY <1>1 DEF OrderInv, LedgerStep
  <1>3. SoundInv'
    <2>1. ASSUME NEW o \in Ops, NEW r \in Receipt, Sound(o, r)
          PROVE  /\ r.boot <= boot' /\ (r.state = "unknown" => r.boot < boot')
                 /\ r.resolution # "none" => r.state = "unknown"
                 /\ r.state = "exited" => runs'[o] = 1
                 /\ r.state = "spawn_failed" => runs'[o] = 0
      <3>1. r.boot \in Int
        BY <2>1 DEF Receipt
      <3> QED BY <1>0, <2>1, <3>1 DEF Sound
    <2>2. \A o \in Ops : /\ vis'[o] # None => vis'[o] \in Receipt /\ Sound(o, vis'[o])
                         /\ dur'[o] # None => dur'[o] \in Receipt /\ Sound(o, dur'[o])
      BY <1>1 DEF TypeOK, StorageType
    <2> QED BY <2>1, <2>2 DEF SoundInv, Sound
  <1>4. NoGhostReceipt'
    BY <1>1 DEF NoGhostReceipt
  <1> QED BY <1>2, <1>3, <1>4 DEF FilesInv

-----------------------------------------------------------------------------
(* Steps of one actor that start no command.                                *)

Alone(a) ==
  \A b \in Actors \ {a} :
    pc'[b] = pc[b] /\ seen'[b] = seen[b] /\ (b \in Callers => req'[b] = req[b])

\* a keeps what it has read, drops it, or reads what is durable from now on.
Reads(a) ==
  \A o \in Ops :
    seen'[a][o] \in {seen[a][o], None} \/ (seen'[a][o] = vis[o] /\ dur'[o] = vis[o])

\* A client is told nothing, or what the disk says.
Tells ==
  \A o \in Ops :
    \/ promised'[o] = promised[o]
    \/ \E s \in Settled : /\ promised'[o] = promised[o] \cup {s}
                          /\ dur'[o] # None /\ dur'[o].state = s

LEMMA ToldStep ==
  ASSUME TypeOK, VerifiedIsDurable, LedgerStep, Tells
  PROVE  VerifiedIsDurable'
  <1> SUFFICES ASSUME NEW o \in Ops, NEW s \in promised'[o]
               PROVE  dur'[o] # None /\ dur'[o].state = s
    BY DEF VerifiedIsDurable
  <1>1. CASE s \in promised[o]
    <2>1. dur[o] # None /\ dur[o].state = s /\ s \in Settled
      BY <1>1 DEF VerifiedIsDurable, TypeOK
    <2> QED BY <2>1 DEF LedgerStep, Follows, Settled, Unsettled
  <1> QED BY <1>1 DEF Tells

LEMMA SeenStep ==
  ASSUME SeenInv, LedgerStep, NEW a \in Actors, Alone(a), Reads(a)
  PROVE  SeenInv'
  <1> SUFFICES ASSUME NEW b \in Actors, NEW o \in Ops, seen'[b][o] # None
               PROVE  dur'[o] # None /\ Follows(seen'[b][o], dur'[o])
    BY DEF SeenInv
  <1>1. CASE seen'[b][o] = seen[b][o]
    <2>1. dur[o] # None /\ Follows(seen[b][o], dur[o])
      BY <1>1 DEF SeenInv
    <2>2. dur'[o] # None /\ Follows(dur[o], dur'[o])
      BY <2>1 DEF LedgerStep
    <2> QED BY <1>1, <2>1, <2>2, FollowsOn
  <1>2. CASE seen'[b][o] = dur'[o]
    BY <1>2, FollowsItself
  <1> QED BY <1>1, <1>2 DEF Alone, Reads

\* What the others know of their operations stays true.
LEMMA OthersWork ==
  ASSUME IInv, IInv', HInv, FilesInv', ReceiptStep, NEW a \in Actors, Alone(a),
         \A d \in Callers \ {a} : pc[d] = "spawn" => vis'[req[d].op].state = "prepared",
         UNCHANGED attempts,
         a \in Callers /\ pc'[a] = "spawn" => vis[req[a].op] = None /\ req'[a] = req[a]
  PROVE  /\ \A c \in Callers \ {a} : CallerWork(c)'
         /\ \A o \in Ops \ {a} : HookWork(o)'
  <1>1. ASSUME NEW c \in Callers \ {a} PROVE CallerWork(c)'
    <2> DEFINE o == req[c].op
    <2>1. /\ pc'[c] = pc[c] /\ seen'[c] = seen[c] /\ req'[c] = req[c] /\ o \in Ops
          /\ CallerWork(c)
      BY DEF Alone, Actors, HInv, WorkInv, IInv, TypeOK, SessionType, Request
    <2>2. ASSUME pc[c] = "spawn" PROVE vis'[o].state = "prepared" /\ dur'[o].state = "prepared"
      <3>1. vis'[o].state = "prepared" /\ dur'[o] # None
        BY <2>1, <2>2 DEF IInv, SpawnInv
      <3>2. Follows(dur'[o], vis'[o])
        BY <2>1, <3>1 DEF FilesInv, OrderInv
      <3> QED BY <3>1, <3>2 DEF Follows
    <2>3. ASSUME vis[o] # None PROVE vis'[o] # None
      BY <2>1, <2>3 DEF ReceiptStep, Revised, Created
    <2>4. ASSUME pc[c] \in {"markFailed", "writeFailed"}, NEW d \in Callers, pc'[d] = "spawn"
          PROVE  req'[d].op # o
      <3>1. CASE d = a
        BY <2>1, <2>4, <3>1 DEF CallerWork
      <3>2. CASE d # a
        BY <2>1, <2>4, <3>2 DEF CallerWork, Alone, Actors
      <3> QED BY <3>1, <3>2
    <2> QED BY <2>1, <2>2, <2>3, <2>4 DEF CallerWork, Taken
  <1>2. ASSUME NEW o \in Ops \ {a} PROVE HookWork(o)'
    BY DEF Alone, Actors, HInv, WorkInv, HookWork
  <1> QED BY <1>1, <1>2

LEMMA QuietStep ==
  ASSUME IInv, IInv', HInv, ReceiptStep, NEW a \in Actors, Alone(a), Reads(a), Tells,
         UNCHANGED <<up, boot, proc, attempts, runs>>,
         \A d \in Callers \ {a} : pc[d] = "spawn" => vis'[req[d].op].state = "prepared",
         a \in Callers /\ pc'[a] = "spawn" => vis[req[a].op] = None /\ req'[a] = req[a],
         a \in Callers => CallerWork(a)',
         a \in Ops => HookWork(a)'
  PROVE  HInv' /\ LedgerStep
  <1>1. FilesInv' /\ LedgerStep
    BY FilesStep DEF IInv, HInv
  <1>2. SeenInv' /\ VerifiedIsDurable'
    BY <1>1, SeenStep, ToldStep DEF IInv, HInv
  <1>3. WorkInv'
    BY <1>1, OthersWork DEF WorkInv
  <1>4. RunsInv'
    BY DEF HInv, RunsInv
  <1> QED BY <1>1, <1>2, <1>3, <1>4 DEF HInv

-----------------------------------------------------------------------------
(* The shapes that the steps have in common.                                *)

NoWork == {"idle", "prepare", "claim", "writePrepared", "markDegraded", "writeDegraded",
           "observe", "awaitHook", "poll", "pollHook", "complete", "listReceipts",
           "writeTask", "reconcile"}

LEMMA IdleWork ==
  ASSUME NEW c \in Callers, pc'[c] \in NoWork
  PROVE  CallerWork(c)'
  BY DEF CallerWork, NoWork

LEMMA ReturnAlone ==
  ASSUME IInv, NEW c \in Callers, Return(c)
  PROVE  Alone(c) /\ Reads(c) /\ pc'[c] = "idle" /\ CallerWork(c)'
  <1>1. pc'[c] = "idle" /\ c \in Actors
    BY DEF IInv, TypeOK, SessionType, Return, Goto, Actors
  <1>2. Alone(c) /\ Reads(c)
    BY DEF IInv, TypeOK, SessionType, Return, Goto, Actors, Alone, Reads, Unread
  <1> QED BY <1>1, <1>2, IdleWork DEF NoWork

LEMMA GotoAlone ==
  ASSUME IInv, NEW a \in Actors, NEW l, Goto(a, l), UNCHANGED <<req, seen>>
  PROVE  Alone(a) /\ Reads(a) /\ pc'[a] = l
  BY DEF IInv, TypeOK, SessionType, Goto, Alone, Reads

LEMMA GotoReading ==
  ASSUME IInv, NEW a \in Actors, NEW l, NEW o \in Ops, Goto(a, l), UNCHANGED req,
         seen' = [seen EXCEPT ![a][o] = vis[o]], ReadReceipt(o)
  PROVE  Alone(a) /\ Reads(a) /\ pc'[a] = l /\ seen'[a][o] = vis[o]
  BY DEF IInv, TypeOK, SessionType, StorageType, Goto, Alone, Reads, ReadReceipt

LEMMA ReadFiles ==
  ASSUME IInv, (\E o \in Ops : ReadReceipt(o)) \/ ReadTask \/ ReadFailed \/ UNCHANGED files
  PROVE  ReceiptStep /\ vis' = vis
  BY DEF IInv, TypeOK, StorageType, ReceiptStep, ReadReceipt, ReadTask, ReadFailed, files

LEMMA NothingTold ==
  ASSUME UNCHANGED promised
  PROVE  Tells
  BY DEF Tells

LEMMA ReceiptTold ==
  ASSUME IInv, NEW o \in Ops, NEW r, promised' \in {promised, Told(o, r)},
         r # None => dur'[o] # None /\ Follows(r, dur'[o])
  PROVE  Tells
  BY DEF IInv, TypeOK, Told, Tells, Follows, Settled, Unsettled

\* A step of a caller that changes no receipt and leads nowhere near a spawn.
LEMMA ReadStep ==
  ASSUME IInv, IInv', HInv, NEW c \in Callers, Alone(c), Reads(c), Tells,
         ReceiptStep, vis' = vis, UNCHANGED <<up, boot, procs>>,
         pc'[c] # "spawn", CallerWork(c)'
  PROVE  HInv' /\ LedgerStep
  <1>1. c \in Actors /\ c \notin Ops
    BY ConstantsAssumption DEF Actors
  <1>2. \A d \in Callers : pc[d] = "spawn" => vis'[req[d].op].state = "prepared"
    BY DEF HInv, WorkInv, CallerWork
  <1> QED BY <1>1, <1>2, QuietStep DEF procs

\* The same for a request that returns, told what it is told.
LEMMA ReturnStep ==
  ASSUME IInv, IInv', HInv, NEW c \in Callers, Return(c), Tells,
         ReceiptStep, vis' = vis, UNCHANGED <<up, boot, procs>>
  PROVE  HInv' /\ LedgerStep
  BY ReturnAlone, ReadStep

\* A written receipt follows the one it replaces.
LEMMA WriteFiles ==
  ASSUME IInv, HInv, NEW o \in Ops, NEW r, Written(o, r) \/ WriteFailed(o, r),
         vis[o] # None, r # None, Follows(vis[o], r), Sound(o, r), r.boot = vis[o].boot,
         dur[o] # None
  PROVE  /\ ReceiptStep /\ \A p \in Ops : vis'[p] # vis[p] => p = o
         /\ vis'[o] \in {vis[o], r}
  <1>1. \A p \in Ops \ {o} : vis'[p] = vis[p] /\ dur'[p] = dur[p]
    BY DEF IInv, TypeOK, StorageType, Written, WriteFailed
  <1>2. vis'[o] \in {vis[o], r} /\ dur'[o] \in {dur[o], vis'[o]}
    BY DEF IInv, TypeOK, StorageType, Written, WriteFailed
  <1>3. vis'[o] = vis[o] \/ Revised(o)
    BY <1>2 DEF Revised
  <1> QED BY <1>1, <1>2, <1>3 DEF ReceiptStep

-----------------------------------------------------------------------------
(* Each action keeps the invariant and advances the ledger.                 *)

LEMMA InitHistory == Init => HInv
  <1> SUFFICES ASSUME Init PROVE HInv
    OBVIOUS
  <1>1. FilesInv /\ SeenInv /\ VerifiedIsDurable /\ RunsInv
    BY DEF Init, FilesInv, OrderInv, SoundInv, NoGhostReceipt, SeenInv,
           VerifiedIsDurable, RunsInv, Unread
  <1>2. WorkInv
    BY DEF Init, WorkInv, CallerWork, HookWork, Actors
  <1> QED BY <1>1, <1>2 DEF HInv

LEMMA CallHistory ==
  ASSUME IInv, IInv', HInv, NEW c \in Callers, Call(c)
  PROVE  HInv' /\ LedgerStep
  <1>1. PICK l \in {"prepare", "poll", "complete", "reconcile"} :
          /\ Goto(c, l) /\ \A d \in Callers \ {c} : req'[d] = req[d]
          /\ UNCHANGED <<up, boot, seen, files, procs, promised>>
    BY DEF Call, ExecCall, PollCall, CompleteCall, ReconcileCall, IInv, TypeOK, SessionType
  <1>2. pc'[c] = l /\ Alone(c) /\ Reads(c)
    BY <1>1 DEF IInv, TypeOK, SessionType, Goto, Actors, Alone, Reads
  <1>3. CallerWork(c)' /\ pc'[c] # "spawn"
    BY <1>2, IdleWork DEF NoWork
  <1> QED BY <1>1, <1>2, <1>3, ReadFiles, NothingTold, ReadStep

LEMMA PrepareTaskHistory ==
  ASSUME IInv, IInv', HInv, NEW c \in Callers, PrepareTask(c)
  PROVE  HInv' /\ LedgerStep
  <1>1. (ReadTask \/ ReadFailed) /\ UNCHANGED <<up, boot, procs, promised>> /\ c \in Actors
    BY DEF PrepareTask, Actors
  <1>2. CASE Return(c)
    BY <1>1, <1>2, ReadFiles, NothingTold, ReturnStep
  <1>3. CASE Goto(c, "claim") /\ UNCHANGED <<req, seen>>
    <2>1. Alone(c) /\ Reads(c) /\ pc'[c] = "claim"
      BY <1>1, <1>3, GotoAlone
    <2> QED BY <1>1, <2>1, ReadFiles, NothingTold, IdleWork, ReadStep DEF NoWork
  <1> QED BY <1>2, <1>3 DEF PrepareTask

LEMMA PrepareReadHistory ==
  ASSUME IInv, IInv', HInv, NEW c \in Callers, PrepareRead(c)
  PROVE  HInv' /\ LedgerStep
  <1> DEFINE o == req[c].op
  <1>1. /\ ReadReceipt(o) \/ ReadFailed
        /\ UNCHANGED <<up, boot, procs>> /\ c \in Actors /\ o \in Ops
    BY DEF PrepareRead, Actors, IInv, TypeOK, SessionType, Request
  <1>2. ReceiptStep /\ vis' = vis
    BY <1>1, ReadFiles
  <1>3. CASE Return(c) /\ UNCHANGED promised
    BY <1>1, <1>2, <1>3, NothingTold, ReturnStep
  <1>4. CASE Return(c) /\ ReadReceipt(o) /\ promised' = Told(o, vis[o])
    <2>1. Tells
      <3>1. vis[o] # None => dur'[o] # None /\ Follows(vis[o], dur'[o])
        BY <1>1, <1>4, FollowsItself DEF ReadReceipt, IInv, TypeOK, StorageType
      <3> QED BY <1>1, <1>4, <3>1, ReceiptTold
    <2> QED BY <1>1, <1>2, <1>4, <2>1, ReturnStep
  <1>5. CASE /\ Goto(c, "writePrepared") /\ UNCHANGED <<req, seen, promised>>
    <2>1. Alone(c) /\ Reads(c) /\ pc'[c] = "writePrepared"
      BY <1>1, <1>5, GotoAlone
    <2> QED BY <1>1, <1>2, <1>5, <2>1, NothingTold, IdleWork, ReadStep DEF NoWork
  <1>6. CASE /\ Goto(c, "observe") /\ seen' = [seen EXCEPT ![c][o] = vis[o]]
             /\ ReadReceipt(o) /\ UNCHANGED <<req, promised>>
    <2>1. Alone(c) /\ Reads(c) /\ pc'[c] = "observe"
      BY <1>1, <1>6, GotoReading
    <2> QED BY <1>1, <1>2, <1>6, <2>1, NothingTold, IdleWork, ReadStep DEF NoWork
  <1> QED BY <1>3, <1>4, <1>5, <1>6 DEF PrepareRead

LEMMA PrepareWriteHistory ==
  ASSUME IInv, IInv', HInv, NEW c \in Callers, PrepareWrite(c)
  PROVE  HInv' /\ LedgerStep
  <1> DEFINE o == req[c].op  r == PreparedReceipt(req[c].input)
  <1>1. /\ UNCHANGED <<up, boot, procs, promised>> /\ c \in Actors /\ c \notin Ops /\ o \in Ops
        /\ vis[o] = None /\ r # None
        /\ pc[c] = "writePrepared"
    <2>1. r \in Receipt
      BY DEF PreparedReceipt, Receipt, IInv, TypeOK, SessionType, Request, Unsettled
    <2> QED BY <2>1, NoneAssumption, ConstantsAssumption
            DEF PrepareWrite, Actors, IInv, TypeOK, SessionType, Request, FreshInv, CallerFresh
  <1>2. /\ \A p \in Ops \ {o} : vis'[p] = vis[p] /\ dur'[p] = dur[p]
        /\ vis'[o] \in {vis[o], r} /\ dur'[o] \in {dur[o], vis'[o]}
    BY <1>1 DEF PrepareWrite, Written, WriteFailed, IInv, TypeOK, StorageType
  <1>3. vis'[o] = vis[o] \/ Created(o)
    BY <1>1, <1>2 DEF Created, PreparedReceipt
  <1>4. ReceiptStep
    BY <1>1, <1>2, <1>3 DEF ReceiptStep
  <1>5. \A d \in Callers : pc[d] = "spawn" => vis'[req[d].op].state = "prepared"
    <2> SUFFICES ASSUME NEW d \in Callers, pc[d] = "spawn"
                 PROVE  vis'[req[d].op].state = "prepared"
      OBVIOUS
    <2>1. req[d].op \in Ops /\ req[d].op # o /\ vis[req[d].op].state = "prepared"
      BY <1>1 DEF IInv, SpawnInv, HInv, WorkInv, CallerWork, TypeOK, SessionType, Request
    <2> QED BY <1>2, <2>1
  <1>6. CASE Return(c)
    BY <1>1, <1>4, <1>5, <1>6, ReturnAlone, NothingTold, QuietStep DEF procs
  <1>7. CASE Written(o, r) /\ Goto(c, "spawn") /\ UNCHANGED <<req, seen>>
    <2>1. Alone(c) /\ Reads(c) /\ pc'[c] = "spawn" /\ req'[c] = req[c]
      BY <1>1, <1>7, GotoAlone
    <2>2. vis'[o] = r /\ dur'[o] = r
      BY <1>1, <1>7 DEF Written, IInv, TypeOK, StorageType
    <2>3. CallerWork(c)'
      BY <2>1, <2>2 DEF CallerWork, PreparedReceipt
    <2> QED BY <1>1, <1>4, <1>5, <2>1, <2>3, NothingTold, QuietStep DEF procs
  <1> QED BY <1>6, <1>7 DEF PrepareWrite

\* Rewriting the receipt of o leaves alone those whose command may start.
LEMMA Spawners ==
  ASSUME IInv, HInv, NEW o \in Ops, \A p \in Ops : vis'[p] # vis[p] => p = o,
         NEW d \in Callers, pc[d] = "spawn",
         req[d].op = o => vis'[o].state = "prepared"
  PROVE  vis'[req[d].op].state = "prepared"
  <1>1. req[d].op \in Ops /\ vis[req[d].op].state = "prepared"
    BY DEF IInv, TypeOK, SessionType, Request, HInv, WorkInv, CallerWork
  <1> QED BY <1>1

LEMMA DegradeAlone ==
  ASSUME IInv, NEW c \in Callers, Degrade(c)
  PROVE  Alone(c) /\ Reads(c) /\ pc'[c] = "markDegraded" /\ CallerWork(c)'
  <1>1. pc'[c] = "markDegraded" /\ c \in Actors
    BY DEF IInv, TypeOK, SessionType, Degrade, Goto, Actors
  <1>2. Alone(c) /\ Reads(c)
    BY DEF IInv, TypeOK, SessionType, Degrade, Goto, Actors, Alone, Reads, Unread
  <1> QED BY <1>1, <1>2, IdleWork DEF NoWork

LEMMA MarkRunningHistory ==
  ASSUME IInv, IInv', HInv, NEW c \in Callers, MarkRunning(c)
  PROVE  HInv' /\ LedgerStep
  <1> DEFINE o == req[c].op
  <1>1. /\ ReadReceipt(o) \/ ReadFailed
        /\ UNCHANGED <<up, boot, procs, promised>> /\ c \in Actors /\ o \in Ops
        /\ attempts[o] = 1
    BY DEF MarkRunning, Actors, IInv, TypeOK, SessionType, Request, HInv, WorkInv, CallerWork
  <1>2. ReceiptStep /\ vis' = vis /\ Tells
    BY <1>1, ReadFiles, NothingTold
  <1>3. CASE Degrade(c)
    BY <1>1, <1>2, <1>3, DegradeAlone, ReadStep
  <1>4. CASE Goto(c, "observe") /\ UNCHANGED <<req, seen>>
    <2>1. Alone(c) /\ Reads(c) /\ pc'[c] = "observe"
      BY <1>1, <1>4, GotoAlone
    <2> QED BY <1>1, <1>2, <2>1, IdleWork, ReadStep DEF NoWork
  <1>5. CASE /\ Goto(c, "writeRunning") /\ seen' = [seen EXCEPT ![c][o] = vis[o]]
             /\ ReadReceipt(o) /\ vis[o].state = "prepared" /\ UNCHANGED req
    <2>1. Alone(c) /\ Reads(c) /\ pc'[c] = "writeRunning" /\ seen'[c][o] = vis[o]
      BY <1>1, <1>5, GotoReading
    <2>2. CallerWork(c)'
      BY <1>1, <1>5, <2>1 DEF CallerWork, procs
    <2> QED BY <1>1, <1>2, <2>1, <2>2, ReadStep
  <1> QED BY <1>3, <1>4, <1>5 DEF MarkRunning

LEMMA MarkRunningWriteHistory ==
  ASSUME IInv, IInv', HInv, NEW c \in Callers, MarkRunningWrite(c)
  PROVE  HInv' /\ LedgerStep
  <1> DEFINE o == req[c].op
             r == [seen[c][o] EXCEPT !.state = "running", !.session = attempts[o]]
  <1>1. /\ UNCHANGED <<up, boot, procs, promised>> /\ c \in Actors /\ c \notin Ops /\ o \in Ops
        /\ attempts[o] = 1 /\ vis[o] # None /\ seen[c][o] = vis[o] /\ vis[o] \in Receipt
        /\ vis[o].state = "prepared" /\ dur[o] # None /\ Sound(o, vis[o])
        /\ Written(o, r) \/ WriteFailed(o, r)
    <2>1. /\ pc[c] = "writeRunning" /\ c \in Actors /\ c \notin Ops /\ o \in Ops
          /\ Written(o, r) \/ WriteFailed(o, r)
          /\ UNCHANGED <<up, boot, procs, promised>>
      BY ConstantsAssumption
      DEF MarkRunningWrite, Actors, IInv, TypeOK, SessionType, Request
    <2>2. attempts[o] = 1 /\ vis[o] # None /\ seen[c][o] = vis[o] /\ vis[o].state = "prepared"
      BY <2>1 DEF IInv, FreshInv, CallerFresh, Rewrites, HInv, WorkInv, CallerWork
    <2> QED BY <2>1, <2>2 DEF IInv, TypeOK, StorageType, HInv, SeenInv, FilesInv, SoundInv
  <1>2. r \in Receipt /\ Follows(vis[o], r) /\ Sound(o, r) /\ r.boot = vis[o].boot
    <2>1. r \in Receipt
      <3>1. 1 \in Nat /\ attempts[o] = 1 /\ seen[c][o] \in Receipt
        BY <1>1
      <3> QED BY <3>1 DEF Receipt, Unsettled
    <2> QED BY <1>1, <2>1 DEF Receipt, Follows, Sound, Unsettled
  <1>3. ReceiptStep /\ \A p \in Ops : vis'[p] # vis[p] => p = o
    BY <1>1, <1>2, WriteFiles, NoneAssumption
  <1>4. \A d \in Callers : pc[d] = "spawn" => vis'[req[d].op].state = "prepared"
    <2>1. \A d \in Callers : pc[d] = "spawn" => req[d].op # o
      BY <1>1 DEF IInv, SpawnInv
    <2> QED BY <1>1, <1>3, <2>1, Spawners
  <1>5. CASE Degrade(c)
    BY <1>1, <1>3, <1>4, <1>5, DegradeAlone, NothingTold, QuietStep DEF procs
  <1>6. CASE Goto(c, "observe") /\ seen' = [seen EXCEPT ![c] = Unread] /\ UNCHANGED req
    <2>1. pc'[c] = "observe" /\ Alone(c) /\ Reads(c)
      BY <1>1, <1>6 DEF IInv, TypeOK, SessionType, Goto, Alone, Reads, Unread
    <2>2. CallerWork(c)'
      BY <2>1, IdleWork DEF NoWork
    <2> QED BY <1>1, <1>3, <1>4, <2>1, <2>2, NothingTold, QuietStep DEF procs
  <1> QED BY <1>5, <1>6 DEF MarkRunningWrite

LEMMA MarkDegradedHistory ==
  ASSUME IInv, IInv', HInv, NEW c \in Callers, MarkDegraded(c)
  PROVE  HInv' /\ LedgerStep
  <1> DEFINE o == req[c].op
  <1>1. /\ ReadReceipt(o) \/ ReadFailed
        /\ UNCHANGED <<up, boot, procs, promised>> /\ c \in Actors /\ o \in Ops
    BY DEF MarkDegraded, Actors, IInv, TypeOK, SessionType, Request
  <1>2. ReceiptStep /\ vis' = vis /\ Tells
    BY <1>1, ReadFiles, NothingTold
  <1>3. CASE Return(c)
    BY <1>1, <1>2, <1>3, ReturnStep
  <1>4. CASE /\ Goto(c, "writeDegraded") /\ seen' = [seen EXCEPT ![c][o] = vis[o]]
             /\ ReadReceipt(o) /\ UNCHANGED req
    <2>1. Alone(c) /\ Reads(c) /\ pc'[c] = "writeDegraded"
      BY <1>1, <1>4, GotoReading
    <2> QED BY <1>1, <1>2, <2>1, IdleWork, ReadStep DEF NoWork
  <1> QED BY <1>3, <1>4 DEF MarkDegraded

\* The degraded receipt keeps its state, so nobody's spawn is disturbed.
LEMMA MarkDegradedWriteHistory ==
  ASSUME IInv, IInv', HInv, NEW c \in Callers, MarkDegradedWrite(c)
  PROVE  HInv' /\ LedgerStep
  <1> DEFINE o == req[c].op
             r == [seen[c][o] EXCEPT !.degraded = TRUE]
  <1>1. /\ UNCHANGED <<up, boot, procs, promised>> /\ c \in Actors /\ c \notin Ops /\ o \in Ops
        /\ vis[o] # None /\ seen[c][o] = vis[o] /\ vis[o] \in Receipt
        /\ dur[o] # None /\ Sound(o, vis[o])
        /\ Written(o, r) \/ WriteFailed(o, r)
        /\ Return(c)
    <2>1. /\ pc[c] = "writeDegraded" /\ c \in Actors /\ c \notin Ops /\ o \in Ops
          /\ Written(o, r) \/ WriteFailed(o, r)
          /\ UNCHANGED <<up, boot, procs, promised>> /\ Return(c)
      BY ConstantsAssumption
      DEF MarkDegradedWrite, Actors, IInv, TypeOK, SessionType, Request
    <2>2. vis[o] # None /\ seen[c][o] = vis[o]
      BY <2>1 DEF IInv, FreshInv, CallerFresh, Rewrites
    <2> QED BY <2>1, <2>2 DEF IInv, TypeOK, StorageType, HInv, SeenInv, FilesInv, SoundInv
  <1>2. r \in Receipt /\ Follows(vis[o], r) /\ Sound(o, r) /\ r.boot = vis[o].boot
        /\ r.state = vis[o].state
    <2>1. r \in Receipt
      BY <1>1 DEF Receipt
    <2> QED BY <1>1, <2>1 DEF Receipt, Follows, Sound
  <1>3. /\ ReceiptStep /\ \A p \in Ops : vis'[p] # vis[p] => p = o
        /\ vis'[o] \in {vis[o], r}
    BY <1>1, <1>2, WriteFiles, NoneAssumption
  <1>4. ASSUME NEW d \in Callers, pc[d] = "spawn"
        PROVE  vis'[req[d].op].state = "prepared"
    <2>1. req[d].op = o => vis[o].state = "prepared"
      BY <1>4 DEF HInv, WorkInv, CallerWork
    <2> QED BY <1>1, <1>2, <1>3, <1>4, <2>1, Spawners
  <1> QED BY <1>1, <1>3, <1>4, ReturnAlone, NothingTold, QuietStep DEF procs

LEMMA MarkSpawnFailedHistory ==
  ASSUME IInv, IInv', HInv, NEW c \in Callers, MarkSpawnFailed(c)
  PROVE  HInv' /\ LedgerStep
  <1> DEFINE o == req[c].op
  <1>1. /\ ReadReceipt(o) \/ ReadFailed
        /\ UNCHANGED <<up, boot, procs, promised>> /\ c \in Actors /\ c \notin Ops /\ o \in Ops
        /\ vis[o] # None /\ attempts[o] = 0
        /\ \A d \in Callers : pc[d] = "spawn" => req[d].op # o
    BY ConstantsAssumption
    DEF MarkSpawnFailed, Actors, IInv, TypeOK, SessionType, Request, HInv, WorkInv, CallerWork
  <1>2. ReceiptStep /\ vis' = vis /\ Tells
    BY <1>1, ReadFiles, NothingTold
  <1>3. CASE Return(c)
    BY <1>1, <1>2, <1>3, ReturnStep
  <1>4. CASE /\ Goto(c, "writeFailed") /\ seen' = [seen EXCEPT ![c][o] = vis[o]]
             /\ ReadReceipt(o) /\ vis[o].state = "prepared" /\ UNCHANGED req
    <2>1. Alone(c) /\ Reads(c) /\ pc'[c] = "writeFailed" /\ seen'[c][o] = vis[o]
      BY <1>1, <1>4, GotoReading
    <2>2. \A d \in Callers : pc'[d] = "spawn" => pc[d] = "spawn"
      BY <2>1 DEF Alone, Actors
    <2>3. CallerWork(c)'
      BY <1>1, <1>2, <1>4, <2>1, <2>2 DEF CallerWork, procs
    <2> QED BY <1>1, <1>2, <2>1, <2>3, ReadStep
  <1> QED BY <1>3, <1>4 DEF MarkSpawnFailed

\* Whoever marks a spawn as failed is the only one who might have spawned.
LEMMA MarkSpawnFailedWriteHistory ==
  ASSUME IInv, IInv', HInv, NEW c \in Callers, MarkSpawnFailedWrite(c)
  PROVE  HInv' /\ LedgerStep
  <1> DEFINE o == req[c].op
             r == [seen[c][o] EXCEPT !.state = "spawn_failed"]
  <1>1. /\ UNCHANGED <<up, boot, procs, promised>> /\ c \in Actors /\ c \notin Ops /\ o \in Ops
        /\ vis[o] # None /\ seen[c][o] = vis[o] /\ vis[o] \in Receipt
        /\ vis[o].state = "prepared" /\ runs[o] = 0
        /\ \A d \in Callers : pc[d] = "spawn" => req[d].op # o
        /\ dur[o] # None /\ Sound(o, vis[o])
        /\ Written(o, r) \/ WriteFailed(o, r)
        /\ Return(c)
    <2>1. /\ pc[c] = "writeFailed" /\ c \in Actors /\ c \notin Ops /\ o \in Ops
          /\ Written(o, r) \/ WriteFailed(o, r)
          /\ UNCHANGED <<up, boot, procs, promised>> /\ Return(c)
      BY ConstantsAssumption
      DEF MarkSpawnFailedWrite, Actors, IInv, TypeOK, SessionType, Request
    <2>2. /\ vis[o] # None /\ seen[c][o] = vis[o] /\ vis[o].state = "prepared" /\ attempts[o] = 0
          /\ \A d \in Callers : pc[d] = "spawn" => req[d].op # o
      BY <2>1 DEF IInv, FreshInv, CallerFresh, Rewrites, HInv, WorkInv, CallerWork
    <2>3. runs[o] = 0
      BY <2>1, <2>2 DEF HInv, RunsInv
    <2> QED BY <2>1, <2>2, <2>3 DEF IInv, TypeOK, StorageType, HInv, SeenInv, FilesInv, SoundInv
  <1>2. r \in Receipt /\ Follows(vis[o], r) /\ Sound(o, r) /\ r.boot = vis[o].boot
    <2>1. r \in Receipt
      <3>1. seen[c][o] \in Receipt
        BY <1>1
      <3> QED BY <3>1 DEF Receipt, Settled
    <2> QED BY <1>1, <2>1 DEF Receipt, Follows, Sound, Unsettled
  <1>3. ReceiptStep /\ \A p \in Ops : vis'[p] # vis[p] => p = o
    BY <1>1, <1>2, WriteFiles, NoneAssumption
  <1>4. \A d \in Callers : pc[d] = "spawn" => vis'[req[d].op].state = "prepared"
    BY <1>1, <1>3, Spawners
  <1> QED BY <1>1, <1>3, <1>4, ReturnAlone, NothingTold, QuietStep DEF procs

\* What an actor has read may be told: the disk still says so.
LEMMA SeenTold ==
  ASSUME IInv, IInv', HInv, ReceiptStep, UNCHANGED <<up, boot, procs>>,
         NEW a \in Actors, NEW o \in Ops, promised' \in {promised, Told(o, seen[a][o])}
  PROVE  Tells
  <1>1. LedgerStep
    BY FilesStep DEF IInv, HInv, procs
  <1>2. seen[a][o] # None => dur'[o] # None /\ Follows(seen[a][o], dur'[o])
    <2> SUFFICES ASSUME seen[a][o] # None
                 PROVE  dur'[o] # None /\ Follows(seen[a][o], dur'[o])
      OBVIOUS
    <2>1. dur[o] # None /\ Follows(seen[a][o], dur[o])
      BY DEF HInv, SeenInv
    <2>2. dur'[o] # None /\ Follows(dur[o], dur'[o])
      BY <1>1, <2>1 DEF LedgerStep
    <2> QED BY <2>1, <2>2, FollowsOn
  <1> QED BY <1>2, ReceiptTold

\* ... and so may be what is read now.
LEMMA ReadTold ==
  ASSUME IInv, NEW o \in Ops, ReadReceipt(o), promised' \in {promised, Told(o, vis[o])}
  PROVE  Tells
  <1>1. vis[o] # None => dur'[o] # None /\ Follows(vis[o], dur'[o])
    BY FollowsItself DEF ReadReceipt, IInv, TypeOK, StorageType
  <1> QED BY <1>1, ReceiptTold

LEMMA ObserveHistory ==
  ASSUME IInv, IInv', HInv, NEW c \in Callers,
         \/ ObserveRunning(c) \/ ObserveEvicted(c) \/ PollRecover(c)
         \/ AwaitHook(c) \/ PollExpires(c)
  PROVE  HInv' /\ LedgerStep
  <1> DEFINE o == req[c].op
  <1>1. /\ c \in Actors /\ o \in Ops /\ Return(c) /\ UNCHANGED <<up, boot, procs>>
        /\ ReadReceipt(o) \/ ReadFailed \/ UNCHANGED files
        /\ \/ promised' \in {promised, Told(o, seen[c][o])}
           \/ ReadReceipt(o) /\ promised' = Told(o, vis[o])
    BY DEF ObserveRunning, ObserveEvicted, PollRecover, AwaitHook, PollExpires,
           Actors, IInv, TypeOK, SessionType, Request
  <1>2. ReceiptStep /\ vis' = vis
    BY <1>1, ReadFiles
  <1>3. Tells
    BY <1>1, <1>2, SeenTold, ReadTold
  <1> QED BY <1>1, <1>2, <1>3, ReturnStep

LEMMA ObserveEndedHistory ==
  ASSUME IInv, IInv', HInv, NEW c \in Callers, ObserveEnded(c)
  PROVE  HInv' /\ LedgerStep
  <1>1. PICK l \in {"pollHook", "awaitHook"} :
          /\ Goto(c, l) /\ UNCHANGED <<up, boot, req, seen, files, procs, promised>>
          /\ c \in Actors
    BY DEF ObserveEnded, Actors
  <1>2. Alone(c) /\ Reads(c) /\ pc'[c] = l
    BY <1>1, GotoAlone
  <1> QED BY <1>1, <1>2, ReadFiles, NothingTold, IdleWork, ReadStep DEF NoWork

LEMMA CompleteTaskHistory ==
  ASSUME IInv, IInv', HInv, NEW c \in Callers, CompleteTask(c)
  PROVE  HInv' /\ LedgerStep
  <1>1. (ReadTask \/ ReadFailed) /\ UNCHANGED <<up, boot, procs, promised>> /\ c \in Actors
    BY DEF CompleteTask, Actors
  <1>2. CASE Return(c)
    BY <1>1, <1>2, ReadFiles, NothingTold, ReturnStep
  <1>3. CASE Goto(c, "listReceipts") /\ UNCHANGED <<req, seen>>
    <2>1. Alone(c) /\ Reads(c) /\ pc'[c] = "listReceipts"
      BY <1>1, <1>3, GotoAlone
    <2> QED BY <1>1, <2>1, ReadFiles, NothingTold, IdleWork, ReadStep DEF NoWork
  <1> QED BY <1>2, <1>3 DEF CompleteTask

LEMMA ListReceiptsHistory ==
  ASSUME IInv, IInv', HInv, NEW c \in Callers, ListReceipts(c)
  PROVE  HInv' /\ LedgerStep
  <1>1. /\ UNCHANGED <<vis, up, boot, procs, promised>> /\ c \in Actors
        /\ dur' = vis \/ ReadFailed
        /\ \/ Return(c)
           \/ Goto(c, "writeTask") /\ UNCHANGED <<req, seen>>
    BY DEF ListReceipts, ReadFailed, files, Actors
  <1>2. ReceiptStep /\ vis' = vis
    BY <1>1 DEF ReceiptStep, ReadFailed, files
  <1>3. CASE Return(c)
    BY <1>1, <1>2, <1>3, NothingTold, ReturnStep
  <1>4. CASE Goto(c, "writeTask") /\ UNCHANGED <<req, seen>>
    <2>1. Alone(c) /\ Reads(c) /\ pc'[c] = "writeTask"
      BY <1>1, <1>4, GotoAlone
    <2> QED BY <1>1, <1>2, <2>1, NothingTold, IdleWork, ReadStep DEF NoWork
  <1> QED BY <1>1, <1>3, <1>4

LEMMA WriteTaskHistory ==
  ASSUME IInv, IInv', HInv, NEW c \in Callers, WriteTask(c)
  PROVE  HInv' /\ LedgerStep
  <1>1. UNCHANGED <<files, up, boot, procs, promised>> /\ Return(c)
    BY DEF WriteTask
  <1> QED BY <1>1, ReadFiles, NothingTold, ReturnStep

LEMMA ReconcileTaskHistory ==
  ASSUME IInv, IInv', HInv, NEW c \in Callers, ReconcileTask(c)
  PROVE  HInv' /\ LedgerStep
  <1>1. /\ ReadTask \/ ReadFailed
        /\ UNCHANGED <<up, boot, procs, promised>> /\ c \in Actors
        /\ Taken(c) = {}
    BY DEF ReconcileTask, Actors, IInv, LockInv, CallerLock
  <1>2. CASE Return(c)
    BY <1>1, <1>2, ReadFiles, NothingTold, ReturnStep
  <1>3. CASE Goto(c, "lockReceipt") /\ UNCHANGED <<req, seen>>
    <2>1. Alone(c) /\ Reads(c) /\ pc'[c] = "lockReceipt"
      BY <1>1, <1>3, GotoAlone
    <2>2. CallerWork(c)'
      BY <1>1, <1>3, <2>1 DEF CallerWork, Taken
    <2> QED BY <1>1, <2>1, <2>2, ReadFiles, NothingTold, ReadStep
  <1> QED BY <1>2, <1>3 DEF ReconcileTask

LEMMA LockReceiptHistory ==
  ASSUME IInv, IInv', HInv, NEW c \in Callers, LockReceipt(c)
  PROVE  HInv' /\ LedgerStep
  <1>1. PICK o \in Ops :
          \/ ReadReceipt(o) /\ Reconcilable(vis[o], req[c].choice) /\ LockNext(c, o)
          \/ (ReadReceipt(o) \/ ReadFailed) /\ Return(c)
    BY DEF LockReceipt, First, IInv, TypeOK, SessionType, Request
  <1>2. /\ UNCHANGED <<up, boot, procs, promised>> /\ c \in Actors /\ pc[c] = "lockReceipt"
        /\ req[c] \in Request
    BY DEF LockReceipt, Actors, IInv, TypeOK, SessionType
  <1>3. ReceiptStep /\ vis' = vis /\ Tells
    BY <1>1, <1>2, ReadFiles, NothingTold
  <1>4. CASE Return(c)
    BY <1>2, <1>3, <1>4, ReturnStep
  <1>5. CASE ReadReceipt(o) /\ Reconcilable(vis[o], req[c].choice) /\ LockNext(c, o)
    <2>1. /\ pc'[c] \in {"lockReceipt", "commit"}
          /\ \A a \in Actors \ {c} : pc'[a] = pc[a]
      BY <1>2, <1>5 DEF LockNext, Goto, IInv, TypeOK, SessionType
    <2>2. /\ seen' = [seen EXCEPT ![c][o] = vis[o]]
          /\ req' = [req EXCEPT ![c].todo = req[c].todo \ {o}]
      BY <1>5 DEF LockNext
    <2>3. Alone(c) /\ Reads(c) /\ seen'[c] = [seen[c] EXCEPT ![o] = vis[o]]
      BY <1>2, <1>5, <2>1, <2>2
      DEF Alone, Reads, ReadReceipt, IInv, TypeOK, SessionType, StorageType
    <2>4. /\ req'[c].batch = req[c].batch /\ req'[c].todo = req[c].todo \ {o}
          /\ req'[c].choice = req[c].choice
      BY <1>2, <2>2 DEF Request, IInv, TypeOK, SessionType
    <2>5. ASSUME NEW p \in Taken(c)'
          PROVE  /\ seen'[c][p].state = "unknown"
                 /\ seen'[c][p].resolution \in {"none", req'[c].choice}
      <3>1. CASE p = o
        BY <1>2, <1>5, <2>3, <2>4, <3>1 DEF Reconcilable, IInv, TypeOK, SessionType
      <3>2. CASE p # o
        <4>1. p \in Taken(c) /\ p \in Ops
          BY <1>2, <2>4, <2>5, <3>2 DEF Taken, Request
        <4>2. seen'[c][p] = seen[c][p]
          BY <1>2, <2>3, <3>2, <4>1 DEF IInv, TypeOK, SessionType
        <4> QED BY <1>2, <2>4, <4>1, <4>2 DEF HInv, WorkInv, CallerWork
      <3> QED BY <3>1, <3>2
    <2>6. CallerWork(c)'
      BY <2>1, <2>5 DEF CallerWork
    <2> QED BY <1>2, <1>3, <2>1, <2>3, <2>6, ReadStep
  <1> QED BY <1>1, <1>4, <1>5

\* Resolutions are written to receipts that are unknown and unresolved, or
\* resolved that way already.
LEMMA CommitHistory ==
  ASSUME IInv, IInv', HInv, NEW c \in Callers, CommitReconciliation(c)
  PROVE  HInv' /\ LedgerStep
  <1> DEFINE r(o) == [seen[c][o] EXCEPT !.resolution = req[c].choice]
  <1>1. /\ UNCHANGED <<up, boot, procs, promised>> /\ c \in Actors /\ c \notin Ops
        /\ pc[c] = "commit" /\ req[c] \in Request /\ Return(c)
        /\ req[c].choice \in {"verified_no_retry", "external_effect_unknown"}
        /\ req[c].todo = {}
    BY ConstantsAssumption DEF CommitReconciliation, Actors, IInv, TypeOK, SessionType,
       LockInv, CallerLock, Reconciling
  <1>2. ASSUME NEW o \in Ops
        PROVE  /\ vis'[o] = vis[o] \/ (o \in req[c].batch /\ vis'[o] = r(o))
               /\ dur'[o] \in {dur[o], vis'[o]}
    BY DEF CommitReconciliation
  <1>3. ASSUME NEW o \in Ops, o \in req[c].batch, vis'[o] = r(o)
        PROVE  Revised(o) /\ vis'[o].state = vis[o].state
    <2>1. /\ seen[c][o] = vis[o] /\ vis[o] # None /\ vis[o] \in Receipt
          /\ vis[o].state = "unknown" /\ vis[o].resolution \in {"none", req[c].choice}
      BY <1>1, <1>3 DEF Taken, IInv, FreshInv, CallerFresh, TypeOK, StorageType,
                        HInv, WorkInv, CallerWork
    <2>2. dur[o] # None /\ Sound(o, vis[o])
      BY <1>1, <2>1 DEF HInv, SeenInv, FilesInv, SoundInv
    <2>3. r(o) \in Receipt /\ r(o).state = "unknown"
      BY <1>1, <2>1 DEF Receipt
    <2>4. Follows(vis[o], r(o)) /\ Sound(o, r(o)) /\ r(o).boot = vis[o].boot
      BY <1>1, <2>1, <2>2, <2>3 DEF Receipt, Follows, Sound, Unsettled
    <2> QED BY <1>3, <2>1, <2>2, <2>3, <2>4, NoneAssumption DEF Revised
  <1>4. ReceiptStep
    <2> SUFFICES ASSUME NEW o \in Ops
                 PROVE  /\ vis'[o] = vis[o] \/ Revised(o) \/ Created(o)
                        /\ dur'[o] \in {dur[o], vis[o], vis'[o]}
      BY DEF ReceiptStep
    <2> QED BY <1>2, <1>3
  <1>5. ASSUME NEW d \in Callers, pc[d] = "spawn"
        PROVE  vis'[req[d].op].state = "prepared"
    <2>1. req[d].op \in Ops /\ vis[req[d].op].state = "prepared"
      BY <1>5 DEF IInv, TypeOK, SessionType, Request, HInv, WorkInv, CallerWork
    <2> QED BY <1>2, <1>3, <2>1
  <1> QED BY <1>1, <1>4, <1>5, ReturnAlone, NothingTold, QuietStep DEF procs

\* The hook replaces receipts that are unsettled: an unknown one is of an
\* older boot, and is left alone.
LEMMA MarkTerminalHistory ==
  ASSUME IInv, IInv', HInv, NEW o \in Ops, MarkTerminal(o)
  PROVE  HInv' /\ LedgerStep
  <1>1. /\ ReadReceipt(o) \/ ReadFailed
        /\ UNCHANGED <<up, boot, procs, promised>> /\ o \in Actors /\ o \notin Callers
    BY ConstantsAssumption DEF MarkTerminal, Actors
  <1>2. ReceiptStep /\ vis' = vis /\ Tells
    BY <1>1, ReadFiles, NothingTold
  <1>3. \A d \in Callers : pc[d] = "spawn" => vis'[req[d].op].state = "prepared"
    BY <1>2 DEF HInv, WorkInv, CallerWork
  <1>4. CASE HookDone(o)
    <2>1. Alone(o) /\ Reads(o) /\ pc'[o] = "idle"
      BY <1>1, <1>4 DEF IInv, TypeOK, SessionType, HookDone, Goto, Alone, Reads, Unread
    <2>2. HookWork(o)'
      BY <2>1 DEF HookWork
    <2> QED BY <1>1, <1>2, <1>3, <2>1, <2>2, QuietStep DEF procs
  <1>5. CASE /\ ReadReceipt(o) /\ Accepts(vis[o]) /\ Goto(o, "writeTerminal")
             /\ seen' = [seen EXCEPT ![o][o] = vis[o]] /\ UNCHANGED req
    <2>1. Alone(o) /\ Reads(o) /\ pc'[o] = "writeTerminal" /\ seen'[o][o] = vis[o]
      BY <1>1, <1>5, GotoReading
    <2>2. vis[o].state \in Unsettled
      <3>1. vis[o] \in Receipt /\ vis[o] # None /\ Sound(o, vis[o]) /\ boot \in Nat
        BY <1>5 DEF Accepts, IInv, TypeOK, StorageType, HInv, FilesInv, SoundInv
      <3>2. vis[o].state # "unknown"
        BY <1>5, <3>1 DEF Accepts, Sound
      <3> QED BY <1>5, <3>1, <3>2 DEF Accepts, Receipt
    <2>3. HookWork(o)'
      BY <2>1, <2>2 DEF HookWork
    <2> QED BY <1>1, <1>2, <1>3, <2>1, <2>3, QuietStep DEF procs
  <1> QED BY <1>4, <1>5 DEF MarkTerminal

LEMMA MarkTerminalWriteHistory ==
  ASSUME IInv, IInv', HInv, NEW o \in Ops, MarkTerminalWrite(o)
  PROVE  HInv' /\ LedgerStep
  <1> DEFINE r == [seen[o][o] EXCEPT !.state = proc[o], !.session = attempts[o]]
  <1>1. /\ UNCHANGED <<up, boot, procs, promised>> /\ o \in Actors /\ o \notin Callers
        /\ Written(o, r) \/ WriteFailed(o, r)
        /\ HookDone(o)
        /\ vis[o] # None /\ seen[o][o] = vis[o] /\ vis[o] \in Receipt
        /\ vis[o].state \in Unsettled /\ attempts[o] = 1 /\ proc[o] \in Settled
    <2>1. pc[o] = "writeTerminal" /\ o \in Actors
      BY DEF MarkTerminalWrite, Actors
    <2>2. /\ vis[o] # None /\ seen[o][o] = vis[o] /\ vis[o].state \in Unsettled
          /\ proc[o] \in Settled /\ attempts[o] = 1
      BY <2>1 DEF IInv, FreshInv, HookFresh, ProcInv, Settled, HInv, WorkInv, HookWork
    <2> QED BY <2>1, <2>2, ConstantsAssumption
            DEF MarkTerminalWrite, IInv, TypeOK, StorageType, Actors
  <1>2. dur[o] # None /\ Sound(o, vis[o])
    BY <1>1 DEF HInv, SeenInv, FilesInv, SoundInv
  <1>3. r \in Receipt
    <2>1. seen[o][o] \in Receipt /\ 1 \in Nat /\ attempts[o] = 1 /\ proc[o] \in Settled
      BY <1>1
    <2> QED BY <2>1 DEF Receipt
  <1>4. Follows(vis[o], r) /\ Sound(o, r) /\ r.boot = vis[o].boot
    <2>1. /\ proc[o] = "exited" => runs[o] = 1
          /\ proc[o] = "spawn_failed" => runs[o] = 0
      BY DEF HInv, RunsInv
    <2>2. /\ r.state = proc[o] /\ r.boot = vis[o].boot /\ r.input = vis[o].input
          /\ r.resolution = vis[o].resolution
      BY <1>1 DEF Receipt
    <2>3. vis[o].resolution = "none"
      BY <1>1, <1>2 DEF Sound, Unsettled
    <2> QED BY <1>1, <1>2, <2>1, <2>2, <2>3 DEF Follows, Sound, Settled
  <1>5. ReceiptStep /\ \A p \in Ops : vis'[p] # vis[p] => p = o
    BY <1>1, <1>2, <1>3, <1>4, WriteFiles, NoneAssumption
  <1>6. ASSUME NEW d \in Callers, pc[d] = "spawn"
        PROVE  vis'[req[d].op].state = "prepared"
    <2>1. req[d].op # o
      BY <1>1, <1>6 DEF IInv, SpawnInv
    <2> QED BY <1>5, <1>6, <2>1, Spawners
  <1>7. Alone(o) /\ Reads(o) /\ HookWork(o)'
    BY <1>1 DEF IInv, TypeOK, SessionType, HookDone, Goto, Alone, Reads, Unread, HookWork
  <1> QED BY <1>1, <1>5, <1>6, <1>7, NothingTold, QuietStep DEF procs

-----------------------------------------------------------------------------
(* The processes.                                                           *)

\* The files stay.
LEMMA SameFiles ==
  ASSUME UNCHANGED files
  PROVE  LedgerStep
  BY FollowsItself DEF LedgerStep, files

\* A command is started only for a receipt that is prepared, by its only
\* possible starter.
LEMMA SpawnHistory ==
  ASSUME IInv, HInv, NEW c \in Callers, Spawn(c)
  PROVE  HInv' /\ LedgerStep
  <1> DEFINE o == req[c].op
  <1>1. /\ UNCHANGED <<up, boot, req, seen, files, promised>>
        /\ pc[c] = "spawn" /\ c \in Actors /\ o \in Ops
        /\ vis[o] # None /\ dur[o] # None
        /\ vis[o].state = "prepared" /\ dur[o].state = "prepared"
        /\ attempts[o] = 0
        /\ \A d \in Callers : pc[d] = "spawn" /\ req[d].op = o => d = c
    BY DEF Spawn, Actors, IInv, TypeOK, SessionType, Request, SpawnInv, HInv, WorkInv, CallerWork
  <1>2. runs[o] = 0
    BY <1>1 DEF HInv, RunsInv
  <1>3. /\ \A a \in Actors \ {c} : pc'[a] = pc[a]
        /\ \A p \in Ops \ {o} : /\ attempts'[p] = attempts[p] /\ runs'[p] = runs[p]
                                /\ proc'[p] = proc[p]
        /\ \/ /\ pc'[c] = "markRunning" /\ attempts'[o] = 1 /\ runs'[o] = 1
              /\ proc'[o] = "alive"
           \/ /\ pc'[c] = "markRunning" /\ attempts'[o] = 1 /\ runs'[o] = 0
              /\ proc'[o] = "stillborn"
           \/ /\ pc'[c] = "markFailed" /\ attempts'[o] = 0 /\ runs'[o] = 0
              /\ proc'[o] = proc[o]
    BY <1>1, <1>2 DEF Spawn, procs, Goto, IInv, TypeOK, SessionType, ProcType
  <1>4. FilesInv'
    <2>1. \A p \in Ops : /\ vis[p] # None => Sound(p, vis[p])
                         /\ dur[p] # None => Sound(p, dur[p])
      BY DEF HInv, FilesInv, SoundInv
    <2>2. SoundInv'
      BY <1>1, <1>3, <2>1 DEF SoundInv, Sound, files
    <2> QED BY <1>1, <2>2 DEF HInv, FilesInv, OrderInv, NoGhostReceipt, files
  <1>5. SeenInv' /\ VerifiedIsDurable'
    BY <1>1 DEF HInv, SeenInv, VerifiedIsDurable, files
  <1>6. RunsInv'
    <2> SUFFICES ASSUME NEW p \in Ops
                 PROVE  /\ runs'[p] \in {0, 1} /\ runs'[p] <= attempts'[p]
                        /\ proc'[p] \in {"alive", "exited"} => runs'[p] = 1
                        /\ proc'[p] \in {"stillborn", "spawn_failed"} => runs'[p] = 0
      BY DEF RunsInv
    <2>1. CASE p = o
      <3>1. proc[o] = "none"
        BY <1>1 DEF IInv, ProcInv
      <3> QED BY <1>3, <2>1, <3>1
    <2>2. CASE p # o
      BY <1>3, <2>2 DEF HInv, RunsInv
    <2> QED BY <2>1, <2>2
  <1>7. ASSUME NEW d \in Callers PROVE CallerWork(d)'
    <2>1. CASE d = c
      <3>1. \A e \in Callers : pc'[e] = "spawn" => req[e].op # o
        BY <1>1, <1>3 DEF Actors
      <3> QED BY <1>1, <1>3, <2>1, <3>1 DEF CallerWork, files
    <2>2. CASE d # c
      <3>1. CallerWork(d) /\ pc'[d] = pc[d] /\ req[d].op \in Ops
        BY <1>3, <2>2 DEF HInv, WorkInv, Actors, IInv, TypeOK, SessionType, Request
      <3>2. pc[d] \in {"markRunning", "writeRunning", "markFailed", "writeFailed"} =>
              req[d].op # o
        BY <1>1, <3>1 DEF CallerWork
      <3>3. \A e \in Callers : pc'[e] = "spawn" => pc[e] = "spawn"
        BY <1>1, <1>3 DEF Actors
      <3> QED BY <1>1, <1>3, <3>1, <3>2, <3>3 DEF CallerWork, Taken, files
    <2> QED BY <2>1, <2>2
  <1>8. \A p \in Ops : HookWork(p)'
    BY <1>1, <1>3, ConstantsAssumption DEF HInv, WorkInv, HookWork, Actors
  <1> QED BY <1>1, <1>4, <1>5, <1>6, <1>7, <1>8, SameFiles DEF HInv, WorkInv

LEMMA FinishHistory ==
  ASSUME IInv, HInv, NEW o \in Ops, Finish(o)
  PROVE  HInv' /\ LedgerStep
  <1>1. /\ UNCHANGED <<up, boot, req, seen, files, promised, runs, attempts>>
        /\ \A c \in Callers : pc'[c] = pc[c]
        /\ \A p \in Ops : pc'[p] = pc[p] \/ pc'[p] = "markTerminal"
    BY ConstantsAssumption DEF Finish, Goto, IInv, TypeOK, SessionType, Actors
  <1>2. RunsInv'
    BY <1>1 DEF Finish, HInv, RunsInv, IInv, TypeOK, ProcType
  <1>3. FilesInv' /\ SeenInv' /\ VerifiedIsDurable'
    BY <1>1 DEF HInv, FilesInv, OrderInv, SoundInv, Sound, NoGhostReceipt, SeenInv,
                VerifiedIsDurable, files
  <1>4. WorkInv'
    BY <1>1 DEF HInv, WorkInv, CallerWork, HookWork, Taken, files
  <1> QED BY <1>1, <1>2, <1>3, <1>4, SameFiles DEF HInv

LEMMA EvictHistory ==
  ASSUME HInv, UNCHANGED <<up, boot, session, files, proc, attempts, runs, promised>>
  PROVE  HInv' /\ LedgerStep
  BY SameFiles
  DEF HInv, FilesInv, OrderInv, SoundInv, Sound, NoGhostReceipt, SeenInv,
      VerifiedIsDurable, RunsInv, WorkInv, CallerWork, HookWork, Taken, session, files

-----------------------------------------------------------------------------
(* The restart.                                                             *)

\* The new server process has no request, no process, and has read nothing.
LEMMA NewBootHistory ==
  ASSUME HInv, NewBoot, FilesInv', LedgerStep, TypeOK
  PROVE  HInv'
  <1>1. SeenInv'
    BY DEF NewBoot, SeenInv, Unread
  <1>2. VerifiedIsDurable'
    BY ToldStep, NothingTold DEF HInv, NewBoot
  <1>3. RunsInv'
    BY DEF NewBoot, HInv, RunsInv
  <1>4. WorkInv'
    BY DEF NewBoot, WorkInv, CallerWork, HookWork, Actors
  <1> QED BY <1>1, <1>2, <1>3, <1>4 DEF HInv

LEMMA CrashHistory ==
  ASSUME IInv, IInv', HInv, Crash
  PROVE  HInv' /\ LedgerStep
  <1>1. ReceiptStep
    BY DEF Crash, ReceiptStep, files
  <1>2. FilesInv' /\ LedgerStep
    BY <1>1, FilesStep DEF IInv, HInv, Crash, NewBoot
  <1> QED BY <1>2, NewBootHistory DEF Crash, IInv

\* What the power loss leaves of a receipt follows what was durable.
LEMMA PowerLossHistory ==
  ASSUME IInv, IInv', HInv, PowerLoss
  PROVE  HInv' /\ LedgerStep
  <1>1. /\ NewBoot /\ up' = "booting" /\ boot' = boot + 1 /\ runs' = runs
        /\ \A o \in Ops : vis'[o] \in {vis[o], dur[o]} /\ dur'[o] = vis'[o]
    BY DEF PowerLoss, NewBoot
  <1>2. LedgerStep
    <2>1. ASSUME NEW o \in Ops
          PROVE  /\ dur[o] # None => vis[o] # None /\ Follows(dur[o], vis[o])
                 /\ dur[o] = None /\ vis[o] # None => vis[o].state \in {"prepared", "unknown"}
      BY DEF HInv, FilesInv, OrderInv
    <2> QED BY <1>1, <2>1, FollowsItself DEF LedgerStep
  <1>3. OrderInv'
    BY <1>1, FollowsItself DEF OrderInv
  <1>4. SoundInv'
    <2>1. ASSUME NEW o \in Ops, NEW r \in Receipt, Sound(o, r)
          PROVE  /\ r.boot <= boot' /\ (r.state = "unknown" => r.boot < boot')
                 /\ r.resolution # "none" => r.state = "unknown"
                 /\ r.state = "exited" => runs'[o] = 1
                 /\ r.state = "spawn_failed" => runs'[o] = 0
      <3>1. r.boot \in Int /\ boot \in Int
        BY <2>1, ConstantsAssumption DEF Receipt, IInv, TypeOK
      <3> QED BY <1>1, <2>1, <3>1 DEF Sound
    <2>2. \A o \in Ops : /\ vis[o] # None => vis[o] \in Receipt /\ Sound(o, vis[o])
                         /\ dur[o] # None => dur[o] \in Receipt /\ Sound(o, dur[o])
      BY DEF IInv, TypeOK, StorageType, HInv, FilesInv, SoundInv
    <2> QED BY <1>1, <2>1, <2>2 DEF SoundInv, Sound
  <1>5. NoGhostReceipt'
    BY <1>1 DEF NoGhostReceipt
  <1> QED BY <1>1, <1>2, <1>3, <1>4, <1>5, NewBootHistory DEF FilesInv, IInv

\* Recovery marks the receipts that the last server process left behind.
LEMMA RecoverHistory ==
  ASSUME IInv, IInv', HInv, NEW o \in Ops, RecoverReceipt(o)
  PROVE  HInv' /\ LedgerStep
  <1> DEFINE r == [vis[o] EXCEPT !.state = "unknown"]
  <1>1. /\ up = "booting" /\ vis[o] # None /\ vis[o] \in Receipt
        /\ vis[o].state \in Unsettled /\ vis[o].boot # boot /\ promised' = promised
        /\ \/ Written(o, r) /\ UNCHANGED <<up, boot, session, procs>>
           \/ WriteFailed(o, r) /\ NewBoot
    BY DEF RecoverReceipt, Lost, IInv, TypeOK, StorageType
  <1>2. r \in Receipt /\ Follows(vis[o], r) /\ Sound(o, r)
    <2>1. r \in Receipt /\ r.state = "unknown" /\ r.boot = vis[o].boot /\ r.input = vis[o].input
          /\ r.resolution = vis[o].resolution
      BY <1>1 DEF Receipt
    <2>2. Sound(o, vis[o]) /\ boot \in Int /\ vis[o].boot \in Int
      BY <1>1, ConstantsAssumption DEF HInv, FilesInv, SoundInv, IInv, TypeOK, Receipt
    <2>3. vis[o].boot < boot
      BY <1>1, <2>2 DEF Sound
    <2> QED BY <1>1, <2>1, <2>2, <2>3 DEF Follows, Sound
  <1>3. ReceiptStep
    <2>1. \A p \in Ops \ {o} : vis'[p] = vis[p] /\ dur'[p] = dur[p]
      BY <1>1 DEF IInv, TypeOK, StorageType, Written, WriteFailed
    <2>2. vis'[o] \in {vis[o], r} /\ dur'[o] \in {dur[o], vis'[o]}
      BY <1>1 DEF IInv, TypeOK, StorageType, Written, WriteFailed
    <2>3. vis'[o] = vis[o] \/ Revised(o)
      <3>1. r.state = "unknown" /\ r.state \notin Unsettled /\ r # None
        BY <1>1, <1>2, NoneAssumption DEF Receipt, Unsettled
      <3> QED BY <1>1, <1>2, <2>2, <3>1 DEF Revised
    <2> QED BY <2>1, <2>2, <2>3 DEF ReceiptStep
  <1>4. FilesInv' /\ LedgerStep
    BY <1>1, <1>3, FilesStep DEF IInv, HInv, NewBoot, procs
  <1>5. CASE NewBoot
    BY <1>4, <1>5, NewBootHistory DEF IInv
  <1>6. CASE UNCHANGED <<up, boot, session, procs>>
    <2>1. o \in Actors /\ Alone(o) /\ Reads(o)
      BY <1>6 DEF Actors, Alone, Reads, session
    <2>2. SeenInv' /\ VerifiedIsDurable'
      BY <1>1, <1>4, <2>1, SeenStep, ToldStep, NothingTold DEF IInv, HInv
    <2>3. \A a \in Actors : pc'[a] = "idle"
      BY <1>1, <1>6 DEF IInv, ProcInv, session
    <2>4. WorkInv'
      BY <2>3 DEF WorkInv, CallerWork, HookWork, Actors
    <2>5. RunsInv'
      BY <1>6 DEF HInv, RunsInv, procs
    <2> QED BY <1>4, <2>2, <2>4, <2>5 DEF HInv
  <1> QED BY <1>1, <1>5, <1>6

\* Recovery is over when no such receipt is left.
LEMMA BootDoneHistory ==
  ASSUME HInv, BootDone
  PROVE  HInv' /\ LedgerStep
  <1>1. NoGhostReceipt'
    BY DEF BootDone, Lost, NoGhostReceipt, files
  <1>2. OrderInv' /\ SoundInv' /\ SeenInv' /\ VerifiedIsDurable' /\ RunsInv' /\ WorkInv'
    BY DEF BootDone, HInv, FilesInv, OrderInv, SoundInv, Sound, SeenInv, VerifiedIsDurable,
           RunsInv, WorkInv, CallerWork, HookWork, Taken, session, files, procs
  <1> QED BY <1>1, <1>2, SameFiles DEF HInv, FilesInv, BootDone

-----------------------------------------------------------------------------
LEMMA ServeHistory ==
  ASSUME IInv, IInv', HInv, NEW c \in Callers, Serve(c)
  PROVE  HInv' /\ LedgerStep
  BY PrepareTaskHistory, PrepareReadHistory, PrepareWriteHistory, SpawnHistory,
     MarkRunningHistory, MarkRunningWriteHistory, MarkDegradedHistory,
     MarkDegradedWriteHistory, MarkSpawnFailedHistory, MarkSpawnFailedWriteHistory,
     ObserveHistory, ObserveEndedHistory, CompleteTaskHistory, ListReceiptsHistory,
     WriteTaskHistory, ReconcileTaskHistory, LockReceiptHistory, CommitHistory
  DEF Serve

LEMMA HistoryInductive ==
  ASSUME IInv, IInv', HInv, [Next]_vars
  PROVE  HInv' /\ LedgerStep
  <1>1. CASE \E c \in Callers : Call(c) \/ Serve(c)
    BY <1>1, CallHistory, ServeHistory
  <1>2. CASE \E o \in Ops : Finish(o) \/ Hook(o) \/ Evict(o) \/ RecoverReceipt(o)
    <2> SUFFICES ASSUME NEW o \in Ops, Finish(o) \/ Hook(o) \/ Evict(o) \/ RecoverReceipt(o)
                 PROVE  HInv' /\ LedgerStep
      BY <1>2
    <2>1. CASE Finish(o)
      BY <2>1, FinishHistory
    <2>2. CASE Hook(o)
      BY <2>2, MarkTerminalHistory, MarkTerminalWriteHistory DEF Hook
    <2>3. CASE Evict(o)
      BY <2>3, EvictHistory DEF Evict
    <2>4. CASE RecoverReceipt(o)
      BY <2>4, RecoverHistory
    <2> QED BY <2>1, <2>2, <2>3, <2>4
  <1>3. CASE Crash \/ PowerLoss \/ BootDone
    BY <1>3, CrashHistory, PowerLossHistory, BootDoneHistory
  <1>4. CASE UNCHANGED vars
    BY <1>4, EvictHistory DEF vars, procs
  <1> QED BY <1>1, <1>2, <1>3, <1>4 DEF Next

THEOREM HistoryInvariance == Spec => [](IInv /\ HInv)
  <1>1. Init => IInv /\ HInv
    BY InitInv, InitHistory
  <1>2. IInv /\ HInv /\ [Next]_vars => IInv' /\ HInv'
    BY Inductive, HistoryInductive
  <1> QED BY <1>1, <1>2, PTL DEF Spec

\* A receipt never lies about the command: one that is exited ran, one that
\* failed to spawn never did and nobody is about to start it.
THEOREM ReceiptIsHonestThm == Spec => []ReceiptIsHonest
  <1>1. IInv /\ HInv => ReceiptIsHonest
    <2> SUFFICES ASSUME IInv, HInv, NEW o \in Ops
                 PROVE  /\ vis[o] # None => Honest(o, vis[o])
                        /\ dur[o] # None => Honest(o, dur[o])
      BY DEF ReceiptIsHonest
    <2>1. /\ vis[o] # None => Sound(o, vis[o])
          /\ dur[o] # None => Sound(o, dur[o])
      BY DEF HInv, FilesInv, SoundInv
    <2>2. \A c \in Callers : pc[c] = "spawn" /\ req[c].op = o =>
                               vis[o].state = "prepared" /\ dur[o].state = "prepared"
      BY DEF HInv, WorkInv, CallerWork
    <2> QED BY <2>1, <2>2 DEF Sound, Honest
  <1> QED BY <1>1, HistoryInvariance, PTL

\* What was reported as verified is durable, and stays so whatever storage
\* call fails and whenever the power is lost.
THEOREM VerifiedIsDurableThm == Spec => []VerifiedIsDurable
  <1>1. HInv => VerifiedIsDurable
    BY DEF HInv
  <1> QED BY <1>1, HistoryInvariance, PTL

\* A server that is up has no prepared or running receipt of an earlier one.
THEOREM NoGhostReceiptThm == Spec => []NoGhostReceipt
  <1>1. HInv => NoGhostReceipt
    BY DEF HInv, FilesInv
  <1> QED BY <1>1, HistoryInvariance, PTL

\* A durable receipt keeps its input, its boot, a final state and a resolution.
THEOREM ReceiptHistoryThm == Spec => ReceiptHistory
  <1>1. IInv /\ HInv /\ [Next]_vars =>
          [\A o \in Ops : dur[o] # None =>
             /\ dur'[o] # None
             /\ dur'[o].input = dur[o].input /\ dur'[o].boot = dur[o].boot
             /\ dur[o].state \notin Unsettled => dur'[o].state = dur[o].state
             /\ dur[o].resolution # "none" => dur'[o].resolution = dur[o].resolution]_vars
    BY Inductive, HistoryInductive DEF LedgerStep, Follows
  <1> QED BY <1>1, HistoryInvariance, PTL DEF Spec, ReceiptHistory

-----------------------------------------------------------------------------
(* The refinement.                                                          *)

\* Clients are told one thing of one operation at a time.
LEMMA PromisedStep ==
  ASSUME TypeOK, [Next]_vars, NEW o \in Ops
  PROVE  promised'[o] = promised[o] \/ \E s \in Settled : promised'[o] = promised[o] \cup {s}
  <1>1. promised' = promised \/ \E p \in Ops : \E r : promised' = Told(p, r)
    <2>1. ASSUME NEW c \in Callers, Call(c)
          PROVE  promised' = promised
      BY <2>1 DEF Call, ExecCall, PollCall, CompleteCall, ReconcileCall
    <2>2. ASSUME NEW c \in Callers, Serve(c)
          PROVE  promised' = promised \/ \E p \in Ops : \E r : promised' = Told(p, r)
      <3>1. req[c].op \in Ops
        BY DEF TypeOK, SessionType, Request
      <3>2. CASE \/ PrepareTask(c) \/ PrepareWrite(c) \/ Spawn(c)
                 \/ MarkRunning(c) \/ MarkRunningWrite(c)
                 \/ MarkDegraded(c) \/ MarkDegradedWrite(c)
                 \/ MarkSpawnFailed(c) \/ MarkSpawnFailedWrite(c)
                 \/ ObserveEnded(c) \/ PollExpires(c)
                 \/ CompleteTask(c) \/ ListReceipts(c) \/ WriteTask(c)
                 \/ ReconcileTask(c) \/ LockReceipt(c) \/ CommitReconciliation(c)
        BY <3>2 DEF PrepareTask, PrepareWrite, Spawn, MarkRunning, MarkRunningWrite,
           MarkDegraded, MarkDegradedWrite, MarkSpawnFailed, MarkSpawnFailedWrite,
           ObserveEnded, PollExpires, CompleteTask, ListReceipts, WriteTask,
           ReconcileTask, LockReceipt, CommitReconciliation
      <3>3. CASE PrepareRead(c)
        BY <3>1, <3>3 DEF PrepareRead
      <3>4. CASE ObserveRunning(c) \/ ObserveEvicted(c) \/ PollRecover(c) \/ AwaitHook(c)
        BY <3>1, <3>4 DEF ObserveRunning, ObserveEvicted, PollRecover, AwaitHook
      <3> QED BY <2>2, <3>2, <3>3, <3>4 DEF Serve
    <2>3. ASSUME NEW p \in Ops, Finish(p) \/ Hook(p) \/ Evict(p) \/ RecoverReceipt(p)
          PROVE  promised' = promised
      BY <2>3 DEF Finish, Hook, MarkTerminal, MarkTerminalWrite, Evict, RecoverReceipt
    <2>4. CASE Crash \/ PowerLoss \/ BootDone \/ UNCHANGED vars
      BY <2>4 DEF Crash, PowerLoss, NewBoot, BootDone, vars
    <2> QED BY <2>1, <2>2, <2>3, <2>4 DEF Next
  <1> QED BY <1>1 DEF Told, TypeOK

\* A command runs once its durable receipt is prepared, and only then.
LEMMA RunsStep ==
  ASSUME IInv, HInv, [Next]_vars, NEW o \in Ops, runs'[o] # runs[o]
  PROVE  /\ runs[o] = 0 /\ runs'[o] = 1 /\ dur' = dur /\ promised' = promised
         /\ dur[o] # None /\ dur[o].state = "prepared"
  <1>1. \E c \in Callers : Spawn(c)
    <2>1. ASSUME NEW c \in Callers, Call(c)
          PROVE  runs' = runs
      BY <2>1 DEF Call, ExecCall, PollCall, CompleteCall, ReconcileCall, procs
    <2>2. ASSUME NEW c \in Callers, Serve(c), ~Spawn(c)
          PROVE  runs' = runs
      BY <2>2 DEF Serve, PrepareTask, PrepareRead, PrepareWrite, MarkRunning, MarkRunningWrite,
         MarkDegraded, MarkDegradedWrite, MarkSpawnFailed, MarkSpawnFailedWrite,
         ObserveRunning, ObserveEvicted, PollRecover, AwaitHook,
         ObserveEnded, PollExpires, CompleteTask, ListReceipts, WriteTask,
         ReconcileTask, LockReceipt, CommitReconciliation, procs
    <2>3. ASSUME NEW p \in Ops, Finish(p) \/ Hook(p) \/ Evict(p) \/ RecoverReceipt(p)
          PROVE  runs' = runs
      BY <2>3 DEF Finish, Hook, MarkTerminal, MarkTerminalWrite, Evict, RecoverReceipt,
         NewBoot, procs
    <2>4. CASE Crash \/ PowerLoss \/ BootDone \/ UNCHANGED vars
      BY <2>4 DEF Crash, PowerLoss, NewBoot, BootDone, vars, procs
    <2> QED BY <2>1, <2>2, <2>3, <2>4 DEF Next
  <1>2. PICK c \in Callers : Spawn(c)
    BY <1>1
  <1>3. /\ pc[c] = "spawn" /\ dur' = dur /\ promised' = promised /\ req[c].op \in Ops
        /\ \A p \in Ops : p # req[c].op => runs'[p] = runs[p]
        /\ runs'[req[c].op] \in {runs[req[c].op], runs[req[c].op] + 1}
    BY <1>2 DEF Spawn, procs, files, IInv, TypeOK, SessionType, Request, ProcType
  <1>4. o = req[c].op /\ runs'[o] = runs[o] + 1
    BY <1>3
  <1>5. runs[o] = 0 /\ dur[o] # None /\ dur[o].state = "prepared"
    BY <1>3, <1>4 DEF IInv, SpawnInv, HInv, RunsInv, WorkInv, CallerWork
  <1> QED BY <1>3, <1>4, <1>5

\* The durable receipts of the tracked commands, with what clients were told,
\* implement the at-most-once ledger.
THEOREM Refinement == Spec => ImplementsLedger
  <1> DEFINE entry == [o \in Ops |-> IF dur[o] = None THEN "none" ELSE dur[o].state]
  <1>1. Init => Ledger!Init
    BY DEF Init, Ledger!Init, Unread
  <1>2. IInv /\ HInv /\ [Next]_vars => Ledger!Next
    <2> SUFFICES ASSUME IInv, HInv, [Next]_vars, NEW o \in Ops
                 PROVE  Ledger!Launch(o) \/ Ledger!Advance(o)
      BY DEF Ledger!Next
    <2>1. IInv' /\ HInv' /\ LedgerStep
      BY Inductive, HistoryInductive
    <2>2. CASE runs'[o] # runs[o]
      BY <2>2, RunsStep DEF Ledger!Launch
    <2>3. CASE runs'[o] = runs[o]
      <3>1. entry'[o] \in Ledger!Later(o)
        <4>1. CASE dur[o] = None
          BY <2>1, <4>1 DEF LedgerStep, Ledger!Later
        <4>2. CASE dur[o] # None
          <5>1. /\ dur'[o] # None /\ Follows(dur[o], dur'[o])
                /\ dur'[o].state = "exited" => runs'[o] = 1
                /\ dur'[o].state = "spawn_failed" => runs'[o] = 0
            BY <2>1, <4>2 DEF LedgerStep, HInv, FilesInv, SoundInv, Sound
          <5>2. dur[o] \in Receipt /\ dur'[o] \in Receipt
            BY <2>1, <4>2, <5>1 DEF IInv, TypeOK, StorageType
          <5>3. runs[o] \in {0, 1}
            BY DEF HInv, RunsInv
          <5>4. CASE dur[o].state \notin Unsettled
            BY <4>2, <5>1, <5>4 DEF Follows, Ledger!Later
          <5>5. CASE dur[o].state \in Unsettled
            <6>1. /\ dur'[o].state = "exited" => runs[o] = 1
                  /\ dur'[o].state = "spawn_failed" => runs[o] = 0
                  /\ dur'[o].state = "prepared" => dur[o].state = "prepared"
              BY <2>3, <5>1 DEF Follows
            <6>2. dur'[o].state \in {"prepared", "running", "exited", "spawn_failed", "unknown"}
              BY <5>2 DEF Receipt, Settled, Unsettled
            <6> QED BY <4>2, <5>1, <5>5, <6>1, <6>2 DEF Unsettled, Ledger!Later
          <5> QED BY <5>4, <5>5
        <4> QED BY <4>1, <4>2
      <3>2. promised'[o] \in {promised[o], promised[o] \cup ({entry'[o]} \cap Ledger!Final)}
        <4>1. \A s \in promised'[o] : dur'[o] # None /\ dur'[o].state = s
          BY <2>1 DEF HInv, VerifiedIsDurable
        <4>2. promised'[o] = promised[o]
                \/ \E s \in Settled : promised'[o] = promised[o] \cup {s}
          BY PromisedStep DEF IInv
        <4> QED BY <4>1, <4>2 DEF Settled, Ledger!Final
      <3> QED BY <2>3, <3>1, <3>2 DEF Ledger!Advance
    <2> QED BY <2>2, <2>3
  <1> QED BY <1>1, <1>2, HistoryInvariance, PTL DEF Spec, ImplementsLedger, Ledger!Spec

-----------------------------------------------------------------------------
(* The task.                                                                *)

\* Receipts are made by PrepareWrite alone.
LEMMA Births ==
  ASSUME IInv, [Next]_vars, NEW o \in Ops, vis[o] = None, vis'[o] # None
  PROVE  \E c \in Callers : pc[c] = "writePrepared"
  <1>1. ASSUME NEW c \in Callers, Call(c)
        PROVE  vis' = vis
    BY <1>1 DEF Call, ExecCall, PollCall, CompleteCall, ReconcileCall, files
  <1>2. ASSUME NEW c \in Callers, Serve(c), pc[c] # "writePrepared"
        PROVE  vis'[o] = None
    <2>1. CASE \/ PrepareTask(c) \/ PrepareRead(c) \/ Spawn(c)
               \/ MarkRunning(c) \/ MarkDegraded(c) \/ MarkSpawnFailed(c)
               \/ ObserveRunning(c) \/ ObserveEvicted(c) \/ PollRecover(c) \/ AwaitHook(c)
               \/ ObserveEnded(c) \/ PollExpires(c)
               \/ CompleteTask(c) \/ ListReceipts(c) \/ WriteTask(c)
               \/ ReconcileTask(c) \/ LockReceipt(c)
      BY <2>1 DEF PrepareTask, PrepareRead, Spawn, MarkRunning, MarkDegraded,
         MarkSpawnFailed, ObserveRunning, ObserveEvicted, PollRecover, AwaitHook,
         ObserveEnded, PollExpires, CompleteTask, ListReceipts, WriteTask,
         ReconcileTask, LockReceipt, ReadReceipt, ReadTask, ReadFailed, files
    <2>2. CASE MarkRunningWrite(c) \/ MarkDegradedWrite(c) \/ MarkSpawnFailedWrite(c)
      <3>1. vis[req[c].op] # None
        BY <2>2 DEF MarkRunningWrite, MarkDegradedWrite, MarkSpawnFailedWrite,
                    IInv, FreshInv, CallerFresh, Rewrites
      <3>2. o # req[c].op
        BY <3>1
      <3> QED BY <2>2, <3>2 DEF MarkRunningWrite, MarkDegradedWrite, MarkSpawnFailedWrite,
                 Written, WriteFailed, IInv, TypeOK, StorageType
    <2>3. CASE CommitReconciliation(c)
      <3>1. \A p \in req[c].batch : vis[p] # None
        BY <2>3 DEF CommitReconciliation, IInv, LockInv, CallerLock, FreshInv, CallerFresh, Taken
      <3> QED BY <2>3, <3>1 DEF CommitReconciliation
    <2>4. ~PrepareWrite(c)
      BY <1>2 DEF PrepareWrite
    <2> QED BY <1>2, <2>1, <2>2, <2>3, <2>4 DEF Serve
  <1>3. ASSUME NEW p \in Ops, Finish(p) \/ Hook(p) \/ Evict(p) \/ RecoverReceipt(p)
        PROVE  vis'[o] = None
    <2>1. CASE Finish(p) \/ Evict(p) \/ MarkTerminal(p)
      BY <2>1 DEF Finish, Evict, MarkTerminal, ReadReceipt, ReadFailed, files
    <2>2. CASE MarkTerminalWrite(p)
      <3>1. vis[p] # None
        BY <2>2 DEF MarkTerminalWrite, IInv, FreshInv, HookFresh
      <3>2. p # o
        BY <3>1
      <3> QED BY <2>2, <3>2 DEF MarkTerminalWrite, Written, WriteFailed, IInv, TypeOK, StorageType
    <2>3. CASE RecoverReceipt(p)
      <3>1. p # o
        BY <2>3 DEF RecoverReceipt, Lost
      <3> QED BY <2>3, <3>1 DEF RecoverReceipt, Written, WriteFailed, IInv, TypeOK, StorageType
    <2> QED BY <1>3, <2>1, <2>2, <2>3 DEF Hook
  <1>4. CASE Crash \/ PowerLoss \/ BootDone \/ UNCHANGED vars
    <2>1. dur[o] = None
      BY DEF IInv, SpawnInv
    <2>2. vis'[o] \in {vis[o], dur[o]}
      BY <1>4 DEF Crash, PowerLoss, BootDone, vars, files
    <2> QED BY <2>1, <2>2
  <1> QED BY <1>1, <1>2, <1>3, <1>4 DEF Next

\* A task that may be closed stays so while no receipt is made.
LEMMA ClosedStays ==
  ASSUME IInv', HInv', LedgerStep, NEW outcome, Closed(outcome),
         \A o \in Ops : vis[o] = None => vis'[o] = None
  PROVE  Closed(outcome)'
  <1> SUFFICES ASSUME NEW o \in Ops
               PROVE  /\ Closeable(vis'[o], outcome) /\ Closeable(dur'[o], outcome)
                      /\ vis'[o] # None => dur'[o] # None
    BY DEF Closed, Closeable
  <1>1. CASE vis[o] = None
    <2>1. vis'[o] = None /\ dur'[o] = None
      BY <1>1 DEF IInv, SpawnInv
    <2> QED BY <2>1 DEF Closeable
  <1>2. CASE vis[o] # None
    <2>1. dur[o] # None /\ Closeable(dur[o], outcome)
      BY <1>2 DEF Closed
    <2>2. dur'[o] # None /\ Follows(dur[o], dur'[o])
      BY <2>1 DEF LedgerStep
    <2>3. vis'[o] # None /\ Follows(dur'[o], vis'[o])
      BY <2>2 DEF HInv, FilesInv, OrderInv
    <2> QED BY <2>1, <2>2, <2>3 DEF Closeable, Follows
  <1> QED BY <1>1, <1>2

\* What a step of one request or hook does to the queue of the task's lock.
Queues(a) == wsQ' \in {wsQ, Append(wsQ, a), Unlocked(a, wsQ)}

LEMMA QueueKeeps ==
  ASSUME TypeOK, NEW a \in Actors, a \in Callers \/ wsQ' \in {wsQ, Unlocked(a, wsQ)},
         Queues(a), NEW b, b # a, Holds(b, wsQ)
  PROVE  Holds(b, wsQ')
  <1>1. CASE wsQ' = Append(wsQ, a) /\ a \in Callers
    BY <1>1, HoldsAppend DEF TypeOK, LockType
  <1>2. CASE wsQ' \in {wsQ, Unlocked(a, wsQ)}
    BY <1>2, HoldsUnlocked
  <1> QED BY <1>1, <1>2 DEF Queues

\* A request queues for the task's lock, or releases it.
LEMMA QueueStep ==
  ASSUME NEW c \in Callers, Call(c) \/ Serve(c)
  PROVE  Queues(c)
  <1> USE DEF Queues, Return, ReleaseAll, locks
  <1>1. CASE Call(c)
    BY <1>1 DEF Call, ExecCall, PollCall, CompleteCall, ReconcileCall
  <1>2. CASE PrepareTask(c) \/ PrepareRead(c) \/ PrepareWrite(c) \/ Spawn(c)
    BY <1>2 DEF PrepareTask, PrepareRead, PrepareWrite, Spawn
  <1>3. CASE \/ MarkRunning(c) \/ MarkRunningWrite(c)
             \/ MarkDegraded(c) \/ MarkDegradedWrite(c)
             \/ MarkSpawnFailed(c) \/ MarkSpawnFailedWrite(c)
    BY <1>3 DEF MarkRunning, MarkRunningWrite, MarkDegraded, MarkDegradedWrite,
                MarkSpawnFailed, MarkSpawnFailedWrite, Degrade
  <1>4. CASE \/ ObserveRunning(c) \/ ObserveEnded(c) \/ ObserveEvicted(c)
             \/ PollRecover(c) \/ AwaitHook(c) \/ PollExpires(c)
    BY <1>4 DEF ObserveRunning, ObserveEnded, ObserveEvicted, PollRecover, AwaitHook, PollExpires
  <1>5. CASE CompleteTask(c) \/ ListReceipts(c) \/ WriteTask(c)
    BY <1>5 DEF CompleteTask, ListReceipts, WriteTask
  <1>6. CASE ReconcileTask(c) \/ LockReceipt(c) \/ CommitReconciliation(c)
    BY <1>6 DEF ReconcileTask, LockReceipt, LockNext, CommitReconciliation
  <1> QED BY <1>1, <1>2, <1>3, <1>4, <1>5, <1>6 DEF Serve

\* It concerns no other request.
LEMMA OthersStay ==
  ASSUME TypeOK, NEW c \in Callers, Call(c) \/ Serve(c), NEW d \in Callers \ {c}
  PROVE  pc'[d] = pc[d] /\ req'[d] = req[d]
  <1>1. /\ pc' = pc \/ \E l : Goto(c, l)
        /\ req' = req \/ \E r : req' = [req EXCEPT ![c] = r]
    <2> USE DEF Return
    <2>1. CASE Call(c)
      BY <2>1 DEF Call, ExecCall, PollCall, CompleteCall, ReconcileCall
    <2>2. CASE PrepareTask(c) \/ PrepareRead(c) \/ PrepareWrite(c) \/ Spawn(c)
      BY <2>2 DEF PrepareTask, PrepareRead, PrepareWrite, Spawn
    <2>3. CASE \/ MarkRunning(c) \/ MarkRunningWrite(c)
               \/ MarkDegraded(c) \/ MarkDegradedWrite(c)
               \/ MarkSpawnFailed(c) \/ MarkSpawnFailedWrite(c)
      BY <2>3 DEF MarkRunning, MarkRunningWrite, MarkDegraded, MarkDegradedWrite,
                  MarkSpawnFailed, MarkSpawnFailedWrite, Degrade
    <2>4. CASE \/ ObserveRunning(c) \/ ObserveEnded(c) \/ ObserveEvicted(c)
               \/ PollRecover(c) \/ AwaitHook(c) \/ PollExpires(c)
      BY <2>4 DEF ObserveRunning, ObserveEnded, ObserveEvicted, PollRecover, AwaitHook, PollExpires
    <2>5. CASE CompleteTask(c) \/ ListReceipts(c) \/ WriteTask(c)
      BY <2>5 DEF CompleteTask, ListReceipts, WriteTask
    <2>6. CASE ReconcileTask(c) \/ CommitReconciliation(c)
      BY <2>6 DEF ReconcileTask, CommitReconciliation
    <2>7. CASE LockReceipt(c)
      BY <2>7 DEF LockReceipt, LockNext
    <2> QED BY <2>1, <2>2, <2>3, <2>4, <2>5, <2>6, <2>7 DEF Serve
  <1> QED BY <1>1 DEF Goto, TypeOK, SessionType, Actors

\* The task's status is written by WriteTask alone; a read makes it durable.
LEMMA TaskStays ==
  ASSUME NEW c \in Callers, Call(c) \/ Serve(c), ~WriteTask(c)
  PROVE  taskVis' = taskVis /\ taskDur' \in {taskDur, taskVis}
  <1> USE DEF ReadReceipt, ReadTask, ReadFailed, Written, WriteFailed, tasks
  <1>1. CASE Call(c)
    BY <1>1 DEF Call, ExecCall, PollCall, CompleteCall, ReconcileCall
  <1>2. CASE PrepareTask(c) \/ PrepareRead(c) \/ PrepareWrite(c) \/ Spawn(c)
    BY <1>2 DEF PrepareTask, PrepareRead, PrepareWrite, Spawn
  <1>3. CASE \/ MarkRunning(c) \/ MarkRunningWrite(c)
             \/ MarkDegraded(c) \/ MarkDegradedWrite(c)
             \/ MarkSpawnFailed(c) \/ MarkSpawnFailedWrite(c)
    BY <1>3 DEF MarkRunning, MarkRunningWrite, MarkDegraded, MarkDegradedWrite,
                MarkSpawnFailed, MarkSpawnFailedWrite
  <1>4. CASE \/ ObserveRunning(c) \/ ObserveEnded(c) \/ ObserveEvicted(c)
             \/ PollRecover(c) \/ AwaitHook(c) \/ PollExpires(c)
    BY <1>4 DEF ObserveRunning, ObserveEnded, ObserveEvicted, PollRecover, AwaitHook, PollExpires
  <1>5. CASE CompleteTask(c) \/ ListReceipts(c)
    BY <1>5 DEF CompleteTask, ListReceipts
  <1>6. CASE ReconcileTask(c) \/ LockReceipt(c) \/ CommitReconciliation(c)
    BY <1>6 DEF ReconcileTask, LockReceipt, CommitReconciliation
  <1> QED BY <1>1, <1>2, <1>3, <1>4, <1>5, <1>6 DEF Serve

\* The ways into the steps that work on the task.
LEMMA TaskEntry ==
  ASSUME TypeOK, NEW c \in Callers, Call(c) \/ Serve(c), pc'[c] \in TaskSteps
  PROVE  \/ PrepareTask(c) /\ pc'[c] = "claim"
         \/ PrepareRead(c) /\ pc'[c] = "writePrepared"
         \/ CompleteTask(c) /\ pc'[c] = "listReceipts"
         \/ ListReceipts(c) /\ pc'[c] = "writeTask"
  <1>1. ASSUME NEW l, Goto(c, l) PROVE pc'[c] = l
    BY <1>1 DEF TypeOK, SessionType, Goto, Actors
  <1>2. ASSUME Return(c) PROVE FALSE
    <2>1. pc'[c] = "idle"
      BY <1>1, <1>2 DEF Return
    <2> QED BY <2>1 DEF TaskSteps
  <1> USE DEF TaskSteps
  <1>3. CASE Call(c)
    BY <1>1, <1>3 DEF Call, ExecCall, PollCall, CompleteCall, ReconcileCall
  <1>4. CASE PrepareTask(c)
    BY <1>1, <1>2, <1>4 DEF PrepareTask
  <1>5. CASE PrepareRead(c)
    BY <1>1, <1>2, <1>5 DEF PrepareRead
  <1>6. CASE PrepareWrite(c) \/ Spawn(c)
    BY <1>1, <1>2, <1>6 DEF PrepareWrite, Spawn
  <1>7. CASE MarkRunning(c) \/ MarkRunningWrite(c)
    BY <1>1, <1>2, <1>7 DEF MarkRunning, MarkRunningWrite, Degrade
  <1>8. CASE \/ MarkDegraded(c) \/ MarkDegradedWrite(c)
             \/ MarkSpawnFailed(c) \/ MarkSpawnFailedWrite(c)
    BY <1>1, <1>2, <1>8 DEF MarkDegraded, MarkDegradedWrite, MarkSpawnFailed,
                            MarkSpawnFailedWrite
  <1>9. CASE \/ ObserveRunning(c) \/ ObserveEvicted(c) \/ PollRecover(c)
             \/ AwaitHook(c) \/ PollExpires(c)
    BY <1>2, <1>9 DEF ObserveRunning, ObserveEvicted, PollRecover, AwaitHook, PollExpires
  <1>10. CASE ObserveEnded(c)
    <2>1. Goto(c, "pollHook") \/ Goto(c, "awaitHook")
      BY <1>10 DEF ObserveEnded
    <2> QED BY <1>1, <2>1
  <1>11. CASE CompleteTask(c)
    BY <1>1, <1>2, <1>11 DEF CompleteTask
  <1>12. CASE ListReceipts(c)
    BY <1>1, <1>2, <1>12 DEF ListReceipts
  <1>13. CASE WriteTask(c) \/ ReconcileTask(c) \/ CommitReconciliation(c)
    BY <1>1, <1>2, <1>13 DEF WriteTask, ReconcileTask, CommitReconciliation
  <1>14. CASE LockReceipt(c)
    BY <1>1, <1>2, <1>14 DEF LockReceipt, LockNext
  <1> QED BY <1>3, <1>4, <1>5, <1>6, <1>7, <1>8, <1>9, <1>10, <1>11, <1>12, <1>13, <1>14
          DEF Serve

\* No receipt is made while the task is closed or about to be.
LEMMA NoBirths ==
  ASSUME IInv, [Next]_vars, TaskInv,
         taskVis # "active" \/ \E d \in Callers : pc[d] = "writeTask",
         NEW o \in Ops, vis[o] = None
  PROVE  vis'[o] = None
  <1> SUFFICES ASSUME vis'[o] # None PROVE FALSE
    OBVIOUS
  <1>1. PICK c \in Callers : pc[c] = "writePrepared"
    BY Births
  <1>2. Holds(c, wsQ) /\ taskVis = "active"
    BY <1>1 DEF TaskInv, TaskWork, TaskSteps
  <1>3. PICK d \in Callers : pc[d] = "writeTask"
    BY <1>2
  <1>4. Holds(d, wsQ)
    BY <1>3 DEF TaskInv, TaskWork, TaskSteps
  <1> QED BY <1>1, <1>2, <1>3, <1>4 DEF Holds

LEMMA ListingCloses ==
  ASSUME IInv, NEW c \in Callers, ListReceipts(c), pc'[c] = "writeTask"
  PROVE  Closed(req[c].choice)' /\ req'[c] = req[c] /\ wsQ' = wsQ
  <1>1. ~Return(c)
    BY DEF Return, Goto, IInv, TypeOK, SessionType, Actors
  <1>2. /\ vis' = vis /\ dur' = vis /\ req' = req /\ wsQ' = wsQ
        /\ \A o \in Ops : ~Unresolved(vis[o], req[c].choice)
    BY <1>1 DEF ListReceipts, locks
  <1> QED BY <1>2 DEF Closed, Closeable, Unresolved

LEMMA RequestTask ==
  ASSUME IInv, IInv', HInv', LedgerStep, TaskInv, [Next]_vars,
         NEW c \in Callers, Call(c) \/ Serve(c)
  PROVE  TaskInv'
  <1>0. TypeOK /\ c \in Actors
    BY DEF IInv, Actors
  <1>1. ASSUME WriteTask(c)
        PROVE  /\ pc[c] = "writeTask" /\ Holds(c, wsQ) /\ taskVis = "active" /\ taskDur = "active"
               /\ Closed(req[c].choice)
    BY <1>1 DEF WriteTask, TaskInv, TaskWork, TaskSteps
  <1>2. ASSUME NEW d \in Callers \ {c} PROVE TaskWork(d)'
    <2>1. pc'[d] = pc[d] /\ req'[d] = req[d]
      BY <1>0, OthersStay
    <2>2. ASSUME pc[d] \in TaskSteps PROVE Holds(d, wsQ') /\ taskVis' = "active"
      <3>1. Holds(d, wsQ) /\ taskVis = "active"
        BY <2>2 DEF TaskInv, TaskWork
      <3>2. ~WriteTask(c)
        BY <1>1, <3>1 DEF Holds
      <3>3. Holds(d, wsQ')
        BY <1>0, <3>1, QueueStep, QueueKeeps
      <3> QED BY <3>1, <3>2, <3>3, TaskStays
    <2>3. ASSUME pc[d] = "writeTask" PROVE Closed(req[d].choice)'
      <3>1. Closed(req[d].choice)
        BY <2>3 DEF TaskInv, TaskWork
      <3>2. \A o \in Ops : vis[o] = None => vis'[o] = None
        BY <2>3, NoBirths
      <3>3. \A outcome : Closed(outcome) => Closed(outcome)'
        BY <3>2, ClosedStays
      <3> QED BY <2>1, <3>1, <3>3 DEF Closed
    <2> QED BY <2>1, <2>2, <2>3 DEF TaskWork
  <1>3. TaskWork(c)'
    <2>1. CASE pc'[c] \notin TaskSteps
      BY <2>1 DEF TaskWork, TaskSteps
    <2>2. CASE PrepareTask(c) /\ pc'[c] = "claim"
      <3>1. ~Return(c)
        BY <1>0, <2>2 DEF Return, Goto, TypeOK, SessionType
      <3> QED BY <2>2, <3>1 DEF PrepareTask, ReadTask, TaskWork
    <2>3. CASE PrepareRead(c) /\ pc'[c] = "writePrepared"
      <3>1. ~Return(c)
        BY <1>0, <2>3 DEF Return, Goto, TypeOK, SessionType
      <3>2. ~Goto(c, "observe")
        BY <1>0, <2>3 DEF Goto, TypeOK, SessionType
      <3>3. wsQ' = wsQ /\ taskVis' = taskVis /\ pc[c] = "claim"
        BY <2>3, <3>1, <3>2 DEF PrepareRead, ReadReceipt, locks, tasks
      <3> QED BY <2>3, <3>3 DEF TaskInv, TaskWork, TaskSteps
    <2>4. CASE CompleteTask(c) /\ pc'[c] = "listReceipts"
      <3>1. ~Return(c)
        BY <1>0, <2>4 DEF Return, Goto, TypeOK, SessionType
      <3> QED BY <2>4, <3>1 DEF CompleteTask, ReadTask, TaskWork, locks
    <2>5. CASE ListReceipts(c) /\ pc'[c] = "writeTask"
      <3>1. Closed(req[c].choice)' /\ req'[c] = req[c] /\ wsQ' = wsQ
        BY <2>5, ListingCloses
      <3>2. pc[c] = "listReceipts" /\ ~WriteTask(c)
        BY <2>5 DEF ListReceipts, WriteTask
      <3>3. taskVis' = taskVis
        BY <3>2, TaskStays
      <3> QED BY <2>5, <3>1, <3>2, <3>3 DEF TaskInv, TaskWork, TaskSteps
    <2> QED BY <1>0, <2>1, <2>2, <2>3, <2>4, <2>5, TaskEntry
  <1>4. (taskDur # "active" => taskVis = taskDur)'
    <2>1. CASE WriteTask(c)
      BY <1>1, <2>1 DEF WriteTask
    <2>2. CASE ~WriteTask(c)
      BY <2>2, TaskStays DEF TaskInv
    <2> QED BY <2>1, <2>2
  <1>5. (taskVis # "active" => Closed(taskVis))'
    <2> SUFFICES ASSUME taskVis' # "active"
                 PROVE  \E outcome : outcome = taskVis' /\ Closed(outcome) /\
                          \A o \in Ops : vis[o] = None => vis'[o] = None
      BY ClosedStays DEF Closed
    <2>1. CASE WriteTask(c)
      <3>1. taskVis' = req[c].choice
        BY <1>1, <2>1 DEF WriteTask
      <3> QED BY <1>1, <2>1, <3>1, NoBirths
    <2>2. CASE ~WriteTask(c)
      <3>1. taskVis' = taskVis
        BY <2>2, TaskStays
      <3> QED BY <3>1, NoBirths DEF TaskInv
    <2> QED BY <2>1, <2>2
  <1> QED BY <1>2, <1>3, <1>4, <1>5 DEF TaskInv

\* Steps that no request takes: the task and the requests stay.
LEMMA OtherTask ==
  ASSUME IInv, IInv', HInv', LedgerStep, TaskInv, [Next]_vars, UNCHANGED <<tasks, req>>,
         \A c \in Callers : pc'[c] = pc[c],
         NEW o \in Ops, wsQ' \in {wsQ, Unlocked(o, wsQ)}
  PROVE  TaskInv'
  <1>1. ASSUME NEW c \in Callers, Holds(c, wsQ) PROVE Holds(c, wsQ')
    <2>1. c # o
      BY ConstantsAssumption
    <2> QED BY <1>1, <2>1, HoldsUnlocked
  <1>2. ASSUME NEW c \in Callers, pc[c] = "writeTask" PROVE Closed(req[c].choice)'
    <2>1. Closed(req[c].choice) /\ \A p \in Ops : vis[p] = None => vis'[p] = None
      BY <1>2, NoBirths DEF TaskInv, TaskWork
    <2>2. \A outcome : Closed(outcome) => Closed(outcome)'
      BY <2>1, ClosedStays
    <2> QED BY <2>1, <2>2 DEF Closed
  <1>3. \A c \in Callers : TaskWork(c)'
    BY <1>1, <1>2 DEF TaskInv, TaskWork, TaskSteps, tasks
  <1>4. (taskVis # "active" => Closed(taskVis))'
    <2> SUFFICES ASSUME taskVis # "active" PROVE Closed(taskVis)'
      BY DEF tasks
    <2>1. Closed(taskVis) /\ \A p \in Ops : vis[p] = None => vis'[p] = None
      BY NoBirths DEF TaskInv
    <2>2. \A outcome : Closed(outcome) => Closed(outcome)'
      BY <2>1, ClosedStays
    <2> QED BY <2>1, <2>2 DEF Closed, tasks
  <1> QED BY <1>3, <1>4 DEF TaskInv, tasks

\* After a restart the task is as it was, or as the disk has it.
LEMMA BootTask ==
  ASSUME IInv, IInv', HInv', LedgerStep, TaskInv, [Next]_vars, NewBoot,
         \/ UNCHANGED tasks
         \/ taskVis' \in {taskVis, taskDur} /\ taskDur' = taskVis'
  PROVE  TaskInv'
  <1>1. \A c \in Callers : TaskWork(c)'
    BY DEF NewBoot, TaskWork, TaskSteps, Actors
  <1>2. taskVis' \in {taskVis, "active"}
    BY DEF TaskInv, tasks
  <1>3. (taskVis # "active" => Closed(taskVis))'
    <2> SUFFICES ASSUME taskVis' # "active" PROVE Closed(taskVis)'
      OBVIOUS
    <2>1. /\ taskVis' = taskVis /\ Closed(taskVis)
          /\ \A p \in Ops : vis[p] = None => vis'[p] = None
      BY <1>2, NoBirths DEF TaskInv
    <2>2. \A outcome : Closed(outcome) => Closed(outcome)'
      BY <2>1, ClosedStays
    <2> QED BY <2>1, <2>2 DEF Closed
  <1> QED BY <1>1, <1>3 DEF TaskInv, tasks

LEMMA TaskInductive ==
  ASSUME IInv, IInv', HInv', LedgerStep, TaskInv, [Next]_vars
  PROVE  TaskInv'
  <1>0. PICK p \in Ops : TRUE
    BY ConstantsAssumption
  <1>1. ASSUME NEW c \in Callers, Call(c) \/ Serve(c) PROVE TaskInv'
    BY <1>1, RequestTask
  <1>2. ASSUME NEW o \in Ops, Finish(o) \/ Hook(o) \/ Evict(o) PROVE TaskInv'
    <2>1. UNCHANGED <<tasks, req>> /\ wsQ' \in {wsQ, Unlocked(o, wsQ)}
      BY <1>2 DEF Finish, Hook, MarkTerminal, MarkTerminalWrite, Evict, HookDone, ReleaseAll,
                  ReadReceipt, ReadFailed, Written, WriteFailed, session, locks, tasks
    <2>2. \A c \in Callers : pc'[c] = pc[c]
      <3>1. pc' = pc \/ \E l : Goto(o, l)
        BY <1>2 DEF Finish, Hook, MarkTerminal, MarkTerminalWrite, Evict, HookDone, session
      <3> QED BY <3>1, ConstantsAssumption DEF Goto, IInv, TypeOK, SessionType, Actors
    <2> QED BY <2>1, <2>2, OtherTask
  <1>3. ASSUME NEW o \in Ops, RecoverReceipt(o) PROVE TaskInv'
    <2>1. UNCHANGED tasks
      BY <1>3 DEF RecoverReceipt, Written, WriteFailed
    <2>2. CASE NewBoot
      BY <2>1, <2>2, BootTask
    <2>3. CASE UNCHANGED <<session, locks>>
      BY <2>1, <2>3, OtherTask DEF session, locks
    <2> QED BY <1>3, <2>2, <2>3 DEF RecoverReceipt
  <1>4. CASE Crash \/ PowerLoss
    BY <1>4, BootTask DEF Crash, PowerLoss
  <1>5. CASE BootDone \/ UNCHANGED vars
    BY <1>0, <1>5, OtherTask DEF BootDone, vars, session, locks
  <1> QED BY <1>1, <1>2, <1>3, <1>4, <1>5 DEF Next

\* A closed task has no receipt that could still run or still be settled, and
\* a completed one no unknown effect that nobody resolved.
THEOREM ClosedTaskIsSettledThm == Spec => []ClosedTaskIsSettled
  <1>1. Init => TaskInv
    BY DEF Init, TaskInv, TaskWork, TaskSteps, Actors
  <1>2. IInv /\ HInv /\ TaskInv /\ [Next]_vars => TaskInv'
    BY Inductive, HistoryInductive, TaskInductive
  <1>3. TaskInv => ClosedTaskIsSettled
    BY DEF TaskInv, Closed, ClosedTaskIsSettled
  <1> QED BY <1>1, <1>2, <1>3, HistoryInvariance, PTL DEF Spec
=============================================================================
