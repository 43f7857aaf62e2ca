----------------------- MODULE ServerLifecycle_proofs -----------------------
(***************************************************************************)
(* For any number of server processes that start, crash and shut down as   *)
(* they like: types; what the writer guard guarantees although its three   *)
(* calls are not atomic (GuardInv: a lock is lost only by a removal that   *)
(* was meant for another one); and what close() has settled when it closes *)
(* the store (SettleInv, phase by phase).                                  *)
(***************************************************************************)
EXTENDS ServerLifecycle, TLAPS

Stores == {"closed", "open", "write", "inspect", "probe", "unlink", "held", "undo",
           "ready", "release", "releasing"}

Phases ==
  {"off", "starting", "up", "terminating", "settling", "closing", "failed", "draining",
   "stopped", "dead"}

Locks == [by : Servers, written : BOOLEAN]

USE DEF Stores, Phases

\* A lock file is a file.
LEMMA LockRecord ==
  ASSUME NEW s \in Servers, NEW w \in BOOLEAN
  PROVE  [by |-> s, written |-> w] \in Locks /\ [by |-> s, written |-> w] # None
<1>1. [by |-> s, written |-> w] \in Locks
  BY DEF Locks
<1>2. None \notin Locks
  BY LifecycleAssumption DEF LifecycleAssumption, Locks
<1> QED BY <1>1, <1>2

LEMMA LockNames ==
  ASSUME NEW s \in Servers, NEW w \in BOOLEAN, lock = [by |-> s, written |-> w]
  PROVE  lock # None /\ lock.by = s
BY LockRecord

\* The content of a lock names its creator.
LEMMA FilledType ==
  ASSUME NEW s \in Servers, lock \in {None} \cup Locks
  PROVE  /\ Filled(s) \in {None} \cup Locks
         /\ Filled(s) = None <=> lock = None
         /\ lock # None => Filled(s).by = lock.by
         /\ lock # None /\ lock.by # s => Filled(s) = lock
         /\ lock # None /\ lock.by = s => Filled(s) = [by |-> s, written |-> TRUE]
<1>1. CASE lock # None /\ lock.by = s
  <2>1. Filled(s) = [by |-> s, written |-> TRUE]
    BY <1>1 DEF Filled, Locks
  <2>2. [by |-> s, written |-> TRUE] \in Locks /\ [by |-> s, written |-> TRUE] # None
    BY LockRecord
  <2>3. [by |-> s, written |-> TRUE].by = s
    OBVIOUS
  <2> QED BY <1>1, <2>1, <2>2, <2>3
<1>2. CASE ~ (lock # None /\ lock.by = s)
  BY <1>2 DEF Filled
<1> QED BY <1>1, <1>2

-----------------------------------------------------------------------------
(* Type correctness. A receipt has a boot as soon as its command may run.   *)

PreparedInv ==
  \A o \in Operations :
    /\ step[o] \in {"spawn", "mark"} => receipt[o].boot # None
    /\ child[o] # "none" => receipt[o].boot # None
    /\ hook[o] # "none" => child[o] # "none"

TypeInv == TypeOK /\ PreparedInv

\* A refused store changes only what waits for it.
LEMMA TypeRefused ==
  ASSUME TypeInv, NEW s \in Servers, Refused(s), lock' \in {None} \cup Locks, robbed' \subseteq Servers
  PROVE  TypeInv'
<1>1. /\ store' \in [Servers -> Stores] /\ attempt' \in [Servers -> 1..2]
      /\ phase' \in [Servers -> Phases] /\ judged' \in [Servers -> Servers \cup {None}]
      /\ snapshot' \in [Servers -> SUBSET Operations] /\ awaited' \in [Servers -> SUBSET Operations]
      /\ outlived' \in [Servers -> SUBSET Operations]
  BY DEF TypeInv, TypeOK, Refused, shutdownVars
<1>2. /\ step' \in [Operations -> {"idle", "accepted", "spawn", "mark", "answered"}]
      /\ hook' \in [Operations -> {"none", "pending", "done", "failed"}]
      /\ UNCHANGED <<at, child, receipt>>
      /\ \A o \in Operations : step'[o] \in {"spawn", "mark"} => step'[o] = step[o]
      /\ \A o \in Operations : hook'[o] # "none" => hook[o] # "none"
  BY DEF TypeInv, TypeOK, Refused, Waiting
<1>3. TypeOK'
  BY <1>1, <1>2 DEF TypeInv, TypeOK, Locks
<1>4. PreparedInv'
  BY <1>2 DEF TypeInv, PreparedInv
<1> QED BY <1>3, <1>4 DEF TypeInv

\* A removal leaves the types of the lock and of the history alone.
LEMMA TypeRemoved ==
  ASSUME TypeInv, NEW owner, Removed(owner)
  PROVE  lock' \in {None} \cup Locks /\ robbed' \subseteq Servers
<1>1. lock \in {None} \cup Locks /\ robbed \subseteq Servers
  BY DEF TypeInv, TypeOK, Locks
<1> QED BY <1>1 DEF Removed, Locks

LEMMA TypeAcquire ==
  ASSUME TypeInv, NEW s \in Servers, Start(s) \/ Reinitialize(s) PROVE TypeInv'
<1>1. /\ UNCHANGED <<lock, robbed, judged, snapshot, awaited, outlived, step, at, child, hook, receipt>>
      /\ store' = [store EXCEPT ![s] = "open"] /\ attempt' = [attempt EXCEPT ![s] = 1]
      /\ phase' \in {phase, [phase EXCEPT ![s] = "starting"]}
  BY DEF Start, Reinitialize, Acquire, lockVars, shutdownVars, commandVars
<1> QED BY <1>1 DEF TypeInv, TypeOK, PreparedInv

LEMMA TypeOpen ==
  ASSUME TypeInv, NEW s \in Servers, Open(s) PROVE TypeInv'
<1>1. lock' \in {None} \cup [by : Servers, written : BOOLEAN] /\ robbed' \subseteq Servers
  BY LockRecord DEF TypeInv, TypeOK, Open, Locks, lockVars
<1> QED BY <1>1, SMTT(30)
    DEF TypeInv, TypeOK, PreparedInv, Open, shutdownVars, commandVars

LEMMA TypeWrite ==
  ASSUME TypeInv, NEW s \in Servers, Write(s) PROVE TypeInv'
<1>1. lock' \in {None} \cup [by : Servers, written : BOOLEAN]
  BY FilledType DEF TypeInv, TypeOK, Write, Locks
<1> QED BY <1>1, SMTT(30)
    DEF TypeInv, TypeOK, PreparedInv, Write, shutdownVars, commandVars

LEMMA TypeGuardFails ==
  ASSUME TypeInv, NEW s \in Servers, GuardFails(s) PROVE TypeInv'
<1>1. lock' \in {None} \cup Locks /\ robbed' \subseteq Servers
  BY FilledType DEF TypeInv, TypeOK, GuardFails, Locks
<1> QED BY <1>1, TypeRefused DEF GuardFails

LEMMA TypeInspectLock ==
  ASSUME TypeInv, NEW s \in Servers, InspectLock(s) \/ Probe(s) PROVE TypeInv'
<1>1. CASE Refused(s)
  BY <1>1, TypeRefused DEF InspectLock, Probe, TypeInv, TypeOK, lockVars, Locks
<1>2. CASE ~ Refused(s)
  <2>1. /\ UNCHANGED <<lock, robbed, attempt, phase, snapshot, awaited, outlived,
                       step, at, child, hook, receipt>>
        /\ store' \in {[store EXCEPT ![s] = "probe"], [store EXCEPT ![s] = "unlink"]}
        /\ judged' = judged \/ (lock # None /\ judged' = [judged EXCEPT ![s] = lock.by])
    BY <1>2 DEF InspectLock, Probe, lockVars, shutdownVars, commandVars
  <2>2. lock # None => lock.by \in Servers
    BY DEF TypeInv, TypeOK
  <2>3. judged' \in [Servers -> Servers \cup {None}]
    BY <2>1, <2>2 DEF TypeInv, TypeOK
  <2>4. store' \in [Servers -> Stores]
    BY <2>1 DEF TypeInv, TypeOK
  <2>5. TypeOK'
    BY <2>1, <2>3, <2>4 DEF TypeInv, TypeOK
  <2> QED BY <2>1, <2>5 DEF TypeInv, PreparedInv
<1> QED BY <1>1, <1>2

LEMMA TypeUnlink ==
  ASSUME TypeInv, NEW s \in Servers, Unlink(s) PROVE TypeInv'
<1>1. lock' \in {None} \cup Locks /\ robbed' \subseteq Servers
  BY TypeRemoved DEF Unlink
<1>2. CASE Refused(s)
  BY <1>1, <1>2, TypeRefused
<1>3. CASE ~ Refused(s)
  <2>1. /\ UNCHANGED <<phase, snapshot, awaited, outlived, step, at, child, hook, receipt>>
        /\ store' = [store EXCEPT ![s] = "open"] /\ attempt' = [attempt EXCEPT ![s] = 2]
        /\ judged' = [judged EXCEPT ![s] = None]
    BY <1>3 DEF Unlink, shutdownVars, commandVars
  <2> QED BY <1>1, <2>1 DEF TypeInv, TypeOK, PreparedInv, Locks
<1> QED BY <1>2, <1>3

LEMMA TypeUndo ==
  ASSUME TypeInv, NEW s \in Servers, Undo(s) PROVE TypeInv'
BY TypeRemoved, TypeRefused DEF Undo

LEMMA TypeRecover ==
  ASSUME TypeInv, NEW s \in Servers, Recover(s) PROVE TypeInv'
<1>1. \A o \in Operations :
        /\ receipt'[o] \in [state : {"none", "prepared", "running", "exited", "unknown"},
                            boot : Servers \cup {None}]
        /\ receipt'[o].boot = receipt[o].boot
        /\ receipt'[o].state = "none" <=> receipt[o].state = "none"
  BY DEF TypeInv, TypeOK, Recover, Recovered, Unsettled
<1>2. receipt' = [o \in Operations |-> receipt'[o]]
  BY DEF Recover, Recovered
<1> QED BY <1>1, <1>2, SMTT(30)
    DEF Recover, TypeInv, TypeOK, PreparedInv, lockVars, shutdownVars, commandVars

LEMMA TypeRecoveryFails ==
  ASSUME TypeInv, NEW s \in Servers, RecoveryFails(s) PROVE TypeInv'
<1>1. CASE Refused(s)
  BY <1>1, TypeRefused DEF RecoveryFails, TypeInv, TypeOK, lockVars, Locks
<1>2. CASE ~ Refused(s)
  BY <1>2 DEF TypeInv, TypeOK, PreparedInv, RecoveryFails, lockVars, shutdownVars, commandVars
<1> QED BY <1>1, <1>2

LEMMA TypeShutdown ==
  ASSUME TypeInv, NEW s \in Servers, Shutdown(s) \/ Terminated(s) \/ Settle(s) PROVE TypeInv'
<1>1. CASE Shutdown(s)
  BY <1>1 DEF TypeInv, TypeOK, PreparedInv, Shutdown, Running, guardVars, commandVars
<1>2. CASE Terminated(s)
  BY <1>2 DEF TypeInv, TypeOK, PreparedInv, Terminated, Running, PendingLifecycle, guardVars, commandVars
<1>3. CASE Settle(s)
  BY <1>3 DEF TypeInv, TypeOK, PreparedInv, Settle, guardVars, commandVars, shutdownVars
<1> QED BY <1>1, <1>2, <1>3

LEMMA TypeRemoveLock ==
  ASSUME TypeInv, NEW s \in Servers, RemoveLock(s) PROVE TypeInv'
<1>1. lock' \in {None} \cup Locks /\ robbed' \subseteq Servers
  BY TypeRemoved DEF RemoveLock
<1> QED BY <1>1 DEF TypeInv, TypeOK, PreparedInv, RemoveLock, shutdownVars, commandVars, Locks

LEMMA TypeClose ==
  ASSUME TypeInv, NEW s \in Servers, Release(s) \/ CloseFails(s) \/ CloseStore(s) \/ Exit(s)
  PROVE  TypeInv'
<1>1. CASE Release(s)
  BY <1>1 DEF TypeInv, TypeOK, PreparedInv, Release, lockVars, shutdownVars, commandVars
<1>2. CASE CloseFails(s)
  BY <1>2 DEF TypeInv, TypeOK, PreparedInv, CloseFails, lockVars, shutdownVars, commandVars
<1>3. CASE CloseStore(s)
  BY <1>3 DEF TypeInv, TypeOK, PreparedInv, CloseStore, lockVars, shutdownVars, commandVars
<1>4. CASE Exit(s)
  BY <1>4 DEF TypeInv, TypeOK, PreparedInv, Exit, lockVars, shutdownVars, commandVars
<1> QED BY <1>1, <1>2, <1>3, <1>4

LEMMA TypeCrash ==
  ASSUME TypeInv, NEW s \in Servers, Crash(s) PROVE TypeInv'
BY DEF TypeInv, TypeOK, PreparedInv, Crash, lockVars, shutdownVars

LEMMA TypeAccept ==
  ASSUME TypeInv, NEW s \in Servers, NEW o \in Operations, Accept(s, o) PROVE TypeInv'
BY DEF TypeInv, TypeOK, PreparedInv, Accept, guardVars, shutdownVars

LEMMA TypePrepare ==
  ASSUME TypeInv, NEW s \in Servers, NEW o \in Operations, Prepare(s, o) PROVE TypeInv'
BY LifecycleAssumption
DEF LifecycleAssumption, TypeInv, TypeOK, PreparedInv, Prepare, guardVars, shutdownVars

LEMMA TypeSpawn ==
  ASSUME TypeInv, NEW s \in Servers, NEW o \in Operations, Spawn(s, o) PROVE TypeInv'
BY DEF TypeInv, TypeOK, PreparedInv, Spawn, guardVars, shutdownVars

LEMMA TypeMarkRunning ==
  ASSUME TypeInv, NEW s \in Servers, NEW o \in Operations, MarkRunning(s, o) PROVE TypeInv'
BY DEF TypeInv, TypeOK, PreparedInv, MarkRunning, guardVars, shutdownVars

LEMMA TypeEnds ==
  ASSUME TypeInv, NEW s \in Servers, NEW o \in Operations, Ends(s, o) PROVE TypeInv'
BY DEF TypeInv, TypeOK, PreparedInv, Ends, guardVars, shutdownVars

LEMMA TypeTerminalHook ==
  ASSUME TypeInv, NEW s \in Servers, NEW o \in Operations, TerminalHook(s, o) PROVE TypeInv'
<1>1. /\ UNCHANGED <<lock, robbed, store, attempt, judged, phase, snapshot, awaited, outlived, step, at, child>>
      /\ receipt' \in {receipt, [receipt EXCEPT ![o].state = "exited"]}
      /\ hook' \in {[hook EXCEPT ![o] = "done"], [hook EXCEPT ![o] = "failed"]}
      /\ hook[o] = "pending"
  BY DEF TerminalHook, guardVars, shutdownVars
<1>2. receipt[o].boot # None /\ child[o] # "none"
  BY <1>1 DEF TypeInv, PreparedInv
<1>3. hook' \in [Operations -> {"none", "pending", "done", "failed"}]
  BY <1>1 DEF TypeInv, TypeOK
<1>4. /\ receipt' \in [Operations -> [state : {"none", "prepared", "running", "exited", "unknown"},
                                     boot : Servers \cup {None}]]
      /\ \A p \in Operations : receipt'[p].boot = receipt[p].boot
      /\ \A p \in Operations : receipt'[p].state = "none" <=> receipt'[p].boot = None
  <2>1. CASE receipt' = receipt
    BY <2>1 DEF TypeInv, TypeOK
  <2>2. CASE receipt' = [receipt EXCEPT ![o].state = "exited"]
    BY <1>2, <2>2 DEF TypeInv, TypeOK
  <2> QED BY <1>1, <2>1, <2>2
<1>5. TypeOK'
  BY <1>1, <1>3, <1>4 DEF TypeInv, TypeOK
<1>6. \A p \in Operations : hook'[p] # "none" => child[p] # "none"
  BY <1>1, <1>2 DEF TypeInv, TypeOK, PreparedInv
<1> QED BY <1>1, <1>4, <1>5, <1>6 DEF TypeInv, PreparedInv

LEMMA TypeInit == Init => TypeInv
BY SMTT(30) DEF Init, TypeInv, TypeOK, PreparedInv

LEMMA TypeStep ==
  ASSUME TypeInv, [Next]_vars
  PROVE  TypeInv'
<1>1. CASE UNCHANGED vars
  BY <1>1 DEF vars, TypeInv, TypeOK, PreparedInv
<1>2. CASE Next
  BY <1>2, TypeAcquire, TypeOpen, TypeWrite, TypeGuardFails, TypeInspectLock, TypeUnlink,
     TypeUndo, TypeRecover, TypeRecoveryFails, TypeShutdown, TypeRemoveLock, TypeClose,
     TypeCrash, TypeAccept, TypePrepare, TypeSpawn, TypeMarkRunning, TypeEnds, TypeTerminalHook
  DEF Next, Guard, Close, Handles
<1> QED BY <1>1, <1>2

\* Every variable keeps its type, and a receipt that exists names the process
\* that prepared it.
THEOREM TypeCorrect == Spec => []TypeOK
<1>1. TypeInv /\ [Next]_vars => TypeInv'
  BY TypeStep
<1>2. TypeInv => TypeOK
  BY DEF TypeInv
<1> QED BY <1>1, <1>2, TypeInit, PTL DEF Spec

-----------------------------------------------------------------------------
(* The writer guard. A process that removes a lock has judged its owner     *)
(* dead, or takes it for its own: in either case a holder whose lock it     *)
(* removes was not the one it meant.                                        *)

Gone == {"stopped", "dead"}

OpenIsAlive == \A s \in Servers : store[s] # "closed" => Alive(s)

LockerStarted == lock # None => phase[lock.by] # "off"

WriterCreatedLock ==
  \A s \in Servers : store[s] = "write" /\ s \notin robbed => lock = [by |-> s, written |-> FALSE]

\* Whom s took for the owner has started, and has ended when s removes its lock.
JudgedOwner(s) ==
  /\ store[s] = "probe" => judged[s] \in Servers /\ phase[judged[s]] # "off"
  /\ store[s] = "unlink" => judged[s] \in Servers /\ phase[judged[s]] \in Gone

GuardInv ==
  /\ TypeInv /\ OpenIsAlive /\ LockerStarted /\ WriterCreatedLock /\ LockNamesHolder
  /\ \A s \in Servers : JudgedOwner(s)

\* A process starts once and ends once.
PhaseMoves == \A t \in Servers : phase'[t] = phase[t] \/ (phase[t] \notin Gone /\ phase'[t] # "off")

\* A step of s that leaves the lock alone keeps the guard if it does not make
\* s a creator or a holder.
LEMMA GuardKept ==
  ASSUME GuardInv, TypeInv', UNCHANGED lockVars, OpenIsAlive', PhaseMoves, NEW s \in Servers,
         \A t \in Servers \ {s} : store'[t] = store[t] /\ judged'[t] = judged[t],
         Holder(s)' => Holder(s),
         store'[s] = "write" => store[s] = "write",
         \/ store'[s] \notin {"probe", "unlink"}
         \/ store'[s] = store[s] /\ judged'[s] = judged[s]
         \/ JudgedOwner(s)'
  PROVE  GuardInv'
<1>1. lock' = lock /\ robbed' = robbed
  BY DEF lockVars
<1>2. LockerStarted'
  BY <1>1 DEF GuardInv, LockerStarted, PhaseMoves, TypeInv, TypeOK
<1>3. WriterCreatedLock' /\ LockNamesHolder'
  BY <1>1 DEF GuardInv, WriterCreatedLock, LockNamesHolder, Holder, OwnLock
<1>4. ASSUME NEW t \in Servers PROVE JudgedOwner(t)'
  <2>1. CASE store'[t] = store[t] /\ judged'[t] = judged[t]
    BY <2>1 DEF GuardInv, JudgedOwner, PhaseMoves, Gone
  <2>2. CASE ~ (store'[t] = store[t] /\ judged'[t] = judged[t])
    BY <2>2 DEF JudgedOwner
  <2> QED BY <2>1, <2>2
<1> QED BY <1>2, <1>3, <1>4 DEF GuardInv

\* Handlers and the first steps of close() leave every store alone.
LEMMA StoresKept ==
  ASSUME GuardInv, TypeInv', UNCHANGED guardVars, PhaseMoves,
         \A t \in Servers : Alive(t)' <=> Alive(t),
         NEW s \in Servers
  PROVE  GuardInv'
<1>1. UNCHANGED <<lockVars, store, judged>>
  BY DEF guardVars, lockVars
<1>2. OpenIsAlive'
  BY <1>1 DEF GuardInv, OpenIsAlive
<1> QED BY <1>1, <1>2, GuardKept DEF Holder

\* A process that closes its store, or ends, disturbs nobody.
LEMMA RefusedKeeps ==
  ASSUME GuardInv, TypeInv', NEW s \in Servers, UNCHANGED lockVars,
         (store[s] # "closed" /\ Refused(s)) \/ Crash(s) \/ Exit(s) \/ CloseStore(s)
  PROVE  GuardInv'
<1>1. /\ store' = [store EXCEPT ![s] = "closed"]
      /\ judged' \in {judged, [judged EXCEPT ![s] = None]}
      /\ \/ phase' = phase
         \/ phase' = [phase EXCEPT ![s] = "draining"] /\ CloseStore(s)
         \/ \E p \in Gone : phase' = [phase EXCEPT ![s] = p]
  BY DEF Refused, Crash, Exit, CloseStore, Gone
<1>2. /\ \A t \in Servers \ {s} : store'[t] = store[t] /\ judged'[t] = judged[t] /\ phase'[t] = phase[t]
      /\ store'[s] = "closed"
  BY <1>1 DEF GuardInv, TypeInv, TypeOK
<1>3. OpenIsAlive'
  BY <1>2 DEF GuardInv, OpenIsAlive, Alive
<1>4. phase'[s] = phase[s] \/ (phase[s] \notin Gone /\ phase'[s] # "off")
  <2>1. store[s] # "closed" => phase[s] \notin Gone
    BY DEF GuardInv, OpenIsAlive, Alive, Gone
  <2>2. CASE store[s] # "closed" /\ Refused(s)
    BY <1>1, <2>1, <2>2 DEF Gone, GuardInv, TypeInv, TypeOK
  <2>3. CASE Crash(s) \/ Exit(s) \/ CloseStore(s)
    <3>1. phase[s] \notin Gone
      BY <2>1, <2>3 DEF Crash, Exit, CloseStore, Alive, Gone
    <3> QED BY <1>1, <3>1 DEF Gone, GuardInv, TypeInv, TypeOK
  <2> QED BY <2>2, <2>3
<1>5. PhaseMoves
  BY <1>2, <1>4 DEF PhaseMoves
<1> QED BY <1>2, <1>3, <1>5, GuardKept DEF Holder

LEMMA AcquireKeeps ==
  ASSUME GuardInv, TypeInv', NEW s \in Servers, Start(s) \/ Reinitialize(s)
  PROVE  GuardInv'
<1>1. /\ store' = [store EXCEPT ![s] = "open"] /\ UNCHANGED <<lockVars, judged>>
      /\ \/ phase[s] = "off" /\ phase' = [phase EXCEPT ![s] = "starting"]
         \/ phase[s] = "draining" /\ phase' = phase
  BY DEF Start, Reinitialize, Acquire
<1>2. /\ \A t \in Servers \ {s} : store'[t] = store[t] /\ phase'[t] = phase[t]
      /\ store'[s] = "open" /\ Alive(s)'
  BY <1>1 DEF GuardInv, TypeInv, TypeOK, Alive
<1>3. OpenIsAlive'
  BY <1>2 DEF GuardInv, OpenIsAlive, Alive
<1>4. PhaseMoves
  BY <1>1 DEF PhaseMoves, Gone, GuardInv, TypeInv, TypeOK
<1> QED BY <1>1, <1>2, <1>3, <1>4, GuardKept DEF Holder

\* A new lock names its creator, whatever else goes on.
LEMMA OpenKeeps ==
  ASSUME GuardInv, TypeInv', NEW s \in Servers, Open(s)
  PROVE  GuardInv'
<1>1. /\ store[s] = "open" /\ UNCHANGED <<phase, judged>>
      /\ \A t \in Servers \ {s} : store'[t] = store[t]
      /\ store'[s] \in {"write", "inspect"}
  BY DEF Open, GuardInv, TypeInv, TypeOK
<1>2. OpenIsAlive'
  BY <1>1 DEF GuardInv, OpenIsAlive, Alive
<1>3. CASE lock # None
  <2>1. UNCHANGED lockVars /\ store'[s] = "inspect"
    BY <1>3 DEF Open, GuardInv, TypeInv, TypeOK
  <2> QED BY <1>1, <1>2, <2>1, GuardKept DEF Holder, PhaseMoves
<1>4. CASE lock = None
  <2>1. lock' = [by |-> s, written |-> FALSE] /\ robbed' = robbed \ {s} /\ store'[s] = "write"
    BY <1>4 DEF Open, GuardInv, TypeInv, TypeOK
  <2>2. \A t \in Servers : (Holder(t) \/ store[t] = "write") => t \in robbed
    BY <1>4, LockRecord DEF GuardInv, LockNamesHolder, WriterCreatedLock, OwnLock
  <2>3. WriterCreatedLock' /\ LockNamesHolder'
    BY <1>1, <2>1, <2>2 DEF WriterCreatedLock, LockNamesHolder, Holder
  <2>4. LockerStarted'
    BY <1>1, <2>1 DEF GuardInv, OpenIsAlive, LockerStarted, Alive
  <2>5. \A t \in Servers : JudgedOwner(t)'
    BY <1>1, <2>1 DEF GuardInv, JudgedOwner
  <2> QED BY <1>2, <2>3, <2>4, <2>5 DEF GuardInv
<1> QED BY <1>3, <1>4

\* Only its creator writes into the lock.
LEMMA WriteKeeps ==
  ASSUME GuardInv, TypeInv', NEW s \in Servers, store[s] = "write", lock' \in {lock, Filled(s)},
         UNCHANGED robbed,
         \/ /\ store' = [store EXCEPT ![s] = "held"] /\ UNCHANGED <<phase, judged>>
            /\ lock' = Filled(s)
         \/ Refused(s)
  PROVE  GuardInv'
<1>1. /\ lock \in {None} \cup Locks
      /\ \A t \in Servers \ {s} : store'[t] = store[t] /\ judged'[t] = judged[t] /\ phase'[t] = phase[t]
      /\ store'[s] \in {"held", "closed"}
      /\ store'[s] = "held" => lock' = Filled(s) /\ phase'[s] = phase[s]
      /\ phase'[s] \in {phase[s], "dead"}
  BY DEF Refused, GuardInv, TypeInv, TypeOK, Locks
<1>2. /\ s \notin robbed => lock = [by |-> s, written |-> FALSE]
      /\ phase[s] \notin Gone
  BY DEF GuardInv, WriterCreatedLock, OpenIsAlive, Alive, Gone
<1>3. /\ lock' = None <=> lock = None
      /\ lock # None => lock'.by = lock.by
      /\ lock # None /\ lock.by # s => lock' = lock
      /\ lock # None /\ lock.by = s /\ lock' = Filled(s) => lock' = [by |-> s, written |-> TRUE]
  BY <1>1, FilledType
<1>4. OpenIsAlive'
  BY <1>1 DEF GuardInv, OpenIsAlive, Alive
<1>5. LockerStarted'
  BY <1>1, <1>3 DEF GuardInv, LockerStarted, Locks
<1>6. ASSUME NEW t \in Servers, t # s, t \notin robbed, Holder(t) \/ store[t] = "write"
      PROVE  lock' = lock
  <2>1. lock.by = t /\ lock # None
    BY <1>6, LockNames DEF GuardInv, LockNamesHolder, WriterCreatedLock, OwnLock
  <2> QED BY <1>3, <1>6, <2>1
<1>7. WriterCreatedLock'
  BY <1>1, <1>6 DEF GuardInv, WriterCreatedLock
<1>8. ASSUME NEW t \in Servers, Holder(t)', t \notin robbed PROVE OwnLock(t)'
  <2>1. CASE t = s
    <3>1. lock # None /\ lock.by = s /\ lock' = Filled(s)
      BY <1>1, <1>2, <1>8, <2>1, LockNames DEF Holder
    <3> QED BY <1>3, <2>1, <3>1 DEF OwnLock
  <2>2. CASE t # s
    BY <1>1, <1>6, <1>8, <2>2 DEF GuardInv, LockNamesHolder, Holder, OwnLock
  <2> QED BY <2>1, <2>2
<1>9. \A t \in Servers : JudgedOwner(t)'
  BY <1>1, <1>2 DEF GuardInv, JudgedOwner, Gone
<1> QED BY <1>4, <1>5, <1>7, <1>8, <1>9 DEF GuardInv, LockNamesHolder

LEMMA InspectKeeps ==
  ASSUME GuardInv, TypeInv', NEW s \in Servers, InspectLock(s) \/ Probe(s)
  PROVE  GuardInv'
<1>1. UNCHANGED lockVars /\ store[s] \in {"inspect", "probe"}
  BY DEF InspectLock, Probe
<1>2. CASE Refused(s)
  BY <1>1, <1>2, RefusedKeeps
<1>3. CASE ~ Refused(s)
  <2>1. /\ UNCHANGED phase
        /\ \A t \in Servers \ {s} : store'[t] = store[t] /\ judged'[t] = judged[t]
        /\ \/ store'[s] = "probe" /\ lock # None /\ judged'[s] = lock.by
           \/ store[s] = "probe" /\ store'[s] = "unlink" /\ judged'[s] = judged[s]
              /\ ~ OwnerAlive(judged[s])
    BY <1>3 DEF InspectLock, Probe, GuardInv, TypeInv, TypeOK
  <2>2. OpenIsAlive' /\ PhaseMoves
    BY <1>1, <2>1 DEF GuardInv, OpenIsAlive, PhaseMoves, Alive
  <2>3. JudgedOwner(s)'
    <3>1. lock # None => lock.by \in Servers /\ phase[lock.by] # "off"
      BY DEF GuardInv, TypeInv, TypeOK, LockerStarted
    <3>2. store[s] = "probe" => judged[s] \in Servers /\ phase[judged[s]] # "off"
      BY DEF GuardInv, JudgedOwner
    <3> QED BY <2>1, <3>1, <3>2 DEF JudgedOwner, OwnerAlive, Alive, Gone
  <2> QED BY <1>1, <2>1, <2>2, <2>3, GuardKept DEF Holder
<1> QED BY <1>2, <1>3

\* A removal takes the lock from nobody else unnoticed. s no longer holds or
\* writes it, and is not the holder it means unless it means itself.
LEMMA RemovedKeeps ==
  ASSUME GuardInv, TypeInv', NEW s \in Servers, NEW owner \in Servers, Removed(owner),
         owner = s \/ phase[owner] \in Gone,
         \A t \in Servers \ {s} : store'[t] = store[t] /\ judged'[t] = judged[t] /\ phase'[t] = phase[t],
         store'[s] \in {"closed", "open", "releasing"},
         store'[s] # "closed" => phase'[s] = phase[s],
         store[s] # "closed",
         phase'[s] \in {phase[s], "dead"}
  PROVE  GuardInv'
<1>1. OpenIsAlive'
  BY DEF GuardInv, OpenIsAlive, Alive
<1>2. LockerStarted'
  BY DEF LockerStarted, Removed
<1>3. ASSUME NEW t \in Servers \ {s}, Holder(t) \/ store[t] = "write"
      PROVE  t \in robbed'
  <2>1. Alive(t) /\ t # owner
    BY <1>3 DEF GuardInv, OpenIsAlive, Holder, Alive, Gone
  <2>2. t \notin robbed => lock # None /\ lock.by = t
    BY <1>3, LockNames DEF GuardInv, LockNamesHolder, WriterCreatedLock, OwnLock
  <2> QED BY <2>1, <2>2 DEF Removed
<1>4. WriterCreatedLock' /\ LockNamesHolder'
  BY <1>3 DEF WriterCreatedLock, LockNamesHolder, Holder
<1>5. phase[s] \notin Gone
  BY DEF GuardInv, OpenIsAlive, Alive, Gone
<1>6. \A t \in Servers : JudgedOwner(t)'
  BY <1>5 DEF GuardInv, JudgedOwner, Gone
<1> QED BY <1>1, <1>2, <1>4, <1>6 DEF GuardInv

LEMMA UnlinkKeeps ==
  ASSUME GuardInv, TypeInv', NEW s \in Servers, Unlink(s) \/ Undo(s) \/ RemoveLock(s)
  PROVE  GuardInv'
<1>1. /\ store'[s] \in {"closed", "open", "releasing"}
      /\ \A t \in Servers \ {s} : store'[t] = store[t] /\ judged'[t] = judged[t] /\ phase'[t] = phase[t]
      /\ store[s] # "closed"
      /\ phase'[s] \in {phase[s], "dead"}
      /\ store'[s] # "closed" => phase'[s] = phase[s]
  BY DEF Unlink, Undo, RemoveLock, Refused, GuardInv, TypeInv, TypeOK
<1>2. CASE Unlink(s)
  <2>1. judged[s] \in Servers /\ phase[judged[s]] \in Gone /\ Removed(judged[s])
    BY <1>2 DEF Unlink, GuardInv, JudgedOwner
  <2> QED BY <1>1, <2>1, RemovedKeeps
<1>3. CASE Undo(s) \/ RemoveLock(s)
  <2>1. Removed(s)
    BY <1>3 DEF Undo, RemoveLock
  <2> QED BY <1>1, <2>1, RemovedKeeps
<1> QED BY <1>2, <1>3

\* The other steps of a holder.
LEMMA HolderKeeps ==
  ASSUME GuardInv, TypeInv', NEW s \in Servers,
         Recover(s) \/ RecoveryFails(s) \/ Release(s) \/ CloseFails(s)
  PROVE  GuardInv'
<1>1. UNCHANGED lockVars /\ store[s] \in {"held", "ready", "release"}
  BY DEF Recover, RecoveryFails, Release, CloseFails
<1>2. CASE Refused(s)
  BY <1>1, <1>2, RefusedKeeps
<1>3. CASE ~ Refused(s)
  <2>1. /\ UNCHANGED judged
        /\ \A t \in Servers \ {s} : store'[t] = store[t] /\ phase'[t] = phase[t]
        /\ store'[s] \in {"undo", "ready", "release", "releasing"}
        /\ phase'[s] = phase[s] \/ phase'[s] \in {"up", "failed"}
    BY <1>3 DEF Recover, RecoveryFails, Release, CloseFails, GuardInv, TypeInv, TypeOK
  <2>2. Alive(s) /\ OpenIsAlive'
    BY <1>1, <2>1 DEF GuardInv, OpenIsAlive, Alive
  <2>3. PhaseMoves
    BY <2>1, <2>2 DEF PhaseMoves, Alive, Gone
  <2> QED BY <1>1, <2>1, <2>2, <2>3, GuardKept DEF Holder
<1> QED BY <1>2, <1>3

LEMMA CommandKeeps ==
  ASSUME GuardInv, TypeInv', NEW s \in Servers,
         \/ Shutdown(s) \/ Terminated(s) \/ Settle(s)
         \/ \E o \in Operations : Accept(s, o) \/ Handles(s, o) \/ Ends(s, o)
  PROVE  GuardInv'
<1>1. UNCHANGED guardVars
  BY DEF Shutdown, Terminated, Settle, Accept, Handles, Prepare, Spawn, MarkRunning, Ends, TerminalHook
<1>2. \/ UNCHANGED phase
      \/ /\ phase[s] \in {"up", "terminating", "settling"}
         /\ \E p \in {"terminating", "settling", "closing"} : phase' = [phase EXCEPT ![s] = p]
  BY DEF Shutdown, Terminated, Settle, Accept, Handles, Prepare, Spawn, MarkRunning, Ends, TerminalHook
<1>3. PhaseMoves /\ \A t \in Servers : Alive(t)' <=> Alive(t)
  BY <1>2 DEF PhaseMoves, Alive, Gone, GuardInv, TypeInv, TypeOK
<1> QED BY <1>1, <1>3, StoresKept

LEMMA GuardStep ==
  ASSUME GuardInv, [Next]_vars
  PROVE  GuardInv'
<1>1. TypeInv'
  BY TypeStep DEF GuardInv
<1>2. CASE UNCHANGED vars
  BY <1>1, <1>2 DEF vars, GuardInv, OpenIsAlive, LockerStarted, WriterCreatedLock, LockNamesHolder,
     JudgedOwner, Alive, Holder, OwnLock
<1>3. ASSUME NEW s \in Servers, Guard(s) \/ Start(s)
      PROVE  GuardInv'
  <2>1. CASE Write(s)
    BY <1>1, <2>1, WriteKeeps DEF Write
  <2> QED BY <1>1, <1>3, <2>1, AcquireKeeps, OpenKeeps, InspectKeeps, UnlinkKeeps, HolderKeeps DEF Guard
<1>4. ASSUME NEW s \in Servers, GuardFails(s)
      PROVE  GuardInv'
  <2>1. Refused(s) /\ store[s] # "closed"
    BY <1>4 DEF GuardFails
  <2>2. CASE store[s] = "write"
    BY <1>1, <1>4, <2>1, <2>2, WriteKeeps DEF GuardFails
  <2>3. CASE store[s] # "write"
    BY <1>1, <1>4, <2>1, <2>3, RefusedKeeps DEF GuardFails, lockVars
  <2> QED BY <2>2, <2>3
<1>5. ASSUME NEW s \in Servers, Close(s) \/ Crash(s) \/ Shutdown(s)
      PROVE  GuardInv'
  <2>1. CASE Crash(s) \/ Exit(s) \/ CloseStore(s)
    <3>1. UNCHANGED lockVars
      BY <2>1 DEF Crash, Exit, CloseStore
    <3> QED BY <1>1, <2>1, <3>1, RefusedKeeps
  <2> QED BY <1>1, <1>5, <2>1, HolderKeeps, UnlinkKeeps, CommandKeeps DEF Close
<1>6. ASSUME NEW s \in Servers, NEW o \in Operations, Accept(s, o) \/ Handles(s, o) \/ Ends(s, o)
      PROVE  GuardInv'
  BY <1>1, <1>6, CommandKeeps
<1> QED BY <1>2, <1>3, <1>4, <1>5, <1>6 DEF Next

LEMMA GuardStart == Init => GuardInv
<1> SUFFICES ASSUME Init PROVE GuardInv
  OBVIOUS
<1>1. TypeInv /\ \A s \in Servers : store[s] = "closed"
  BY TypeInit DEF Init
<1>2. OpenIsAlive /\ LockerStarted /\ WriterCreatedLock /\ LockNamesHolder /\ \A s \in Servers : JudgedOwner(s)
  BY <1>1 DEF Init, OpenIsAlive, LockerStarted, WriterCreatedLock, LockNamesHolder, JudgedOwner, Holder
<1> QED BY <1>1, <1>2 DEF GuardInv

\* However many processes start, crash, reuse pids and race for the guard: a
\* holder whose lock nobody has removed as another's is named by it.
THEOREM LockNamesHolderThm == Spec => []LockNamesHolder
<1>1. GuardInv /\ [Next]_vars => GuardInv'
  BY GuardStep
<1>2. GuardInv => LockNamesHolder
  BY DEF GuardInv
<1> QED BY <1>1, <1>2, GuardStart, PTL DEF Spec

-----------------------------------------------------------------------------
(* The order of close(): what ran when it began, and ended within the waits *)
(* of shutdown(), has its terminal hook run before the store closes.        *)

Working == {"up", "terminating", "settling", "closing", "failed"}

\* The store of a working server is open until the server closes it.
StoreIsOpen ==
  \A s \in Servers :
    /\ phase[s] \in Working => store[s] \in {"ready", "release", "releasing"}
    /\ store[s] \in {"release", "releasing"} => phase[s] = "closing"

WorkInv ==
  \A o \in Operations :
    /\ step[o] = "idle" => at[o] = None
    /\ child[o] # "none" => step[o] \in {"mark", "answered"}
    /\ hook[o] = "done" => ~ Unsettled(o)

\* On a working server, a command that ended has its hook.
HookInv ==
  \A s \in Servers, o \in Operations :
    at[o] = s =>
      /\ phase[s] \notin {"off", "starting"}
      /\ phase[s] \in Working /\ child[o] = "ended" => hook[o] \in {"pending", "done", "failed"}

\* What each phase of close() has established of the commands it found running.
Established(s, o) ==
  phase[s] \in {"terminating", "settling", "closing", "draining"} =>
    /\ at[o] = s /\ child[o] \in {"running", "ended"}
    /\ phase[s] # "terminating" /\ o \notin outlived[s] =>
         /\ child[o] = "ended"
         /\ hook[o] \in {"done", "failed"} \/ (phase[s] = "settling" /\ o \in awaited[s])

SnapshotInv == \A s \in Servers : \A o \in snapshot[s] : Established(s, o)

SettleInv == TypeInv /\ StoreIsOpen /\ WorkInv /\ HookInv /\ SnapshotInv

\* A step that changes no command, and no server that has begun to work.
LEMMA SettledStays ==
  ASSUME SettleInv, TypeInv',
         UNCHANGED <<snapshot, awaited, outlived, at, child, hook, step>>,
         \A o \in Operations : Unsettled(o)' => Unsettled(o),
         StoreIsOpen',
         \A s \in Servers : phase'[s] = phase[s] \/ (phase[s] \in {"off", "starting"} /\ phase'[s] \in {"starting", "up"})
  PROVE  SettleInv'
<1>1. WorkInv'
  BY DEF SettleInv, WorkInv
<1>2. HookInv'
  BY DEF SettleInv, HookInv
<1>3. SnapshotInv'
  <2>1. ASSUME NEW s \in Servers, NEW o \in snapshot[s],
               phase'[s] \in {"terminating", "settling", "closing", "draining"}
        PROVE  phase'[s] = phase[s] /\ o \in Operations
    BY <2>1 DEF SettleInv, TypeInv, TypeOK
  <2> QED BY <2>1 DEF SettleInv, SnapshotInv, Established
<1> QED BY <1>1, <1>2, <1>3 DEF SettleInv

\* The guard, as far as it admits or works on.
LEMMA GuardSettles ==
  ASSUME SettleInv, NEW s \in Servers, TypeInv', Start(s) \/ Guard(s), ~ Refused(s)
  PROVE  SettleInv'
<1>1. UNCHANGED <<snapshot, awaited, outlived, at, child, hook, step>>
  BY DEF Start, Guard, Reinitialize, Open, Write, InspectLock, Probe, Unlink, Recover,
         RecoveryFails, Undo, shutdownVars, commandVars
<1>2. \A o \in Operations : Unsettled(o)' => Unsettled(o)
  <2>1. receipt' = receipt \/ receipt' = Recovered(s)
    BY DEF Start, Guard, Reinitialize, Open, Write, InspectLock, Probe, Unlink, Recover,
           RecoveryFails, Undo
  <2> QED BY <2>1 DEF Unsettled, Recovered
<1>3. /\ \A t \in Servers \ {s} : phase'[t] = phase[t] /\ store'[t] = store[t]
      /\ store'[s] \notin {"release", "releasing"}
      /\ \/ phase'[s] = phase[s] /\ (store'[s] = "ready" \/ store[s] \notin {"ready", "release", "releasing"})
         \/ phase[s] = "off" /\ phase'[s] = "starting"
         \/ phase[s] = "starting" /\ phase'[s] = "up" /\ store'[s] = "ready"
  BY DEF Start, Guard, Reinitialize, Acquire, Open, Write, InspectLock, Probe, Unlink, Recover,
         RecoveryFails, Undo, SettleInv, TypeInv, TypeOK
<1>4. StoreIsOpen'
  BY <1>3 DEF SettleInv, StoreIsOpen, Working
<1>5. \A t \in Servers :
        phase'[t] = phase[t] \/ (phase[t] \in {"off", "starting"} /\ phase'[t] \in {"starting", "up"})
  BY <1>3
<1> QED BY <1>1, <1>2, <1>4, <1>5, SettledStays

\* A server whose store is refused is not working.
LEMMA RefusedSettles ==
  ASSUME SettleInv, NEW s \in Servers, store[s] \notin {"ready", "release", "releasing"}, Refused(s), TypeInv'
  PROVE  SettleInv'
<1>1. /\ store' = [store EXCEPT ![s] = "closed"]
      /\ phase' = (IF phase[s] = "starting" THEN [phase EXCEPT ![s] = "dead"] ELSE phase)
      /\ UNCHANGED <<snapshot, awaited, outlived, at, child, receipt>>
      /\ \A o \in Operations :
           /\ at[o] # s => step'[o] = step[o] /\ hook'[o] = hook[o]
           /\ step'[o] # step[o] => step[o] # "idle" /\ step'[o] = "answered"
           /\ hook'[o] # hook[o] => hook[o] = "pending" /\ hook'[o] = "failed"
  BY DEF Refused, Waiting, shutdownVars
<1>2. phase[s] \notin Working
  BY DEF SettleInv, StoreIsOpen
<1>3. StoreIsOpen'
  BY <1>1, <1>2 DEF SettleInv, TypeInv, TypeOK, StoreIsOpen, Working
<1>4. WorkInv'
  BY <1>1 DEF SettleInv, WorkInv, Unsettled
<1>5. \A t \in Servers : phase'[t] = phase[t] \/ (t = s /\ phase'[t] = "dead")
  BY <1>1 DEF SettleInv, TypeInv, TypeOK
<1>6. HookInv'
  BY <1>1, <1>2, <1>5 DEF SettleInv, HookInv, Working
<1>7. SnapshotInv'
  <2>1. ASSUME NEW t \in Servers, NEW o \in snapshot[t],
               phase'[t] \in {"terminating", "settling", "closing", "draining"}
        PROVE  o \in Operations /\ phase'[t] = phase[t] /\ Established(t, o)
    BY <1>5, <2>1 DEF SettleInv, TypeInv, TypeOK, SnapshotInv
  <2> QED BY <1>1, <2>1 DEF SnapshotInv, Established
<1> QED BY <1>3, <1>4, <1>6, <1>7 DEF SettleInv

\* A handler or a command of one server.
LEMMA HandlerSettles ==
  ASSUME SettleInv, NEW s \in Servers, NEW o \in Operations, TypeInv',
         Accept(s, o) \/ Handles(s, o) \/ Ends(s, o)
  PROVE  SettleInv'
<1>1. UNCHANGED <<store, phase, snapshot, awaited, outlived>>
  BY DEF Accept, Handles, Prepare, Spawn, MarkRunning, Ends, TerminalHook, guardVars, shutdownVars
<1>2. StoreIsOpen'
  BY <1>1 DEF SettleInv, StoreIsOpen
<1>3. \A p \in Operations \ {o} :
        /\ step'[p] = step[p] /\ at'[p] = at[p] /\ child'[p] = child[p] /\ hook'[p] = hook[p]
        /\ receipt'[p] = receipt[p]
  BY DEF Accept, Handles, Prepare, Spawn, MarkRunning, Ends, TerminalHook, SettleInv, TypeInv, TypeOK
<1>4. \/ step[o] = "idle" /\ step'[o] = "accepted" /\ at'[o] = s /\ phase[s] \in Working
         /\ child'[o] = child[o] /\ hook'[o] = hook[o] /\ receipt'[o] = receipt[o]
      \/ at[o] = s /\ at'[o] = s /\ step[o] = "accepted" /\ step'[o] = "spawn"
         /\ child'[o] = child[o] /\ hook'[o] = hook[o]
      \/ at[o] = s /\ at'[o] = s /\ step[o] = "spawn" /\ step'[o] = "mark"
         /\ child'[o] = "running" /\ hook'[o] = hook[o] /\ receipt'[o] = receipt[o]
      \/ at[o] = s /\ at'[o] = s /\ step[o] = "mark" /\ step'[o] = "answered"
         /\ child'[o] = child[o] /\ hook'[o] = hook[o] /\ (Unsettled(o)' => Unsettled(o))
      \/ at[o] = s /\ at'[o] = s /\ step'[o] = step[o] /\ child[o] = "running" /\ child'[o] = "ended"
         /\ hook'[o] = "pending" /\ receipt'[o] = receipt[o]
      \/ at[o] = s /\ at'[o] = s /\ step'[o] = step[o] /\ child'[o] = child[o]
         /\ hook[o] = "pending" /\ (hook'[o] = "failed" \/ (hook'[o] = "done" /\ ~ Unsettled(o)'))
  <2>1. CASE TerminalHook(s, o)
    BY <2>1 DEF TerminalHook, SettleInv, TypeInv, TypeOK, Unsettled
  <2>2. CASE Accept(s, o) \/ Prepare(s, o) \/ Spawn(s, o) \/ MarkRunning(s, o) \/ Ends(s, o)
    BY <2>2 DEF Accept, Prepare, Spawn, MarkRunning, Ends, SettleInv, TypeInv, TypeOK, Unsettled, Working
  <2> QED BY <2>1, <2>2 DEF Handles
<1>5. /\ step[o] = "idle" => at[o] = None
      /\ child[o] # "none" => step[o] \in {"mark", "answered"}
      /\ hook[o] # "none" => child[o] # "none"
      /\ hook[o] = "done" => ~ Unsettled(o)
      /\ None \notin Servers
  BY LifecycleAssumption DEF LifecycleAssumption, SettleInv, WorkInv, TypeInv, PreparedInv
<1>6. WorkInv'
  <2>1. /\ step'[o] = "idle" => at'[o] = None
        /\ child'[o] # "none" => step'[o] \in {"mark", "answered"}
    BY <1>4, <1>5
  <2>2. hook'[o] = "done" => ~ Unsettled(o)'
    BY <1>4, <1>5 DEF Unsettled
  <2> QED BY <1>3, <2>1, <2>2 DEF SettleInv, WorkInv, Unsettled
<1>7. HookInv'
  <2>1. ASSUME NEW t \in Servers, at'[o] = t
        PROVE  /\ phase[t] \notin {"off", "starting"}
               /\ phase[t] \in Working /\ child'[o] = "ended" => hook'[o] \in {"pending", "done", "failed"}
    BY <1>4, <1>5, <2>1 DEF SettleInv, HookInv, Working
  <2> QED BY <1>1, <1>3, <2>1 DEF SettleInv, HookInv
<1>8. SnapshotInv'
  <2>1. ASSUME NEW t \in Servers, NEW p \in snapshot[t] PROVE Established(t, p)'
    <3>1. p \in Operations /\ Established(t, p)
      BY DEF SettleInv, SnapshotInv, TypeInv, TypeOK
    <3>2. CASE p # o
      BY <1>1, <1>3, <3>1, <3>2 DEF Established
    <3>3. CASE p = o
      <4>1. CASE child[o] = "running" /\ child'[o] = "ended" /\ at'[o] = at[o]
        BY <1>1, <3>1, <3>3, <4>1 DEF Established
      <4>2. CASE child'[o] = child[o] /\ at'[o] = at[o] /\ (hook'[o] = hook[o] \/ hook'[o] \in {"done", "failed"})
        BY <1>1, <3>1, <3>3, <4>2 DEF Established
      <4>3. CASE child[o] = "none"
        BY <1>1, <3>1, <3>3, <4>3 DEF Established
      <4> QED BY <1>4, <1>5, <4>1, <4>2, <4>3
    <3> QED BY <3>2, <3>3
  <2> QED BY <1>1, <2>1 DEF SnapshotInv
<1> QED BY <1>2, <1>6, <1>7, <1>8 DEF SettleInv

\* The steps of close() itself.
LEMMA ShutdownSettled ==
  ASSUME SettleInv, NEW s \in Servers, TypeInv',
         Shutdown(s) \/ (Close(s) /\ ~ Exit(s))
  PROVE  SettleInv'
<1>1. /\ UNCHANGED <<step, at, child, hook, receipt>>
      /\ \A t \in Servers \ {s} :
           /\ phase'[t] = phase[t] /\ store'[t] = store[t]
           /\ snapshot'[t] = snapshot[t] /\ awaited'[t] = awaited[t] /\ outlived'[t] = outlived[t]
  BY DEF Shutdown, Close, Terminated, Settle, Release, RemoveLock, CloseFails, CloseStore,
         guardVars, shutdownVars, commandVars, SettleInv, TypeInv, TypeOK
<1>2. \/ /\ phase[s] = "up" /\ phase'[s] = "terminating" /\ store'[s] = store[s]
         /\ snapshot'[s] = Running(s)
      \/ /\ phase[s] = "terminating" /\ phase'[s] = "settling" /\ store'[s] = store[s]
         /\ snapshot'[s] = snapshot[s] /\ outlived'[s] = snapshot[s] \cap Running(s)
         /\ awaited'[s] = PendingLifecycle(s)
      \/ /\ phase[s] = "settling" /\ phase'[s] = "closing" /\ store'[s] = store[s]
         /\ snapshot'[s] = snapshot[s] /\ outlived'[s] = outlived[s]
         /\ awaited[s] \cap PendingLifecycle(s) = {}
      \/ /\ phase[s] = "closing" /\ phase'[s] = "closing" /\ store'[s] \in {"release", "releasing"}
         /\ snapshot'[s] = snapshot[s] /\ outlived'[s] = outlived[s]
      \/ /\ phase[s] = "closing" /\ phase'[s] = "failed" /\ store'[s] = "ready"
      \/ /\ phase[s] = "closing" /\ phase'[s] = "draining" /\ store'[s] = "closed"
         /\ snapshot'[s] = snapshot[s] /\ outlived'[s] = outlived[s]
  BY DEF Shutdown, Close, Terminated, Settle, Release, RemoveLock, CloseFails, CloseStore,
         guardVars, shutdownVars, commandVars, SettleInv, TypeInv, TypeOK, StoreIsOpen
<1>3. StoreIsOpen'
  BY <1>1, <1>2 DEF SettleInv, StoreIsOpen, Working
<1>4. WorkInv'
  BY <1>1 DEF SettleInv, WorkInv, Unsettled
<1>5. HookInv'
  BY <1>1, <1>2 DEF SettleInv, HookInv, Working
<1>6. ASSUME NEW t \in Servers, NEW o \in snapshot'[t] PROVE Established(t, o)'
  <2>1. o \in Operations
    BY <1>6 DEF TypeInv, TypeOK
  <2>2. CASE t # s
    BY <1>1, <1>6, <2>2 DEF SettleInv, SnapshotInv, Established
  <2>3. CASE t = s /\ phase[s] = "up"
    BY <1>1, <1>2, <1>6, <2>1, <2>3 DEF Running, Established
  <2>4. CASE t = s /\ phase'[s] = "failed"
    BY <2>4 DEF Established
  <2>5. CASE t = s /\ phase[s] # "up" /\ phase'[s] # "failed"
    <3>1. o \in snapshot[s] /\ Established(s, o) /\ phase[s] \in {"terminating", "settling", "closing"}
      BY <1>2, <1>6, <2>5 DEF SettleInv, SnapshotInv
    <3>2. /\ at[o] = s /\ child[o] \in {"running", "ended"}
          /\ child[o] = "ended" => hook[o] \in {"pending", "done", "failed"}
      BY <2>1, <3>1 DEF SettleInv, HookInv, Working, Established
    <3>3. /\ o \in Running(s) <=> child[o] = "running"
          /\ o \in PendingLifecycle(s) <=> hook[o] = "pending"
      BY <2>1, <3>2 DEF Running, PendingLifecycle
    <3>4. CASE phase[s] = "terminating"
      BY <1>1, <1>2, <2>5, <3>1, <3>2, <3>3, <3>4 DEF Established
    <3>5. CASE phase[s] = "settling"
      BY <1>1, <1>2, <2>5, <3>1, <3>2, <3>3, <3>5 DEF Established
    <3>6. CASE phase[s] = "closing"
      BY <1>1, <1>2, <2>5, <3>1, <3>2, <3>6 DEF Established
    <3> QED BY <3>1, <3>4, <3>5, <3>6
  <2> QED BY <2>2, <2>3, <2>4, <2>5
<1>7. SnapshotInv'
  BY <1>6 DEF SnapshotInv
<1> QED BY <1>3, <1>4, <1>5, <1>7 DEF SettleInv

LEMMA EndSettled ==
  ASSUME SettleInv, NEW s \in Servers, TypeInv', Exit(s) \/ Crash(s)
  PROVE  SettleInv'
<1>1. /\ UNCHANGED <<snapshot, awaited, outlived, at, receipt>>
      /\ store' = [store EXCEPT ![s] = "closed"] /\ phase'[s] \in {"stopped", "dead"}
      /\ \A t \in Servers \ {s} : phase'[t] = phase[t]
      /\ \A o \in Operations :
           /\ at[o] # s => step'[o] = step[o] /\ child'[o] = child[o] /\ hook'[o] = hook[o]
           /\ step'[o] # step[o] => at[o] = s /\ step'[o] = "answered"
           /\ child'[o] # "none" => child[o] # "none"
           /\ hook'[o] = "done" => hook[o] = "done"
  BY DEF Exit, Crash, shutdownVars, commandVars, SettleInv, TypeInv, TypeOK
<1>2. StoreIsOpen'
  BY <1>1 DEF SettleInv, StoreIsOpen, TypeInv, TypeOK, Working
<1>3. WorkInv'
  <2>1. None \notin Servers
    BY LifecycleAssumption DEF LifecycleAssumption
  <2> QED BY <1>1, <2>1 DEF SettleInv, WorkInv, Unsettled
<1>4. HookInv'
  BY <1>1 DEF SettleInv, HookInv, Working
<1>5. SnapshotInv'
  <2>1. ASSUME NEW t \in Servers, NEW o \in snapshot[t],
               phase'[t] \in {"terminating", "settling", "closing", "draining"}
        PROVE  Established(t, o) /\ t # s /\ at[o] = t /\ o \in Operations /\ phase'[t] = phase[t]
    BY <1>1, <2>1 DEF SettleInv, SnapshotInv, TypeInv, TypeOK, Established
  <2> QED BY <1>1, <2>1 DEF SnapshotInv, Established
<1> QED BY <1>2, <1>3, <1>4, <1>5 DEF SettleInv

LEMMA SettleStep ==
  ASSUME SettleInv, [Next]_vars
  PROVE  SettleInv'
<1>1. TypeInv'
  BY TypeStep DEF SettleInv
<1>2. CASE UNCHANGED vars
  BY <1>1, <1>2 DEF vars, SettleInv, StoreIsOpen, WorkInv, HookInv, SnapshotInv, Established, Unsettled
<1>3. ASSUME NEW s \in Servers, Start(s) \/ Guard(s) \/ GuardFails(s)
      PROVE  SettleInv'
  <2>1. CASE Refused(s)
    <3>1. store[s] \notin {"ready", "release", "releasing"}
      <4>1. ~ Start(s)
        BY <2>1 DEF Start, Acquire, Refused, SettleInv, TypeInv, TypeOK
      <4> QED BY <1>3, <4>1 DEF Guard, GuardFails, Reinitialize, Open, Write, InspectLock, Probe,
                 Unlink, Recover, RecoveryFails, Undo
    <3> QED BY <1>1, <2>1, <3>1, RefusedSettles
  <2>2. CASE ~ Refused(s)
    BY <1>1, <1>3, <2>2, GuardSettles DEF GuardFails
  <2> QED BY <2>1, <2>2
<1>4. ASSUME NEW s \in Servers, Shutdown(s) \/ Close(s) \/ Crash(s)
      PROVE  SettleInv'
  BY <1>1, <1>4, ShutdownSettled, EndSettled
<1>5. ASSUME NEW s \in Servers, NEW o \in Operations, Accept(s, o) \/ Handles(s, o) \/ Ends(s, o)
      PROVE  SettleInv'
  BY <1>1, <1>5, HandlerSettles
<1> QED BY <1>2, <1>3, <1>4, <1>5 DEF Next

\* A command that ran when close() began, and ended within its waits, has run
\* its terminal hook before the continuity store closes: its receipt is settled
\* unless the hook's write failed.
THEOREM StoppedIsSettledThm == Spec => []StoppedIsSettled
<1>1. Init => SettleInv
  <2> SUFFICES ASSUME Init PROVE SettleInv
    OBVIOUS
  <2>1. TypeInv
    BY TypeInit
  <2> QED BY <2>1, LifecycleAssumption
          DEF Init, SettleInv, StoreIsOpen, WorkInv, HookInv, SnapshotInv, Working
<1>2. SettleInv /\ [Next]_vars => SettleInv'
  BY SettleStep
<1>3. SettleInv => StoppedIsSettled
  <2> SUFFICES ASSUME SettleInv, NEW s \in Servers, phase[s] = "draining", NEW o \in snapshot[s] \ outlived[s]
               PROVE  ~ Unsettled(o) \/ hook[o] = "failed"
    BY DEF SettleInv, TypeInv, StoppedIsSettled
  <2>1. o \in Operations /\ Established(s, o)
    BY DEF SettleInv, TypeInv, TypeOK, SnapshotInv
  <2> QED BY <2>1 DEF Established, SettleInv, WorkInv
<1> QED BY <1>1, <1>2, <1>3, PTL DEF Spec
=============================================================================
