--------------------------- MODULE ServerLifecycle ---------------------------
(***************************************************************************)
(* Server processes that share a state directory: the writer guard of the  *)
(* continuity store (src/src/continuity/task-store.ts), start-up with its  *)
(* boot recovery, the commands a server runs for requests, and the order   *)
(* in which close() of src/src/http-server.ts stops all this, with requests*)
(* in flight, terminal hooks, crashes and the next server's start.         *)
(*                                                                         *)
(* A store call is one step here (StoreJournal and TrackedExecution hold   *)
(* its detail). A server process starts once.                              *)
(***************************************************************************)
EXTENDS Naturals

CONSTANTS
  Servers,     \* server processes
  Operations,  \* commands, each with its operationId
  None         \* no file, no process

ASSUME LifecycleAssumption == None \notin Servers \cup [by : Servers, written : BOOLEAN]

VARIABLES
  lock,      \* writer.lock: None, or who created it and whether it is written
  store,     \* the TaskStore of each server
  attempt,   \* of #acquireWriterGuard
  judged,    \* the owner of the lock each server has read
  robbed,    \* history: servers whose lock was removed as somebody else's
  phase,     \* of each server process
  snapshot,  \* the commands its shutdown terminates
  awaited,   \* the terminal hooks its shutdown waits for
  outlived,  \* history: those that still ran when it stopped waiting
  step,      \* what the handler of each operation does next
  at,        \* the server that handles it
  child,     \* its process
  hook,      \* its terminal hook
  receipt    \* its receipt on disk

vars == <<lock, store, attempt, judged, robbed, phase, snapshot, awaited, outlived,
          step, at, child, hook, receipt>>

lockVars     == <<lock, robbed>>
guardVars    == <<lock, robbed, store, attempt, judged>>
shutdownVars == <<snapshot, awaited, outlived>>
commandVars  == <<step, at, child, hook>>

Alive(s)     == phase[s] \notin {"off", "stopped", "dead"}
Unsettled(o) == receipt[o].state \in {"prepared", "running"}

\* #writerGuardHeld, until close() has removed the file.
Holder(s) == store[s] \in {"held", "undo", "ready", "release"}

\* #initialized: it is reset only after close() has removed the file.
Initialized(s) == store[s] \in {"ready", "release", "releasing"}

Init ==
  /\ lock = None
  /\ store = [s \in Servers |-> "closed"] /\ attempt = [s \in Servers |-> 1]
  /\ judged = [s \in Servers |-> None] /\ robbed = {}
  /\ phase = [s \in Servers |-> "off"]
  /\ snapshot = [s \in Servers |-> {}] /\ awaited = [s \in Servers |-> {}]
  /\ outlived = [s \in Servers |-> {}]
  /\ step = [o \in Operations |-> "idle"] /\ at = [o \in Operations |-> None]
  /\ child = [o \in Operations |-> "none"] /\ hook = [o \in Operations |-> "none"]
  /\ receipt = [o \in Operations |-> [state |-> "none", boot |-> None]]

-----------------------------------------------------------------------------
(***************************************************************************)
(* The writer guard                                                        *)
(***************************************************************************)
Acquire(s) ==
  /\ store' = [store EXCEPT ![s] = "open"]
  /\ attempt' = [attempt EXCEPT ![s] = 1]
  /\ UNCHANGED <<lockVars, judged>>

Start(s) ==
  /\ phase[s] = "off"
  /\ Acquire(s)
  /\ phase' = [phase EXCEPT ![s] = "starting"]
  /\ UNCHANGED <<shutdownVars, commandVars, receipt>>

\* The handlers and hooks of s that wait for its store.
Waiting(s) ==
  {o \in Operations : at[o] = s /\ (step[o] \in {"accepted", "mark"} \/ hook[o] = "pending")}

\* A store call after close() initializes the store again.
Reinitialize(s) ==
  /\ phase[s] = "draining" /\ store[s] = "closed" /\ Waiting(s) # {}
  /\ Acquire(s)
  /\ UNCHANGED <<phase, shutdownVars, commandVars, receipt>>

\* open(file, "wx"): the file exists before its content does.
Open(s) ==
  /\ store[s] = "open"
  /\ IF lock = None
     THEN /\ lock' = [by |-> s, written |-> FALSE]
          /\ robbed' = robbed \ {s}
          /\ store' = [store EXCEPT ![s] = "write"]
     ELSE /\ store' = [store EXCEPT ![s] = "inspect"]
          /\ UNCHANGED lockVars
  /\ UNCHANGED <<attempt, judged, phase, shutdownVars, commandVars, receipt>>

\* The content goes to the file that s opened, removed or not.
Filled(s) == IF lock # None /\ lock.by = s THEN [lock EXCEPT !.written = TRUE] ELSE lock

Write(s) ==
  /\ store[s] = "write"
  /\ lock' = Filled(s)
  /\ store' = [store EXCEPT ![s] = "held"]
  /\ UNCHANGED <<robbed, attempt, judged, phase, shutdownVars, commandVars, receipt>>

\* Mutant: a refused store leaves its callers waiting.
MutantLeavesWaiting(s) ==
  /\ store' = [store EXCEPT ![s] = "closed"]
  /\ judged' = [judged EXCEPT ![s] = None]
  /\ phase' = IF phase[s] = "starting" THEN [phase EXCEPT ![s] = "dead"] ELSE phase
  /\ UNCHANGED <<attempt, shutdownVars, commandVars, receipt>>

\* initialize() throws: a starting process exits; the handlers that wait for
\* it are answered an error, and a terminal hook swallows it.
Refused(s) ==
  /\ store' = [store EXCEPT ![s] = "closed"]
  /\ judged' = [judged EXCEPT ![s] = None]
  /\ phase' = IF phase[s] = "starting" THEN [phase EXCEPT ![s] = "dead"] ELSE phase
  /\ step' = [o \in Operations |->
                IF o \in Waiting(s) /\ step[o] \in {"accepted", "mark"} THEN "answered" ELSE step[o]]
  /\ hook' = [o \in Operations |->
                IF o \in Waiting(s) /\ hook[o] = "pending" THEN "failed" ELSE hook[o]]
  /\ UNCHANGED <<attempt, shutdownVars, at, child, receipt>>

\* A call of the acquisition fails. A failed write, sync or close leaves the
\* new file behind, with or without its content.
GuardFails(s) ==
  /\ \/ store[s] \in {"open", "inspect", "unlink", "undo"} /\ UNCHANGED lock
     \/ store[s] = "write" /\ lock' \in {lock, Filled(s)}
  /\ Refused(s)
  /\ UNCHANGED robbed

\* An empty lock cannot be validated, nor one that is gone.
InspectLock(s) ==
  /\ store[s] = "inspect"
  /\ IF lock = None THEN Refused(s)
     ELSE IF ~ lock.written THEN Refused(s)
     ELSE /\ judged' = [judged EXCEPT ![s] = lock.by]
          /\ store' = [store EXCEPT ![s] = "probe"]
          /\ UNCHANGED <<attempt, phase, shutdownVars, commandVars, receipt>>
  /\ UNCHANGED lockVars

\* Mutant: every owner is taken for dead.
MutantNeverAlive(s) == FALSE

\* process.kill(pid, 0)
OwnerAlive(s) == Alive(s)

\* The owner is alive, or its pid is that of another process by now.
Probe(s) ==
  /\ store[s] = "probe"
  /\ \/ Refused(s)
     \/ /\ ~ OwnerAlive(judged[s])
        /\ store' = [store EXCEPT ![s] = "unlink"]
        /\ UNCHANGED <<attempt, judged, phase, shutdownVars, commandVars, receipt>>
  /\ UNCHANGED lockVars

\* unlink(file), by a caller that takes it for the lock of owner, removes
\* whatever is there now.
Removed(owner) ==
  /\ lock' = None
  /\ robbed' = IF lock = None THEN robbed
               ELSE IF lock.by = owner THEN robbed ELSE robbed \cup {lock.by}

\* After the second attempt it gives up.
Unlink(s) ==
  /\ store[s] = "unlink"
  /\ IF lock = None \/ attempt[s] = 2
     THEN Refused(s)
     ELSE /\ store' = [store EXCEPT ![s] = "open"]
          /\ attempt' = [attempt EXCEPT ![s] = 2]
          /\ judged' = [judged EXCEPT ![s] = None]
          /\ UNCHANGED <<phase, shutdownVars, commandVars, receipt>>
  /\ Removed(judged[s])

\* close() removes the lock only if it has read its own.
OwnLock(s) == lock = [by |-> s, written |-> TRUE]

\* #recoverPreviousBootExecutions
Recovered(s) ==
  [o \in Operations |-> IF Unsettled(o) /\ receipt[o].boot # s
                        THEN [receipt[o] EXCEPT !.state = "unknown"] ELSE receipt[o]]

Recover(s) ==
  /\ store[s] = "held"
  /\ receipt' = Recovered(s)
  /\ store' = [store EXCEPT ![s] = "ready"]
  /\ phase' = IF phase[s] = "starting" THEN [phase EXCEPT ![s] = "up"] ELSE phase
  /\ UNCHANGED <<lockVars, attempt, judged, shutdownVars, commandVars>>

\* It throws, half way too: the store closes itself, and swallows what that
\* throws.
RecoveryFails(s) ==
  /\ store[s] = "held"
  /\ \/ Refused(s)
     \/ /\ OwnLock(s)
        /\ store' = [store EXCEPT ![s] = "undo"]
        /\ UNCHANGED <<attempt, judged, phase, shutdownVars, commandVars, receipt>>
  /\ UNCHANGED lockVars

Undo(s) == store[s] = "undo" /\ Removed(s) /\ Refused(s)

-----------------------------------------------------------------------------
(***************************************************************************)
(* Tracked commands: prepare, spawn, markRunning, terminal hook            *)
(***************************************************************************)
\* The HTTP server accepts requests until httpServer.close().
Accept(s, o) ==
  /\ phase[s] \in {"up", "terminating", "settling", "closing", "failed"}
  /\ step[o] = "idle"
  /\ step' = [step EXCEPT ![o] = "accepted"]
  /\ at' = [at EXCEPT ![o] = s]
  /\ UNCHANGED <<guardVars, phase, shutdownVars, child, hook, receipt>>

Prepare(s, o) ==
  /\ at[o] = s /\ step[o] = "accepted" /\ Initialized(s)
  /\ receipt' = [receipt EXCEPT ![o] = [state |-> "prepared", boot |-> s]]
  /\ step' = [step EXCEPT ![o] = "spawn"]
  /\ UNCHANGED <<guardVars, phase, shutdownVars, at, child, hook>>

Spawn(s, o) ==
  /\ at[o] = s /\ step[o] = "spawn"
  /\ child' = [child EXCEPT ![o] = "running"]
  /\ step' = [step EXCEPT ![o] = "mark"]
  /\ UNCHANGED <<guardVars, phase, shutdownVars, at, hook, receipt>>

MarkRunning(s, o) ==
  /\ at[o] = s /\ step[o] = "mark" /\ Initialized(s)
  /\ receipt' = IF receipt[o].state = "prepared"
                THEN [receipt EXCEPT ![o].state = "running"] ELSE receipt
  /\ step' = [step EXCEPT ![o] = "answered"]
  /\ UNCHANGED <<guardVars, phase, shutdownVars, at, child, hook>>

\* The command ends, by itself or by the signals of shutdown(), and has
\* closed its output.
Ends(s, o) ==
  /\ at[o] = s /\ child[o] = "running"
  /\ child' = [child EXCEPT ![o] = "ended"]
  /\ hook' = [hook EXCEPT ![o] = "pending"]
  /\ UNCHANGED <<guardVars, phase, shutdownVars, step, at, receipt>>

\* markTerminal settles also what another process took for unknown meanwhile.
\* What its write throws, before or after the rename, is swallowed.
TerminalHook(s, o) ==
  /\ at[o] = s /\ hook[o] = "pending" /\ Initialized(s)
  /\ \/ /\ receipt' = [receipt EXCEPT ![o].state = "exited"]
        /\ hook' \in {[hook EXCEPT ![o] = "done"], [hook EXCEPT ![o] = "failed"]}
     \/ /\ hook' = [hook EXCEPT ![o] = "failed"]
        /\ UNCHANGED receipt
  /\ UNCHANGED <<guardVars, phase, shutdownVars, step, at, child>>

-----------------------------------------------------------------------------
(***************************************************************************)
(* close() of the HTTP server                                              *)
(***************************************************************************)
Running(s) == {o \in Operations : at[o] = s /\ child[o] = "running"}

\* Mutant: shutdown() does not wait for the terminal hooks.
MutantNoHooks(s) == {}

\* #pendingLifecycle
PendingLifecycle(s) == {o \in Operations : at[o] = s /\ hook[o] = "pending"}

\* processManager.shutdown(): signals what runs now ...
Shutdown(s) ==
  /\ phase[s] = "up"
  /\ phase' = [phase EXCEPT ![s] = "terminating"]
  /\ snapshot' = [snapshot EXCEPT ![s] = Running(s)]
  /\ UNCHANGED <<awaited, outlived, guardVars, commandVars, receipt>>

\* ... waits until these have ended, or for 5000 ms and, after SIGKILL, for
\* 2000 ms more ...
Terminated(s) ==
  /\ phase[s] = "terminating"
  /\ phase' = [phase EXCEPT ![s] = "settling"]
  /\ awaited' = [awaited EXCEPT ![s] = PendingLifecycle(s)]
  /\ outlived' = [outlived EXCEPT ![s] = snapshot[s] \cap Running(s)]
  /\ UNCHANGED <<snapshot, guardVars, commandVars, receipt>>

\* ... and for the hooks that are pending then.
Settle(s) ==
  /\ phase[s] = "settling" /\ awaited[s] \cap PendingLifecycle(s) = {}
  /\ phase' = [phase EXCEPT ![s] = "closing"]
  /\ UNCHANGED <<shutdownVars, guardVars, commandVars, receipt>>

\* continuityService.close() reads the lock ...
Release(s) ==
  /\ phase[s] = "closing" /\ store[s] = "ready"
  /\ IF lock = None THEN TRUE ELSE lock.written
  /\ store' = [store EXCEPT ![s] = IF OwnLock(s) THEN "release" ELSE "releasing"]
  /\ UNCHANGED <<lockVars, attempt, judged, phase, shutdownVars, commandVars, receipt>>

\* ... removes it if it was its own ...
RemoveLock(s) ==
  /\ store[s] = "release"
  /\ Removed(s)
  /\ store' = [store EXCEPT ![s] = "releasing"]
  /\ UNCHANGED <<attempt, judged, phase, shutdownVars, commandVars, receipt>>

\* ... or throws: the lock is not valid, or it cannot be read or removed. The
\* server goes on then: close() runs only once.
CloseFails(s) ==
  /\ phase[s] = "closing" /\ store[s] \in {"ready", "release"}
  /\ phase' = [phase EXCEPT ![s] = "failed"]
  /\ store' = [store EXCEPT ![s] = "ready"]
  /\ UNCHANGED <<lockVars, attempt, judged, shutdownVars, commandVars, receipt>>

\* It resets #initialized last; httpServer.close() stops accepting.
CloseStore(s) ==
  /\ store[s] = "releasing"
  /\ store' = [store EXCEPT ![s] = "closed"]
  /\ phase' = [phase EXCEPT ![s] = "draining"]
  /\ UNCHANGED <<lockVars, attempt, judged, shutdownVars, commandVars, receipt>>

\* Nothing keeps the event loop alive any more.
Exit(s) ==
  /\ phase[s] = "draining" /\ store[s] \in {"closed", "ready"}
  /\ \A o \in Operations : at[o] = s =>
       step[o] = "answered" /\ child[o] # "running" /\ hook[o] # "pending"
  /\ phase' = [phase EXCEPT ![s] = "stopped"]
  /\ store' = [store EXCEPT ![s] = "closed"]
  /\ UNCHANGED <<lockVars, attempt, judged, shutdownVars, commandVars, receipt>>

\* A crash, or the supervisor's SIGKILL; the commands are orphans then.
Crash(s) ==
  /\ Alive(s)
  /\ phase' = [phase EXCEPT ![s] = "dead"]
  /\ store' = [store EXCEPT ![s] = "closed"]
  /\ judged' = [judged EXCEPT ![s] = None]
  /\ step' = [o \in Operations |-> IF at[o] = s THEN "answered" ELSE step[o]]
  /\ child' = [o \in Operations |-> IF at[o] = s /\ child[o] = "running" THEN "orphan" ELSE child[o]]
  /\ hook' = [o \in Operations |-> IF at[o] = s /\ hook[o] = "pending" THEN "none" ELSE hook[o]]
  /\ UNCHANGED <<lockVars, attempt, shutdownVars, at, receipt>>

Guard(s) ==
  \/ Reinitialize(s) \/ Open(s) \/ Write(s) \/ InspectLock(s) \/ Probe(s) \/ Unlink(s)
  \/ Recover(s) \/ RecoveryFails(s) \/ Undo(s)

Close(s) ==
  \/ Terminated(s) \/ Settle(s) \/ Release(s) \/ RemoveLock(s) \/ CloseFails(s)
  \/ CloseStore(s) \/ Exit(s)

Handles(s, o) == Prepare(s, o) \/ Spawn(s, o) \/ MarkRunning(s, o) \/ TerminalHook(s, o)

Next ==
  \E s \in Servers :
    \/ Start(s) \/ Guard(s) \/ GuardFails(s) \/ Shutdown(s) \/ Close(s) \/ Crash(s)
    \/ \E o \in Operations : Accept(s, o) \/ Handles(s, o) \/ Ends(s, o)

\* A live process goes on with its callbacks. Starts, requests, signals and
\* crashes may never come, and a command may never end: shutdown() signals
\* only what it found running, and there is no timeout by default.
Fairness ==
  \A s \in Servers :
    /\ WF_vars(Guard(s) \/ Close(s))
    /\ \A o \in Operations : WF_vars(Handles(s, o))

Spec == Init /\ [][Next]_vars /\ Fairness

-----------------------------------------------------------------------------
(***************************************************************************)
(* Properties                                                              *)
(***************************************************************************)
TypeOK ==
  /\ lock \in {None} \cup [by : Servers, written : BOOLEAN]
  /\ store \in [Servers -> {"closed", "open", "write", "inspect", "probe", "unlink", "held", "undo",
                            "ready", "release", "releasing"}]
  /\ attempt \in [Servers -> 1..2]
  /\ judged \in [Servers -> Servers \cup {None}] /\ robbed \subseteq Servers
  /\ phase \in [Servers -> {"off", "starting", "up", "terminating", "settling", "closing",
                            "failed", "draining", "stopped", "dead"}]
  /\ snapshot \in [Servers -> SUBSET Operations] /\ awaited \in [Servers -> SUBSET Operations]
  /\ outlived \in [Servers -> SUBSET Operations]
  /\ step \in [Operations -> {"idle", "accepted", "spawn", "mark", "answered"}]
  /\ at \in [Operations -> Servers \cup {None}]
  /\ child \in [Operations -> {"none", "running", "ended", "orphan"}]
  /\ hook \in [Operations -> {"none", "pending", "done", "failed"}]
  /\ receipt \in [Operations -> [state : {"none", "prepared", "running", "exited", "unknown"},
                                 boot : Servers \cup {None}]]
  /\ \A o \in Operations : receipt[o].state = "none" <=> receipt[o].boot = None

\* README.md:314 "Workspace snapshots are atomic JSON files guarded by a single
\* writer": no two live processes hold the guard.
SingleWriter == \A s, t \in Servers : Holder(s) /\ Holder(t) => s = t

\* The lock file names the server that holds the guard, so that a server that
\* starts finds it alive. However starts overlap, there is one way to lose the
\* lock: a process removes it for one it read before (robbed).
LockNamesHolder == \A s \in Servers : Holder(s) /\ s \notin robbed => OwnLock(s)

\* A command that ran when the shutdown began has its receipt settled before
\* the continuity store closes, unless it outlived shutdown()'s waits or the
\* write of its terminal hook failed.
StoppedIsSettled ==
  /\ TypeOK
  /\ \A s \in Servers : phase[s] = "draining" =>
       \A o \in snapshot[s] \ outlived[s] : ~ Unsettled(o) \/ hook[o] = "failed"

\* README.md:325 "Normal service shutdown terminates managed processes first
\* and waits for terminal receipt hooks": once the continuity store is closed
\* the server has no command running and no terminal hook pending.
ShutdownSettles ==
  \A s \in Servers : phase[s] = "draining" => Running(s) = {} /\ PendingLifecycle(s) = {}

Closing(s) == phase[s] \in {"terminating", "settling", "closing", "draining"}

\* All that keeps the process alive is commands it spawned and never stopped.
LeftToCommands(s) ==
  /\ phase[s] = "draining" /\ store[s] \in {"closed", "ready"} /\ Running(s) # {}
  /\ \A o \in Operations : at[o] = s => step[o] = "answered" /\ hook[o] # "pending"

\* A shutdown ends whatever is in flight: late requests that reopen the store,
\* hooks that are refused it, another server that has taken the guard. Left
\* are a close() that throws and commands that go on.
ShutdownEnds ==
  \A s \in Servers :
    Closing(s) ~> phase[s] \in {"stopped", "dead", "failed"} \/ LeftToCommands(s)

=============================================================================
