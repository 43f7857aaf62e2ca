----------------------------- MODULE HostExecutor -----------------------------
(***************************************************************************)
(* Host execution through a directory queue: the service creates a job     *)
(* (src/src/host-executor.ts), a client process relays it                  *)
(* (src/scripts/host-exec-client.mjs) and the native companion claims and  *)
(* runs it (src/scripts/host-executor.mjs). They share only files; the     *)
(* companion, its children and the clients end independently.              *)
(*                                                                         *)
(* Output is counted in chunks. The relay of stdin and the choice of the   *)
(* shell are left out. One companion runs at a time (its lock file is      *)
(* taken as ServerLifecycle's writer guard is).                            *)
(***************************************************************************)
EXTENDS Naturals

CONSTANTS
  Jobs,        \* job directories
  NoJob,
  MaxChunks,   \* bound: chunks of output of a command
  MaxHostFaults  \* bound: crashes of the companion and failed writes of the queue

ASSUME HostAssumption == NoJob \notin Jobs /\ {MaxChunks, MaxHostFaults} \subseteq Nat

VARIABLES
  agent,     \* the companion process
  starting,  \* the job that startJob() or recoverClaimedJobs() is at, and its next step
  file,      \* what each job directory holds
  client,    \* each client process
  got,       \* chunks it has relayed
  child,     \* the command of each job
  made,      \* chunks it has produced
  written,   \* chunks of them in stdout.bin and stderr.bin
  runtime,   \* the companion's record of the job
  launches,  \* history: how often its command was spawned
  hostFaults

hostVars == <<agent, starting, file, client, got, child, made, written, runtime, launches, hostFaults>>

Idle    == [job |-> NoJob, step |-> "none"]
NoFiles == [dir |-> FALSE, request |-> FALSE, claimed |-> FALSE, marker |-> FALSE,
            state |-> FALSE, control |-> FALSE, result |-> "none"]

HostInit ==
  /\ agent = "up" /\ starting = Idle
  /\ file = [j \in Jobs |-> NoFiles]
  /\ client = [j \in Jobs |-> "none"] /\ got = [j \in Jobs |-> 0]
  /\ child = [j \in Jobs |-> "none"] /\ made = [j \in Jobs |-> 0] /\ written = [j \in Jobs |-> 0]
  /\ runtime = [j \in Jobs |-> "none"]
  /\ launches = [j \in Jobs |-> 0] /\ hostFaults = 0

AgentRuns  == agent \in {"up", "stopping"}
InJobs(j)  == runtime[j] \in {"opened", "polled"}
Fresh(j)   == client[j] \in {"polling", "saw", "killed"}  \* client.json is recent

clientVars == <<client, got>>
childVars  == <<child, made, written, launches>>
-----------------------------------------------------------------------------
(* The service and the client. *)

\* createHostExecutorJob(): the request appears by a rename.
CreateJob(j) ==
  /\ ~file[j].dir /\ client[j] = "none"
  /\ file' = [file EXCEPT ![j].dir = TRUE, ![j].request = TRUE]
  /\ UNCHANGED <<agent, starting, clientVars, childVars, runtime, hostFaults>>

StartClient(j) ==
  /\ file[j].dir /\ client[j] = "none"
  /\ client' = [client EXCEPT ![j] = "polling"]
  /\ UNCHANGED <<agent, starting, file, got, childVars, runtime, hostFaults>>

\* drain(), of both files.
Drain(j) ==
  /\ client[j] = "polling" /\ file[j].dir /\ got[j] # written[j]
  /\ got' = [got EXCEPT ![j] = written[j]]
  /\ UNCHANGED <<agent, starting, file, client, childVars, runtime, hostFaults>>

SeeResult(j) ==
  /\ client[j] = "polling" /\ file[j].result # "none"
  /\ client' = [client EXCEPT ![j] = "saw"]
  /\ UNCHANGED <<agent, starting, file, got, childVars, runtime, hostFaults>>

MutantLastDrain(j) == got[j]

LastDrain(j) == written[j]

\* The client drains once more and exits with the result's code.
ExitWithResult(j) ==
  /\ client[j] = "saw" /\ file[j].dir
  /\ got' = [got EXCEPT ![j] = LastDrain(j)]
  /\ client' = [client EXCEPT ![j] = file[j].result]
  /\ UNCHANGED <<agent, starting, file, childVars, runtime, hostFaults>>

\* requestTermination(): the control file is written; the client leaves after four
\* seconds whatever has come of it.
RequestTermination(j) ==
  /\ client[j] = "polling" /\ file[j].dir /\ ~file[j].control
  /\ file' = [file EXCEPT ![j].control = TRUE]
  /\ UNCHANGED <<agent, starting, clientVars, childVars, runtime, hostFaults>>

LeaveTerminated(j) ==
  /\ client[j] = "polling" /\ file[j].control
  /\ client' = [client EXCEPT ![j] = "left"]
  /\ UNCHANGED <<agent, starting, file, got, childVars, runtime, hostFaults>>

\* The client process is killed, and its heartbeat is old some time after.
KillClient(j) ==
  /\ client[j] \in {"polling", "saw", "killed"}
  /\ client' = [client EXCEPT ![j] = IF @ = "killed" THEN "left" ELSE "killed"]
  /\ UNCHANGED <<agent, starting, file, got, childVars, runtime, hostFaults>>

\* cleanup(), when the service has seen the client end.
CleanUp(j) ==
  /\ file[j].dir /\ client[j] \in {"ended", "failed", "left", "killed"}
  /\ file' = [file EXCEPT ![j] = NoFiles]
  /\ UNCHANGED <<agent, starting, clientVars, childVars, runtime, hostFaults>>
-----------------------------------------------------------------------------
(* The companion: scan() and startJob(), one job at a time. *)

\* A write into the queue fails: the directory is gone, or the disk refuses.
WriteMayFail(j) ==
  \/ ~file[j].dir /\ UNCHANGED hostFaults
  \/ file[j].dir /\ hostFaults < MaxHostFaults /\ hostFaults' = hostFaults + 1

\* The companion's memory is lost.
Gone == starting' = Idle /\ runtime' = [j \in Jobs |-> "none"]

At(j, step) == AgentRuns /\ starting = [job |-> j, step |-> step]

Claim(j) ==
  /\ agent = "up" /\ starting = Idle /\ ~InJobs(j)
  /\ file[j].request /\ Fresh(j)
  /\ file' = [file EXCEPT ![j].request = FALSE, ![j].claimed = TRUE]
  /\ starting' = [job |-> j, step |-> "mark"]
  /\ UNCHANGED <<agent, clientVars, childVars, runtime, hostFaults>>

\* A request that cannot be read or run is removed, and answered after that.
Reject(j) ==
  /\ At(j, "mark") /\ file[j].dir
  /\ file' = [file EXCEPT ![j].claimed = FALSE]
  /\ starting' = [starting EXCEPT !.step = "answer"]
  /\ UNCHANGED <<agent, clientVars, childVars, runtime, hostFaults>>

WriteRejection(j) ==
  /\ At(j, "answer") /\ file[j].dir
  /\ file' = [file EXCEPT ![j].result = "failed"]
  /\ starting' = Idle
  /\ UNCHANGED <<agent, clientVars, childVars, runtime, hostFaults>>

Mark(j) ==
  /\ At(j, "mark") /\ file[j].dir
  /\ file' = [file EXCEPT ![j].marker = TRUE]
  /\ starting' = [starting EXCEPT !.step = "spawn"]
  /\ UNCHANGED <<agent, clientVars, childVars, runtime, hostFaults>>

\* The command runs, or its "error" event comes.
SpawnCommand(j) ==
  /\ At(j, "spawn") /\ file[j].dir
  /\ file' = [file EXCEPT ![j].claimed = FALSE]
  /\ starting' = [starting EXCEPT !.step = "save"]
  /\ \/ /\ child' = [child EXCEPT ![j] = "running"]
        /\ launches' = [launches EXCEPT ![j] = @ + 1]
        /\ runtime' = [runtime EXCEPT ![j] = "opened"]
     \/ runtime' = [runtime EXCEPT ![j] = "closing"] /\ UNCHANGED <<child, launches>>
  /\ UNCHANGED <<agent, clientVars, made, written, hostFaults>>

\* The directory went away: the output files cannot be opened, which nothing catches.
SpawnWithoutFiles(j) ==
  /\ At(j, "spawn") /\ ~file[j].dir
  /\ child' = [child EXCEPT ![j] = "running"]
  /\ launches' = [launches EXCEPT ![j] = @ + 1]
  /\ agent' = "down" /\ Gone
  /\ UNCHANGED <<file, clientVars, made, written, hostFaults>>

SaveState(j) ==
  /\ At(j, "save") /\ file[j].dir
  /\ file' = [file EXCEPT ![j].state = child[j] # "none"]
  /\ runtime' = [runtime EXCEPT ![j] = IF @ = "opened" THEN "polled" ELSE @]
  /\ starting' = Idle
  /\ UNCHANGED <<agent, clientVars, childVars, hostFaults>>

\* shutdown(): the children in the job table are killed. A scan that is under way goes on.
Killed == [j \in Jobs |-> IF InJobs(j) /\ child[j] = "running" THEN "exited" ELSE child[j]]

\* The scan rejects: backgroundFailure().
QueueWriteFails(j) ==
  /\ At(j, "mark") \/ At(j, "answer") \/ At(j, "save")
  /\ WriteMayFail(j)
  /\ starting' = Idle /\ agent' = "stopping"
  /\ child' = IF agent = "up" THEN Killed ELSE child
  /\ UNCHANGED <<file, clientVars, made, written, launches, runtime>>

Stop ==
  /\ agent = "up" /\ agent' = "stopping" /\ child' = Killed
  /\ UNCHANGED <<starting, file, clientVars, made, written, launches, runtime, hostFaults>>

\* One tick of the poll timer: a job whose directory is gone, or whose client is, is killed;
\* a command that is asked to terminate does so, or not.
Poll(j) ==
  /\ AgentRuns /\ runtime[j] = "polled" /\ child[j] = "running"
  /\ ~file[j].dir \/ ~Fresh(j) \/ file[j].control
  /\ child' = [child EXCEPT ![j] = "exited"]
  /\ UNCHANGED <<agent, starting, file, clientVars, made, written, launches, runtime, hostFaults>>
-----------------------------------------------------------------------------
(* The command, and finalize(). *)

Produce(j) ==
  /\ child[j] = "running" /\ made[j] < MaxChunks
  /\ made' = [made EXCEPT ![j] = @ + 1]
  /\ UNCHANGED <<agent, starting, file, clientVars, child, written, launches, runtime, hostFaults>>

ChildExits(j) ==
  /\ child[j] = "running"
  /\ child' = [child EXCEPT ![j] = "exited"]
  /\ UNCHANGED <<agent, starting, file, clientVars, made, written, launches, runtime, hostFaults>>

\* The pipes are copied to the files.
Pump(j) ==
  /\ AgentRuns /\ InJobs(j) /\ written[j] < made[j]
  /\ written' = [written EXCEPT ![j] = @ + 1]
  /\ UNCHANGED <<agent, starting, file, clientVars, child, made, launches, runtime, hostFaults>>

\* The "close" event: the pipes have ended, what they held is in the streams.
CloseEvent(j) ==
  /\ AgentRuns /\ InJobs(j) /\ child[j] = "exited"
  /\ runtime' = [runtime EXCEPT ![j] = "closing"]
  /\ UNCHANGED <<agent, starting, file, clientVars, childVars, hostFaults>>

\* closeStream() of both streams.
CloseStreams(j) ==
  /\ AgentRuns /\ runtime[j] = "closing"
  /\ written' = [written EXCEPT ![j] = made[j]]
  /\ runtime' = [runtime EXCEPT ![j] = "closed"]
  /\ UNCHANGED <<agent, starting, file, clientVars, child, made, launches, hostFaults>>

WriteResult(j) ==
  /\ AgentRuns /\ runtime[j] = "closed" /\ file[j].dir
  /\ file' = [file EXCEPT ![j].result = IF child[j] = "none" THEN "failed" ELSE "ended"]
  /\ runtime' = [runtime EXCEPT ![j] = "none"]
  /\ UNCHANGED <<agent, starting, clientVars, childVars, hostFaults>>

\* Nothing catches a failure of finalize(): the companion dies of it.
ResultWriteFails(j) ==
  /\ AgentRuns /\ runtime[j] = "closed" /\ WriteMayFail(j)
  /\ agent' = "down" /\ Gone
  /\ UNCHANGED <<file, clientVars, childVars>>
-----------------------------------------------------------------------------
(* The companion stops, dies and starts. *)

\* process.exit() when the job table is empty or three seconds are over, whatever startJob()
\* and finalize() are doing.
Exit ==
  /\ agent = "stopping" /\ agent' = "down" /\ Gone
  /\ UNCHANGED <<file, clientVars, childVars, hostFaults>>

Die ==
  /\ agent \in {"up", "stopping", "recovering"}
  /\ hostFaults < MaxHostFaults /\ hostFaults' = hostFaults + 1
  /\ agent' = "down" /\ Gone
  /\ UNCHANGED <<file, clientVars, childVars>>

StartAgent ==
  /\ agent = "down" /\ agent' = "recovering"
  /\ UNCHANGED <<starting, file, clientVars, childVars, runtime, hostFaults>>

MutantSeesClaims(j) == file[j].claimed /\ file[j].result = "none"

ClaimedUnresolved(j) == (file[j].claimed \/ file[j].marker) /\ file[j].result = "none"

LiveSavedPid(j) == file[j].state /\ child[j] = "running"

\* recoverClaimedJobs(): a claimed job is not run again; what is left of its request is
\* removed, and a failed result written after that.
RecoverJob(j) ==
  /\ agent = "recovering" /\ starting = Idle /\ ClaimedUnresolved(j) /\ ~LiveSavedPid(j)
  /\ file' = [file EXCEPT ![j].claimed = FALSE]
  /\ starting' = [job |-> j, step |-> "resolve"]
  /\ UNCHANGED <<agent, clientVars, childVars, runtime, hostFaults>>

Resolving(j) == agent = "recovering" /\ starting = [job |-> j, step |-> "resolve"]

WriteRecovery(j) ==
  /\ Resolving(j) /\ file[j].dir
  /\ file' = [file EXCEPT ![j].result = "failed"]
  /\ starting' = Idle
  /\ UNCHANGED <<agent, clientVars, childVars, runtime, hostFaults>>

\* Nothing catches that: the companion does not start.
RecoveryWriteFails(j) ==
  /\ Resolving(j) /\ WriteMayFail(j)
  /\ agent' = "down" /\ Gone
  /\ UNCHANGED <<file, clientVars, childVars>>

\* A saved pid that is alive (or reused) ends the start.
RefuseStart(j) ==
  /\ agent = "recovering" /\ starting = Idle /\ ClaimedUnresolved(j) /\ file[j].state
  /\ agent' = "down"
  /\ UNCHANGED <<starting, file, clientVars, childVars, runtime, hostFaults>>

Ready ==
  /\ agent = "recovering" /\ starting = Idle /\ \A j \in Jobs : ~ClaimedUnresolved(j)
  /\ agent' = "up"
  /\ UNCHANGED <<starting, file, clientVars, childVars, runtime, hostFaults>>

HostNext ==
  \/ \E j \in Jobs :
       \/ CreateJob(j) \/ StartClient(j) \/ Drain(j) \/ SeeResult(j) \/ ExitWithResult(j)
       \/ RequestTermination(j) \/ LeaveTerminated(j) \/ KillClient(j) \/ CleanUp(j)
       \/ Claim(j) \/ Reject(j) \/ WriteRejection(j) \/ Mark(j) \/ SpawnCommand(j) \/ SpawnWithoutFiles(j)
       \/ SaveState(j) \/ QueueWriteFails(j)
       \/ Poll(j) \/ Produce(j) \/ ChildExits(j) \/ Pump(j)
       \/ CloseEvent(j) \/ CloseStreams(j) \/ WriteResult(j) \/ ResultWriteFails(j)
       \/ RecoverJob(j) \/ WriteRecovery(j) \/ RecoveryWriteFails(j) \/ RefuseStart(j)
  \/ Stop \/ Exit \/ Die \/ StartAgent \/ Ready

HostSpec == HostInit /\ [][HostNext]_hostVars
-----------------------------------------------------------------------------
(* Properties. *)

HostTypeOK ==
  /\ agent \in {"up", "stopping", "recovering", "down"}
  /\ starting \in [job : Jobs \cup {NoJob}, step : {"none", "mark", "answer", "spawn", "save", "resolve"}]
  /\ file \in [Jobs -> [dir : BOOLEAN, request : BOOLEAN, claimed : BOOLEAN, marker : BOOLEAN,
                        state : BOOLEAN, control : BOOLEAN, result : {"none", "ended", "failed"}]]
  /\ client \in [Jobs -> {"none", "polling", "saw", "ended", "failed", "left", "killed"}]
  /\ child \in [Jobs -> {"none", "running", "exited"}]
  /\ runtime \in [Jobs -> {"none", "opened", "polled", "closing", "closed"}]
  /\ \A j \in Jobs : got[j] <= written[j] /\ written[j] <= made[j] /\ made[j] <= MaxChunks

\* A claimed job is never replayed: its command is spawned at most once, and not after a
\* result exists, whatever the companion was doing when it died and however often it is
\* started again.
NeverReplayed ==
  /\ \A j \in Jobs : launches[j] <= 1
  /\ \A j \in Jobs : file[j].result # "none" =>
                       ~file[j].request /\ ~(starting.job = j /\ starting.step \in {"mark", "spawn"})

\* A client that leaves with the command's own result has relayed all of its output: the
\* result file appears after the output files are complete, and they are read once more
\* after it is seen.
OutputComplete == \A j \in Jobs : client[j] = "ended" => child[j] = "exited" /\ got[j] = made[j]

\* A job whose pid was saved is not reported as over while its command runs: a companion
\* that finds it alive does not start. (A companion that dies between the spawn and the
\* saving of the pid leaves a command that its successor reports as failed.)
EndedMeansEnded ==
  \A j \in Jobs : child[j] = "running" /\ file[j].state => file[j].result = "none"

\* A host command runs once, and what its client reports of it is true.
HostRunsOnce == HostTypeOK /\ NeverReplayed /\ OutputComplete /\ EndedMeansEnded

\* While the companion is up, it is at each job that it marked as claimed, or the job has its
\* result: neither a death, at whatever step, nor a failed write leaves a marked job aside.
MarkedIsAnswered ==
  agent = "up" =>
    \A j \in Jobs : file[j].marker =>
      starting.job = j \/ runtime[j] # "none" \/ file[j].result # "none"

\* README.md:86 "If the companion restarts while a claimed job is unresolved, that job is
\* marked failed": the same of every job whose request was taken.
ClaimedIsAnswered ==
  agent = "up" =>
    \A j \in Jobs : file[j].dir /\ ~file[j].request =>
      starting.job = j \/ runtime[j] # "none" \/ file[j].result # "none"
=============================================================================
