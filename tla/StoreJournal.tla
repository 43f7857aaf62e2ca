---------------------------- MODULE StoreJournal ----------------------------
(***************************************************************************)
(* The files of one workspace directory under TaskStore: atomic writes,    *)
(* the cache of confirmed files, and the redo journal of commitWorkspace   *)
(* with its recovery (src/src/continuity/task-store.ts,                    *)
(* storage-journal.ts, storage-durability.ts).                             *)
(*                                                                         *)
(* #storageQueue lets one store operation run at a time, so there is one   *)
(* thread of control; each action is one file system call, and the process *)
(* or the power may fail before and after each of them.  A rename or a     *)
(* deletion is durable once its directory is synced; until then a power    *)
(* loss may leave any of the contents the name has had since the last sync. *)
(***************************************************************************)
EXTENDS Integers, FiniteSets

CONSTANTS
  Receipts,      \* the receipt files, executions/<operationId>.json
  State,         \* the snapshot, state.json
  Absent,        \* the content of a journal file that does not exist
  MaxVersion,    \* bound: contents written
  MaxFaults,     \* bound: file system calls that fail
  MaxCrashes     \* bound: crashes and power losses

ASSUME StoreAssumption ==
  /\ State \notin Receipts /\ Receipts # {}
  /\ MaxVersion \in Nat /\ MaxFaults \in Nat /\ MaxCrashes \in Nat

VARIABLES
  vis, may,             \* each target: its content, and what a power loss may leave
  payload, payloadMay,  \* transactions/<id>.json, likewise
  marker, markerMay,    \* transactions/<id>.json.commit: the payload it hashes
  job,                  \* the store operation in progress
  durable,              \* #durableFiles
  indexed,              \* #indexes holds this workspace
  recoveryRequired,     \* #recoveryRequired, or initialize() has not finished
  known,                \* the newest version a caller was told of (history)
  scope,                \* the targets each version is for (history)
  last, faults, crashes \* counters of the bounds

targets == <<vis, may>>
journal == <<payload, payloadMay, marker, markerMay>>
cache   == <<durable, indexed>>
bounds  == <<last, scope, faults, crashes>>
vars    == <<targets, journal, job, cache, recoveryRequired, known, bounds>>

Targets  == Receipts \cup {State}
Versions == 0..MaxVersion

\* before and after hash the contents, so they are versions here.
Journal ==
  UNION {[before : [S -> Versions], after : [S -> Versions]] :
           S \in {R \cup {State} : R \in SUBSET Receipts}}

ASSUME AbsentAssumption == Absent \notin Journal

Scope(j) == DOMAIN j.after

Job ==
  [op     : {"none", "write", "commit", "recover"},
   pc     : {"idle", "rename", "sync", "scan", "confirm", "payload", "payloadSync",
             "marker", "markerSync", "persist", "check", "apply", "applySync",
             "applyConfirm", "rmPayload", "rmPayloadSync", "rmMarker",
             "rmMarkerSync", "finalSync", "corrupt"},
   target : Targets,                  \* the target being written
   txn    : Journal \cup {Absent},    \* the journal in memory
   batch  : SUBSET Targets,           \* the targets of the transaction ...
   left   : SUBSET Targets]           \* ... and those still to visit

NoJob == [op |-> "none", pc |-> "idle", target |-> State, txn |-> Absent,
          batch |-> {}, left |-> {}]

Init ==
  /\ vis = [f \in Targets |-> 0] /\ may = [f \in Targets |-> {0}]
  /\ payload = Absent /\ payloadMay = {Absent}
  /\ marker = Absent /\ markerMay = {Absent}
  /\ job = NoJob
  /\ durable = {} /\ indexed = FALSE
  /\ recoveryRequired = TRUE
  /\ known = [f \in Targets |-> 0] /\ scope = [v \in Versions |-> {}]
  /\ last = 0 /\ faults = 0 /\ crashes = 0

-----------------------------------------------------------------------------
(* File system.  Syncing a directory settles every name in it.              *)

Dir(f) == IF f = State THEN "workspace" ELSE "executions"

MutantSyncsFileOnly(f) == may' = may

\* syncDirectory from the file's directory up to the workspace directory.
SyncUp(f) ==
  may' = [g \in Targets |-> IF Dir(g) \in {Dir(f), "workspace"} THEN {vis[g]} ELSE may[g]]

SyncTransactions == payloadMay' = {payload} /\ markerMay' = {marker}

SyncJournal ==
  /\ SyncTransactions
  /\ may' = [may EXCEPT ![State] = {vis[State]}]

Rename(f, v) ==
  /\ vis' = [vis EXCEPT ![f] = v]
  /\ may' = [may EXCEPT ![f] = @ \cup {v}]

\* #atomicWrite withdraws the proof of durability before it touches the file.
MutantKeepsMark(f) == durable

Unmarked(f) == durable \ {f}

\* #index: rebuilding it forgets what was confirmed.
Marks == IF indexed THEN durable ELSE {}

At(o, label) == job.op = o /\ job.pc = label

Goto(label) == job' = [job EXCEPT !.pc = label]

Tell(S) == known' = [f \in Targets |-> IF f \in S THEN vis[f] ELSE known[f]]

-----------------------------------------------------------------------------
(* Reads and single writes (readExecution, readWorkspace, writeExecution,   *)
(* writeWorkspace).                                                         *)

MutantUnconfirmed(f) == may' = may

\* #confirmDurable
Confirm(f) == IF f \in Marks THEN may' = may ELSE SyncUp(f)

\* Each new content is a version of its own (the records carry timestamps).
NewVersion(S) ==
  /\ last < MaxVersion
  /\ last' = last + 1 /\ scope' = [scope EXCEPT ![last + 1] = S]
  /\ UNCHANGED <<faults, crashes>>

Read(f) ==
  /\ job.op = "none" /\ ~recoveryRequired
  /\ Confirm(f)
  /\ durable' = Marks \cup {f} /\ indexed' = TRUE
  /\ known' = [known EXCEPT ![f] = vis[f]]
  /\ UNCHANGED <<vis, journal, job, recoveryRequired, bounds>>

StartWrite(f) ==
  /\ job.op = "none" /\ ~recoveryRequired
  /\ job' = [NoJob EXCEPT !.op = "write", !.pc = "rename", !.target = f]
  /\ durable' = Marks /\ indexed' = TRUE
  /\ NewVersion({f})
  /\ UNCHANGED <<targets, journal, recoveryRequired, known>>

WriteRename ==
  /\ At("write", "rename")
  /\ Rename(job.target, last)
  /\ durable' = Unmarked(job.target)
  /\ Goto("sync")
  /\ UNCHANGED <<journal, indexed, recoveryRequired, known, bounds>>

WriteSync ==
  /\ At("write", "sync")
  /\ SyncUp(job.target)
  /\ durable' = durable \cup {job.target}
  /\ Tell({job.target})
  /\ job' = NoJob
  /\ UNCHANGED <<vis, journal, indexed, recoveryRequired, bounds>>

-----------------------------------------------------------------------------
(* commitWorkspace.  Its caller has read every target under its locks.      *)

\* The records of a journal always end with the snapshot.
Batch(R) == R \cup {State}

StartCommit(R) ==
  LET S == Batch(R) IN
  /\ job.op = "none" /\ ~recoveryRequired /\ last < MaxVersion
  /\ job' = [NoJob EXCEPT !.op = "commit", !.pc = "confirm", !.batch = S, !.left = S]
  /\ UNCHANGED <<targets, journal, cache, recoveryRequired, known, bounds>>

CommitRead ==
  /\ At("commit", "confirm")
  /\ \E f \in job.left :
       /\ Confirm(f)
       /\ durable' = Marks \cup {f} /\ indexed' = TRUE
       /\ known' = [known EXCEPT ![f] = vis[f]]
       /\ job' = [job EXCEPT !.left = @ \ {f}]
  /\ UNCHANGED <<vis, journal, recoveryRequired, bounds>>

\* A receipt that already has the resolution asked for is in the journal, but
\* keeps its content.
PrepareJournal ==
  /\ At("commit", "confirm") /\ job.left = {}
  /\ \E kept \in SUBSET (job.batch \ {State}) :
       /\ NewVersion(job.batch \ kept)
       /\ job' = [job EXCEPT
            !.pc  = "payload",
            !.txn = [before |-> [f \in job.batch |-> vis[f]],
                     after  |-> [f \in job.batch |-> IF f \in kept THEN vis[f] ELSE last + 1]]]
  /\ UNCHANGED <<targets, journal, cache, recoveryRequired, known>>

PutPayload ==
  /\ At("commit", "payload")
  /\ payload' = job.txn /\ payloadMay' = payloadMay \cup {job.txn}
  /\ Goto("payloadSync")
  /\ UNCHANGED <<targets, marker, markerMay, cache, recoveryRequired, known, bounds>>

PutMarker ==
  /\ At("commit", "marker")
  /\ marker' = job.txn /\ markerMay' = markerMay \cup {job.txn}
  /\ Goto("markerSync")
  /\ UNCHANGED <<targets, payload, payloadMay, cache, recoveryRequired, known, bounds>>

JournalSync ==
  /\ job.op = "commit" /\ job.pc \in {"payloadSync", "markerSync"}
  /\ SyncJournal
  /\ Goto(IF job.pc = "payloadSync" THEN "marker" ELSE "persist")
  /\ UNCHANGED <<vis, payload, marker, cache, recoveryRequired, known, bounds>>

-----------------------------------------------------------------------------
(* apply, for a commit and for a recovery.                                  *)

MutantTrustsMarker == UNCHANGED <<may, payloadMay, markerMay>>

PersistSync == SyncJournal

\* Payload and decision become durable before any target is touched.
Persist ==
  /\ job.pc = "persist"
  /\ PersistSync
  /\ Goto("check")
  /\ UNCHANGED <<vis, payload, marker, cache, recoveryRequired, known, bounds>>

Conflict(j) == \E f \in Scope(j) : vis[f] \notin {j.before[f], j.after[f]}

\* On a conflict the store refuses every operation (state_corrupt).
Check ==
  /\ job.pc = "check"
  /\ job' = IF Conflict(job.txn)
            THEN [job EXCEPT !.pc = "corrupt"]
            ELSE [job EXCEPT !.pc = "apply", !.left = Scope(job.txn)]
  /\ UNCHANGED <<targets, journal, cache, recoveryRequired, known, bounds>>

\* The receipts are applied before the snapshot.
NextTargets(S) == IF S = {State} THEN S ELSE S \ {State}

Apply ==
  /\ job.pc = "apply"
  /\ \E f \in NextTargets(job.left) :
       IF vis[f] = job.txn.after[f]
       THEN /\ job' = [job EXCEPT !.pc = "applyConfirm", !.target = f]
            /\ UNCHANGED <<targets, durable>>
       ELSE /\ job' = [job EXCEPT !.pc = "applySync", !.target = f]
            /\ Rename(f, job.txn.after[f])
            /\ durable' = Unmarked(f)
  /\ UNCHANGED <<journal, indexed, recoveryRequired, known, bounds>>

ApplySync ==
  /\ job.pc = "applySync"
  /\ SyncUp(job.target)
  /\ durable' = durable \cup {job.target}
  /\ Goto("applyConfirm")
  /\ UNCHANGED <<vis, journal, indexed, recoveryRequired, known, bounds>>

ApplyConfirm ==
  /\ job.pc = "applyConfirm"
  /\ SyncUp(job.target)
  /\ LET rest == job.left \ {job.target} IN
       job' = [job EXCEPT !.left = rest, !.pc = IF rest = {} THEN "rmPayload" ELSE "apply"]
  /\ UNCHANGED <<vis, journal, cache, recoveryRequired, known, bounds>>

RemovePayload ==
  /\ job.pc = "rmPayload"
  /\ payload' = Absent /\ payloadMay' = payloadMay \cup {Absent}
  /\ Goto("rmPayloadSync")
  /\ UNCHANGED <<targets, marker, markerMay, cache, recoveryRequired, known, bounds>>

RemoveMarker ==
  /\ job.pc = "rmMarker"
  /\ marker' = Absent /\ markerMay' = markerMay \cup {Absent}
  /\ Goto("rmMarkerSync")
  /\ UNCHANGED <<targets, payload, payloadMay, cache, recoveryRequired, known, bounds>>

\* A payload without a marker was only prepared; nothing else is to be removed.
RemovePayloadSync ==
  /\ job.pc = "rmPayloadSync"
  /\ SyncTransactions
  /\ Goto(IF marker = Absent THEN "finalSync" ELSE "rmMarker")
  /\ UNCHANGED <<targets, payload, marker, cache, recoveryRequired, known, bounds>>

\* The commit answers its caller, and its finally drops the index.
RemoveMarkerSync ==
  /\ job.pc = "rmMarkerSync"
  /\ SyncTransactions
  /\ IF job.op = "commit"
     THEN job' = NoJob /\ indexed' = FALSE /\ Tell(job.batch)
     ELSE Goto("finalSync") /\ UNCHANGED <<indexed, known>>
  /\ UNCHANGED <<targets, payload, marker, durable, recoveryRequired, bounds>>

-----------------------------------------------------------------------------
(* recoverJournals: at boot, and before the operation that follows a failed *)
(* commit.                                                                  *)

StartRecovery ==
  /\ job.op = "none" /\ recoveryRequired
  /\ job' = [NoJob EXCEPT !.op = "recover", !.pc = "scan"]
  /\ durable' = {}
  /\ UNCHANGED <<targets, journal, indexed, recoveryRequired, known, bounds>>

Scan ==
  /\ job.pc = "scan"
  /\ job' = CASE payload # Absent /\ marker = Absent -> [job EXCEPT !.pc = "rmPayload"]
              [] payload # Absent /\ marker = payload ->
                   [job EXCEPT !.pc = "persist", !.txn = payload, !.batch = Scope(payload)]
              [] payload # Absent /\ marker \notin {Absent, payload} ->
                   [job EXCEPT !.pc = "corrupt"]
              [] payload = Absent /\ marker # Absent -> [job EXCEPT !.pc = "rmMarker"]
              [] OTHER -> [job EXCEPT !.pc = "finalSync"]
  /\ UNCHANGED <<targets, journal, cache, recoveryRequired, known, bounds>>

MutantForgetsSync == UNCHANGED <<payloadMay, markerMay>>

LastSync == SyncTransactions

\* Completes any deletion whose own sync failed.
FinalSync ==
  /\ job.pc = "finalSync"
  /\ LastSync
  /\ job' = NoJob
  /\ recoveryRequired' = FALSE
  /\ UNCHANGED <<targets, payload, marker, cache, known, bounds>>

-----------------------------------------------------------------------------
(* Failures.  A call that fails ends the operation: a commit that has begun *)
(* to write requires recovery, and a failed recovery is tried again.  (A    *)
(* sync that fails may have settled some names: what it leaves possible is  *)
(* a subset of what is left possible here.)                                 *)

Throw ==
  /\ job.op # "none" /\ job.pc # "corrupt" /\ faults < MaxFaults
  /\ faults' = faults + 1
  /\ recoveryRequired' = (recoveryRequired \/ (job.op = "commit" /\ job.pc # "confirm"))
  /\ durable' = IF job.op = "write" THEN Unmarked(job.target) ELSE durable
  /\ indexed' = (indexed /\ job.pc = "confirm")
  /\ job' = NoJob
  /\ UNCHANGED <<targets, journal, known, scope, last, crashes>>

\* The next process starts with nothing but the files.
Restart ==
  /\ crashes < MaxCrashes
  /\ crashes' = crashes + 1
  /\ job' = NoJob /\ durable' = {} /\ indexed' = FALSE /\ recoveryRequired' = TRUE
  /\ UNCHANGED <<known, scope, last, faults>>

Crash == Restart /\ UNCHANGED <<targets, journal>>

PowerLoss ==
  /\ Restart
  /\ vis' \in {g \in [Targets -> UNION {may[f] : f \in Targets}] :
                 \A f \in Targets : g[f] \in may[f]}
  /\ payload' \in payloadMay /\ marker' \in markerMay
  /\ may' = [f \in Targets |-> {vis'[f]}]
  /\ payloadMay' = {payload'} /\ markerMay' = {marker'}

-----------------------------------------------------------------------------
Next ==
  \/ \E f \in Targets : Read(f) \/ StartWrite(f)
  \/ WriteRename \/ WriteSync
  \/ \E R \in SUBSET Receipts : StartCommit(R)
  \/ CommitRead \/ PrepareJournal \/ PutPayload \/ PutMarker \/ JournalSync
  \/ Persist \/ Check \/ Apply \/ ApplySync \/ ApplyConfirm
  \/ RemovePayload \/ RemovePayloadSync \/ RemoveMarker \/ RemoveMarkerSync
  \/ StartRecovery \/ Scan \/ FinalSync
  \/ Throw \/ Crash \/ PowerLoss

Spec == Init /\ [][Next]_vars

-----------------------------------------------------------------------------
(* Properties.                                                              *)

JournalType ==
  /\ payload \in Journal \cup {Absent} /\ payloadMay \subseteq Journal \cup {Absent}
  /\ marker \in Journal \cup {Absent} /\ markerMay \subseteq Journal \cup {Absent}

TypeOK ==
  /\ vis \in [Targets -> Versions] /\ may \in [Targets -> SUBSET Versions]
  /\ JournalType
  /\ job \in Job
  /\ durable \subseteq Targets /\ indexed \in BOOLEAN /\ recoveryRequired \in BOOLEAN
  /\ known \in [Targets -> Versions] /\ scope \in [Versions -> SUBSET Targets]
  /\ last \in Versions /\ faults \in 0..MaxFaults /\ crashes \in 0..MaxCrashes

\* Recovery never meets a journal that conflicts with its targets or with its
\* marker (storage-journal.ts 63 and 110), whatever failed before: that error
\* would refuse every later operation of the workspace.
NeverCorrupt == TypeOK /\ job.pc # "corrupt"

\* A file in #durableFiles needs no sync: what a read returns without one is
\* what a power loss leaves.
CacheIsSound == \A f \in durable : may[f] = {vis[f]}

\* While the store serves requests, nothing of an earlier journal is left, not
\* even as a deletion that a power loss could undo: a stale journal would later
\* be replayed over newer receipts.
NoStaleJournal ==
  ~recoveryRequired /\ (job.op # "commit" \/ job.pc \in {"confirm", "payload"}) =>
    payloadMay = {Absent} /\ markerMay = {Absent}

\* No version that a caller read or was told to be written is ever undone, by a
\* failed call, a crash, a power loss or the replay of a journal.
KnownSurvives == \A f \in Targets : \A v \in may[f] : v >= known[f]

\* The journal decides once its payload and its marker are both durable: from
\* then on the transaction has happened, although its targets are still old.
Decided ==
  payload # Absent /\ marker = payload /\ payloadMay = {payload} /\ markerMay = {marker}

InTransaction(f) == Decided /\ f \in Scope(payload)

\* The store implements AtomicCommit: transactions are all or nothing, through
\* failed calls, crashes and power losses at any point.
Abstract ==
  INSTANCE AtomicCommit
    WITH content <- [f \in Targets |-> IF InTransaction(f) THEN payload.after[f] ELSE vis[f]],
         undo    <- [f \in Targets |-> IF InTransaction(f) THEN {} ELSE may[f] \ {vis[f]}]

ImplementsAtomicCommit == Abstract!Spec

=============================================================================
