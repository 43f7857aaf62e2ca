-------------------------- MODULE StoreJournal_proofs --------------------------
(***************************************************************************)
(* The store's files keep their promises for every set of receipts and any *)
(* number of versions, failed calls, crashes and power losses, and the     *)
(* store implements AtomicCommit.                                          *)
(*                                                                         *)
(* At any time there is at most one journal that the names in transactions *)
(* may still stand for. The inductive invariant says what it says of its   *)
(* targets: nothing has been touched, or everything has been applied, or   *)
(* the journal is there for good.                                          *)
(***************************************************************************)
EXTENDS StoreJournal, FiniteSetTheorems, TLAPS

-----------------------------------------------------------------------------
(* The inductive invariant.                                                 *)

Changed(T) == {f \in Scope(T) : T.after[f] # T.before[f]}

\* A journal moves its targets forward, those it changes to one new version.
Sound(T) ==
  /\ T \in Journal
  /\ \A f \in Scope(T) : T.before[f] <= T.after[f] /\ T.after[f] <= last
  /\ \A f \in Changed(T) : scope[T.after[f]] = Changed(T)

Untouched(T) == \A f \in Scope(T) : may[f] = {T.before[f]}
Applied(T)   == \A f \in Scope(T) : may[f] = {T.after[f]}
Between(T)   == \A f \in Scope(T) : may[f] \subseteq {T.before[f], T.after[f]}

Quiet     == payloadMay = {Absent} /\ markerMay = {Absent}
ForGood(T) == payloadMay = {T} /\ markerMay = {T}

\* T is the journal of transactions/, or may become it again.
Pending(T) ==
  /\ Sound(T) /\ payloadMay \subseteq {Absent, T} /\ markerMay \subseteq {Absent, T}
  /\ \/ Applied(T)
     \/ ForGood(T) /\ Between(T)
     \/ Untouched(T) /\ markerMay = {Absent}
     \/ Untouched(T) /\ payloadMay = {T} /\ marker = T

FilesInv ==
  /\ \A f \in Targets : vis[f] \in may[f]
  /\ payload \in payloadMay /\ marker \in markerMay
  /\ Quiet \/ \E T \in Journal : Pending(T)

VersionsInv ==
  /\ \A f \in Targets : \A v \in may[f] : v <= last
  /\ \A v \in Versions : v > last => scope[v] = {}

\* What the operation in progress has established.
WriteInv ==
  job.op = "write" =>
    /\ job.pc \in {"rename", "sync"} /\ ~recoveryRequired
    /\ job.pc = "rename" =>
         scope[last] = {job.target} /\ \A f \in Targets : last \notin may[f]

CommitInv ==
  job.op = "commit" =>
    /\ ~recoveryRequired /\ State \in job.batch /\ job.pc \notin {"idle", "scan", "rename", "sync", "finalSync"}
    /\ job.pc = "confirm" => \A f \in job.batch \ job.left : may[f] = {vis[f]}
    /\ job.pc # "confirm" => Sound(job.txn) /\ Scope(job.txn) = job.batch
    /\ job.pc = "payload" => Untouched(job.txn)
    /\ job.pc = "payloadSync" => payload = job.txn /\ markerMay = {Absent} /\ Untouched(job.txn)
    /\ job.pc = "marker" => payloadMay = {job.txn} /\ markerMay = {Absent} /\ Untouched(job.txn)
    /\ job.pc = "markerSync" => payloadMay = {job.txn} /\ marker = job.txn /\ Untouched(job.txn)
    /\ job.pc \in {"rmPayload", "rmPayloadSync", "rmMarker"} => marker = job.txn
    /\ job.pc \in {"rmPayload", "rmPayloadSync", "rmMarker", "rmMarkerSync"} => Applied(job.txn)

RecoverInv ==
  job.op = "recover" =>
    /\ recoveryRequired
    /\ job.pc \notin {"idle", "rename", "sync", "confirm", "payload", "payloadSync", "marker", "markerSync"}

ApplyInv ==
  /\ job.pc = "persist" => payload = job.txn /\ marker = job.txn
  /\ job.pc \in {"persist", "check", "apply", "applySync", "applyConfirm"} => Sound(job.txn)
  /\ job.pc \in {"check", "apply", "applySync", "applyConfirm"} => ForGood(job.txn) /\ Between(job.txn)
  /\ job.pc \in {"apply", "applySync", "applyConfirm"} =>
       /\ job.left # {} /\ job.left \subseteq Scope(job.txn)
       /\ \A f \in Scope(job.txn) \ job.left : may[f] = {job.txn.after[f]}
  /\ job.pc \in {"applySync", "applyConfirm"} => job.target \in job.left /\ vis[job.target] = job.txn.after[job.target]

RemoveInv ==
  /\ job.pc = "rmPayload" => payload # Absent /\ (marker # Absent => Applied(payload))
  /\ job.pc \in {"rmPayloadSync", "rmMarker", "rmMarkerSync", "finalSync"} => payload = Absent
  /\ job.pc = "rmMarker" => marker # Absent
  /\ job.pc \in {"rmMarkerSync", "finalSync"} => marker = Absent

JobInv ==
  /\ job.pc # "corrupt" /\ (job.op = "none" <=> job.pc = "idle")
  /\ WriteInv /\ CommitInv /\ RecoverInv /\ ApplyInv /\ RemoveInv

StoreInv ==
  TypeOK /\ FilesInv /\ VersionsInv /\ CacheIsSound /\ KnownSurvives /\ NoStaleJournal /\ JobInv

-----------------------------------------------------------------------------
(* Journals and files.                                                      *)

LEMMA JournalShape ==
  ASSUME NEW T \in Journal
  PROVE  /\ Scope(T) \subseteq Targets /\ State \in Scope(T) /\ T # Absent
         /\ T.before \in [Scope(T) -> Versions] /\ T.after \in [Scope(T) -> Versions]
<1>1. PICK R \in SUBSET Receipts :
        T \in [before : [R \cup {State} -> Versions], after : [R \cup {State} -> Versions]]
  BY DEF Journal
<1> QED BY <1>1, AbsentAssumption DEF Scope, Targets

\* Nothing in transactions/ is of another journal.
LEMMA PayloadIs ==
  ASSUME StoreInv, payload # Absent
  PROVE  payload \in Journal /\ Pending(payload) /\ Sound(payload)
<1>1. PICK T \in Journal : Pending(T)
  BY DEF StoreInv, FilesInv, Quiet
<1>2. T = payload
  BY <1>1 DEF StoreInv, FilesInv, Pending
<1> QED BY <1>1, <1>2 DEF Pending

LEMMA MarkerIs ==
  ASSUME StoreInv, marker # Absent
  PROVE  marker \in Journal /\ Pending(marker) /\ Sound(marker)
<1>1. PICK T \in Journal : Pending(T)
  BY DEF StoreInv, FilesInv, Quiet
<1>2. T = marker
  BY <1>1 DEF StoreInv, FilesInv, Pending
<1> QED BY <1>1, <1>2 DEF Pending

\* A marker whose payload is gone has been applied.
LEMMA MarkerAlone ==
  ASSUME StoreInv, payload = Absent, marker # Absent
  PROVE  Applied(marker)
<1>1. Pending(marker) /\ marker # Absent
  BY MarkerIs
<1>2. Absent \in payloadMay /\ marker \in markerMay
  BY DEF StoreInv, FilesInv
<1> QED BY <1>1, <1>2 DEF Pending, ForGood

\* A payload and its marker decide, unless they have been applied or another sync is to come.
LEMMA BothAre ==
  ASSUME StoreInv, payload # Absent, marker = payload
  PROVE  Sound(payload) /\ Between(payload)
<1>1. Pending(payload) /\ payload # Absent /\ marker \in markerMay
  BY PayloadIs DEF StoreInv, FilesInv
<1> QED BY <1>1 DEF Pending, Applied, Untouched, Between

LEMMA FileTypes ==
  ASSUME StoreInv
  PROVE  /\ vis \in [Targets -> Versions] /\ may \in [Targets -> SUBSET Versions]
         /\ known \in [Targets -> Versions] /\ last \in Nat /\ last <= MaxVersion /\ MaxVersion \in Nat
         /\ Versions = 0..MaxVersion /\ scope \in [Versions -> SUBSET Targets] /\ State \in Targets
  BY StoreAssumption DEF StoreInv, TypeOK, Versions, Targets

\* A sync settles names.
LEMMA SyncUpSettles ==
  ASSUME StoreInv, NEW f \in Targets, SyncUp(f)
  PROVE  /\ may' \in [Targets -> SUBSET Versions] /\ may'[f] = {vis[f]}
         /\ \A g \in Targets : may'[g] \in {may[g], {vis[g]}}
  BY FileTypes DEF SyncUp

LEMMA SyncJournalSettles ==
  ASSUME StoreInv, SyncJournal
  PROVE  /\ may' \in [Targets -> SUBSET Versions]
         /\ \A g \in Targets : may'[g] \in {may[g], {vis[g]}}
         /\ payloadMay' = {payload} /\ markerMay' = {marker}
  BY FileTypes DEF SyncJournal, SyncTransactions

\* What a step that only settles names leaves true.
Settling ==
  /\ UNCHANGED <<vis, payload, marker, last, scope>>
  /\ payloadMay' \in {payloadMay, {payload}} /\ markerMay' \in {markerMay, {marker}}
  /\ \A g \in Targets : may'[g] \in {may[g], {vis[g]}}

LEMMA SettledPending ==
  ASSUME StoreInv, Settling, NEW T \in Journal
  PROVE  /\ Sound(T) => Sound(T)'
         /\ Untouched(T) => Untouched(T)'
         /\ Applied(T) => Applied(T)'
         /\ Between(T) => Between(T)'
         /\ ForGood(T) => ForGood(T)'
         /\ Pending(T) => Pending(T)'
<1>1. Scope(T) \subseteq Targets
  BY JournalShape
<1>2. \A g \in Targets : vis[g] \in may[g]
  BY DEF StoreInv, FilesInv
<1>3. payload \in payloadMay /\ marker \in markerMay
  BY DEF StoreInv, FilesInv
<1>4. Sound(T) => Sound(T)'
  BY DEF Sound, Changed, Settling
<1>5. Untouched(T) => Untouched(T)'
  BY <1>1, <1>2 DEF Untouched, Settling
<1>6. Applied(T) => Applied(T)'
  BY <1>1, <1>2 DEF Applied, Settling
<1>7. Between(T) => Between(T)'
  BY <1>1, <1>2 DEF Between, Settling
<1>8. ForGood(T) => ForGood(T)'
  BY <1>3 DEF ForGood, Settling
<1>9. Pending(T) => Pending(T)'
  <2>1. /\ payloadMay \subseteq {Absent, T} => payloadMay' \subseteq {Absent, T}
        /\ markerMay \subseteq {Absent, T} => markerMay' \subseteq {Absent, T}
        /\ markerMay = {Absent} => markerMay' = {Absent}
        /\ payloadMay = {T} => payloadMay' = {T} /\ marker' = marker
    BY <1>3 DEF Settling
  <2> QED BY <1>4, <1>5, <1>6, <1>7, <1>8, <2>1 DEF Pending, Settling
<1> QED BY <1>4, <1>5, <1>6, <1>7, <1>8, <1>9

LEMMA SettledFiles ==
  ASSUME StoreInv, Settling
  PROVE  FilesInv' /\ VersionsInv' /\ (Quiet => Quiet')
<1>1. \A g \in Targets : vis[g] \in may[g]
  BY DEF StoreInv, FilesInv
<1>2. \A f \in Targets : vis'[f] \in may'[f]
  BY <1>1 DEF Settling
<1>3. Quiet => Quiet'
  BY DEF StoreInv, FilesInv, Settling, Quiet
<1>4. FilesInv'
  <2>1. payload' \in payloadMay' /\ marker' \in markerMay'
    BY DEF StoreInv, FilesInv, Settling
  <2>2. (Quiet \/ \E T \in Journal : Pending(T))'
    BY <1>3, SettledPending DEF StoreInv, FilesInv
  <2> QED BY <1>2, <2>1, <2>2 DEF FilesInv
<1>5. VersionsInv'
  BY <1>1 DEF StoreInv, VersionsInv, Settling
<1> QED BY <1>3, <1>4, <1>5

\* Of the journal of the operation in progress.
LEMMA SettledTxn ==
  ASSUME StoreInv, Settling, job'.txn = job.txn, Sound(job.txn)
  PROVE  /\ Sound(job.txn)' /\ Scope(job.txn)' = Scope(job.txn)
         /\ Untouched(job.txn) => Untouched(job.txn)'
         /\ Applied(job.txn) => Applied(job.txn)'
         /\ Between(job.txn) => Between(job.txn)'
         /\ ForGood(job.txn) => ForGood(job.txn)'
<1> DEFINE T == job.txn
<1>1. T \in Journal
  BY DEF Sound
<1>2. /\ Sound(T) => Sound(T)'
      /\ Untouched(T) => Untouched(T)'
      /\ Applied(T) => Applied(T)'
      /\ Between(T) => Between(T)'
      /\ ForGood(T) => ForGood(T)'
  <2>1. PICK U \in Journal : U = T
    BY <1>1
  <2> QED BY <2>1, SettledPending DEF Sound, Changed, Untouched, Applied, Between, ForGood, Scope
<1>3. Scope(T)' = Scope(T)
  BY DEF Scope
<1> QED BY <1>2, <1>3

\* A caller is told of what no power loss takes back.
Telling ==
  \A f \in Targets : known'[f] = known[f] \/ (known'[f] = vis[f] /\ may'[f] = {vis[f]})

LEMMA SettledKeeps ==
  ASSUME StoreInv, Settling, TypeOK', Telling,
         \A f \in durable' : f \in durable \/ may'[f] = {vis[f]},
         NoStaleJournal', JobInv'
  PROVE  StoreInv'
<1>1. CacheIsSound'
  BY DEF StoreInv, CacheIsSound, TypeOK, Settling
<1>2. KnownSurvives'
  <2>1. ASSUME NEW f \in Targets, NEW v \in may'[f]
        PROVE  v >= known'[f]
    <3>1. vis[f] \in may[f] /\ vis[f] \in Nat /\ \A u \in may[f] : u >= known[f]
      BY FileTypes DEF StoreInv, FilesInv, KnownSurvives
    <3> QED BY <2>1, <3>1 DEF Settling, Telling
  <2> QED BY <2>1 DEF KnownSurvives
<1> QED BY <1>1, <1>2, SettledFiles DEF StoreInv

-----------------------------------------------------------------------------
(* Reads and single writes.                                                 *)

LEMMA ConfirmSettles ==
  ASSUME StoreInv, NEW f \in Targets, Confirm(f)
  PROVE  /\ may' \in [Targets -> SUBSET Versions] /\ may'[f] = {vis[f]}
         /\ \A g \in Targets : may'[g] \in {may[g], {vis[g]}}
<1>1. CASE f \in Marks
  BY <1>1, FileTypes DEF Confirm, Marks, StoreInv, CacheIsSound
<1>2. CASE f \notin Marks
  BY <1>2, SyncUpSettles DEF Confirm
<1> QED BY <1>1, <1>2

LEMMA NoJobKeeps ==
  ASSUME job' = NoJob
  PROVE  JobInv' /\ job'.op = "none"
  BY DEF NoJob, JobInv, WriteInv, CommitInv, RecoverInv, ApplyInv, RemoveInv

LEMMA NoJobType == NoJob \in Job
  BY DEF NoJob, Job, Targets

LEMMA ReadKeeps ==
  ASSUME StoreInv, NEW f \in Targets, Read(f)
  PROVE  StoreInv'
<1>1. /\ UNCHANGED <<vis, payload, payloadMay, marker, markerMay, job, recoveryRequired, last, scope, faults, crashes>>
      /\ job.op = "none" /\ ~recoveryRequired /\ Confirm(f)
      /\ durable' = Marks \cup {f} /\ indexed' = TRUE
      /\ known' = [known EXCEPT ![f] = vis[f]]
  BY DEF Read, journal, bounds
<1>2. /\ may' \in [Targets -> SUBSET Versions] /\ may'[f] = {vis[f]}
      /\ \A g \in Targets : may'[g] \in {may[g], {vis[g]}}
  BY <1>1, ConfirmSettles
<1>3. TypeOK'
  BY <1>1, <1>2 DEF StoreInv, TypeOK, JournalType, Marks
<1>4. Settling
  BY <1>1, <1>2 DEF Settling
<1>5. Telling
  BY <1>1, <1>2 DEF Telling, StoreInv, TypeOK
<1>6. \A g \in durable' : g \in durable \/ may'[g] = {vis[g]}
  BY <1>1, <1>2 DEF Marks
<1>7. NoStaleJournal'
  BY <1>1 DEF StoreInv, NoStaleJournal
<1>8. JobInv'
  BY <1>1 DEF StoreInv, JobInv, WriteInv, CommitInv, RecoverInv, ApplyInv, RemoveInv
<1> QED BY <1>3, <1>4, <1>5, <1>6, <1>7, <1>8, SettledKeeps

LEMMA WriteSyncKeeps ==
  ASSUME StoreInv, WriteSync
  PROVE  StoreInv'
<1> DEFINE f == job.target
<1>1. /\ UNCHANGED <<vis, payload, payloadMay, marker, markerMay, indexed, recoveryRequired, last, scope, faults, crashes>>
      /\ job.op = "write" /\ SyncUp(f) /\ f \in Targets /\ job' = NoJob
      /\ durable' = durable \cup {f}
      /\ known' = [g \in Targets |-> IF g \in {f} THEN vis[g] ELSE known[g]]
  BY DEF WriteSync, At, Tell, journal, bounds, StoreInv, TypeOK, Job
<1>2. /\ may' \in [Targets -> SUBSET Versions] /\ may'[f] = {vis[f]}
      /\ \A g \in Targets : may'[g] \in {may[g], {vis[g]}}
  BY <1>1, SyncUpSettles
<1>3. TypeOK'
  BY <1>1, <1>2, NoJobType DEF StoreInv, TypeOK, JournalType
<1>4. Settling
  BY <1>1, <1>2 DEF Settling
<1>5. Telling
  BY <1>1, <1>2 DEF Telling
<1>6. \A g \in durable' : g \in durable \/ may'[g] = {vis[g]}
  BY <1>1, <1>2
<1>7. NoStaleJournal'
  BY <1>1 DEF StoreInv, NoStaleJournal
<1> QED BY <1>1, <1>3, <1>4, <1>5, <1>6, <1>7, NoJobKeeps, SettledKeeps

\* A version more.
LEMMA VersionsGrow ==
  ASSUME StoreInv, NEW S \in SUBSET Targets, NewVersion(S)
  PROVE  /\ last' = last + 1 /\ last' \in Versions /\ scope' \in [Versions -> SUBSET Targets]
         /\ scope'[last'] = S /\ \A v \in Versions : v > last' => scope'[v] = {}
         /\ \A v \in 0..last : v \in Versions /\ scope'[v] = scope[v]
         /\ UNCHANGED <<faults, crashes>>
<1>1. last \in Nat /\ last < MaxVersion /\ MaxVersion \in Nat /\ Versions = 0..MaxVersion
      /\ scope \in [Versions -> SUBSET Targets] /\ last' = last + 1
      /\ scope' = [scope EXCEPT ![last + 1] = S] /\ UNCHANGED <<faults, crashes>>
  BY FileTypes DEF NewVersion
<1>2. \A v \in Versions : v > last => scope[v] = {}
  BY DEF StoreInv, VersionsInv
<1> QED BY <1>1, <1>2

LEMMA StillSound ==
  ASSUME StoreInv, NEW S \in SUBSET Targets, NewVersion(S), NEW T, Sound(T)
  PROVE  Sound(T)'
<1>1. \A f \in Scope(T) : T.before[f] \in Nat /\ T.after[f] \in Nat
  BY JournalShape, FileTypes DEF Sound
<1>2. \A f \in Changed(T) : T.after[f] \in 0..last
  BY <1>1, FileTypes DEF Sound, Changed
<1>3. \A f \in Changed(T) : scope'[T.after[f]] = Changed(T)
  BY <1>2, VersionsGrow DEF Sound
<1>4. \A f \in Scope(T) : T.after[f] <= last'
  BY <1>1, VersionsGrow, FileTypes DEF Sound
<1>5. Changed(T)' = Changed(T) /\ Scope(T)' = Scope(T)
  BY DEF Changed, Scope
<1> QED BY <1>3, <1>4, <1>5 DEF Sound, Changed

\* ... and the files as they were.
LEMMA VersionsGrowKeeps ==
  ASSUME StoreInv, NEW S \in SUBSET Targets, NewVersion(S),
         UNCHANGED <<vis, may, payload, payloadMay, marker, markerMay, known>>
  PROVE  FilesInv' /\ VersionsInv' /\ KnownSurvives'
<1>1. \A T \in Journal : Pending(T) => Pending(T)'
  <2> SUFFICES ASSUME NEW T \in Journal, Pending(T) PROVE Pending(T)'
    OBVIOUS
  <2>1. Sound(T)'
    BY StillSound DEF Pending
  <2> QED BY <2>1 DEF Pending, Applied, Untouched, Between, ForGood
<1>2. FilesInv'
  BY <1>1 DEF StoreInv, FilesInv, Quiet
<1>3. VersionsInv'
  BY VersionsGrow, FileTypes DEF StoreInv, VersionsInv
<1>4. KnownSurvives'
  BY DEF StoreInv, KnownSurvives
<1> QED BY <1>2, <1>3, <1>4

LEMMA StartWriteKeeps ==
  ASSUME StoreInv, NEW f \in Targets, StartWrite(f)
  PROVE  StoreInv'
<1>1. /\ UNCHANGED <<vis, may, payload, payloadMay, marker, markerMay, recoveryRequired, known>>
      /\ job.op = "none" /\ ~recoveryRequired /\ NewVersion({f})
      /\ job' = [NoJob EXCEPT !.op = "write", !.pc = "rename", !.target = f]
      /\ durable' = Marks /\ indexed' = TRUE
  BY DEF StartWrite, targets, journal
<1>2. /\ job' = [op |-> "write", pc |-> "rename", target |-> f, txn |-> Absent, batch |-> {}, left |-> {}]
  BY <1>1 DEF NoJob
<1>3. TypeOK'
  BY <1>1, <1>2, VersionsGrow DEF StoreInv, TypeOK, JournalType, Marks, Job
<1>4. CacheIsSound'
  BY <1>1 DEF StoreInv, CacheIsSound, Marks
<1>5. NoStaleJournal'
  BY <1>1 DEF StoreInv, NoStaleJournal
<1>6. \A g \in Targets : last' \notin may'[g]
  BY <1>1, VersionsGrow, FileTypes DEF StoreInv, VersionsInv
<1>7. JobInv'
  BY <1>1, <1>2, <1>6, VersionsGrow DEF JobInv, WriteInv, CommitInv, RecoverInv, ApplyInv, RemoveInv
<1> QED BY <1>1, <1>3, <1>4, <1>5, <1>7, VersionsGrowKeeps DEF StoreInv

LEMMA WriteRenameKeeps ==
  ASSUME StoreInv, WriteRename
  PROVE  StoreInv'
<1> DEFINE f == job.target
<1>1. /\ UNCHANGED <<payload, payloadMay, marker, markerMay, indexed, recoveryRequired, known, last, scope, faults, crashes>>
      /\ job.op = "write" /\ job.pc = "rename" /\ f \in Targets /\ ~recoveryRequired
      /\ vis' = [vis EXCEPT ![f] = last] /\ may' = [may EXCEPT ![f] = @ \cup {last}]
      /\ durable' = durable \ {f} /\ job' = [job EXCEPT !.pc = "sync"]
  BY DEF WriteRename, At, Goto, Rename, Unmarked, journal, bounds, StoreInv, TypeOK, Job, JobInv, WriteInv
<1>2. job' \in Job /\ job'.op = "write" /\ job'.pc = "sync"
  BY <1>1 DEF StoreInv, TypeOK, Job
<1>3. TypeOK'
  BY <1>1, <1>2, FileTypes DEF StoreInv, TypeOK, JournalType
<1>4. Quiet /\ Quiet'
  BY <1>1 DEF StoreInv, NoStaleJournal, Quiet
<1>5. FilesInv'
  BY <1>1, <1>4, FileTypes DEF StoreInv, FilesInv
<1>6. VersionsInv'
  BY <1>1, FileTypes DEF StoreInv, VersionsInv
<1>7. CacheIsSound'
  BY <1>1, FileTypes DEF StoreInv, CacheIsSound
<1>8. KnownSurvives'
  <2>1. \A g \in Targets : vis[g] \in may[g] /\ vis[g] \in Nat /\ vis[g] <= last /\ known[g] \in Nat /\ vis[g] >= known[g]
    BY FileTypes DEF StoreInv, FilesInv, VersionsInv, KnownSurvives
  <2> QED BY <1>1, <2>1, FileTypes DEF StoreInv, KnownSurvives
<1>9. NoStaleJournal'
  BY <1>4 DEF NoStaleJournal, Quiet
<1>10. JobInv'
  BY <1>1, <1>2 DEF JobInv, WriteInv, CommitInv, RecoverInv, ApplyInv, RemoveInv
<1> QED BY <1>3, <1>5, <1>6, <1>7, <1>8, <1>9, <1>10 DEF StoreInv

-----------------------------------------------------------------------------
(* commitWorkspace, up to its decision.                                     *)

LEMMA StartCommitKeeps ==
  ASSUME StoreInv, NEW R \in SUBSET Receipts, StartCommit(R)
  PROVE  StoreInv'
<1> DEFINE S == Batch(R)
<1>1. /\ UNCHANGED <<vis, may, payload, payloadMay, marker, markerMay, durable, indexed, recoveryRequired,
                     known, last, scope, faults, crashes>>
      /\ job.op = "none" /\ ~recoveryRequired
      /\ job' = [op |-> "commit", pc |-> "confirm", target |-> State, txn |-> Absent, batch |-> S, left |-> S]
  BY DEF StartCommit, NoJob, targets, journal, cache, bounds
<1>2. S \subseteq Targets /\ State \in S
  BY DEF Batch, Targets
<1>3. TypeOK'
  BY <1>1, <1>2 DEF StoreInv, TypeOK, JournalType, Job
<1>4. Settling /\ Telling
  BY <1>1 DEF Settling, Telling
<1>5. NoStaleJournal'
  BY <1>1 DEF StoreInv, NoStaleJournal
<1>6. JobInv'
  BY <1>1, <1>2 DEF JobInv, WriteInv, CommitInv, RecoverInv, ApplyInv, RemoveInv
<1> QED BY <1>1, <1>3, <1>4, <1>5, <1>6, SettledKeeps

LEMMA CommitReadKeeps ==
  ASSUME StoreInv, CommitRead
  PROVE  StoreInv'
<1>1. PICK f \in job.left :
        /\ Confirm(f) /\ durable' = Marks \cup {f} /\ indexed' = TRUE
        /\ known' = [known EXCEPT ![f] = vis[f]] /\ job' = [job EXCEPT !.left = @ \ {f}]
  BY DEF CommitRead
<1>2. /\ UNCHANGED <<vis, payload, payloadMay, marker, markerMay, recoveryRequired, last, scope, faults, crashes>>
      /\ job.op = "commit" /\ job.pc = "confirm" /\ f \in Targets
  BY <1>1 DEF CommitRead, At, journal, bounds, StoreInv, TypeOK, Job
<1>3. /\ may' \in [Targets -> SUBSET Versions] /\ may'[f] = {vis[f]}
      /\ \A g \in Targets : may'[g] \in {may[g], {vis[g]}}
  BY <1>1, <1>2, ConfirmSettles
<1>4. /\ job' \in Job /\ job'.op = "commit" /\ job'.pc = "confirm"
      /\ job'.batch = job.batch /\ job'.left = job.left \ {f}
  BY <1>1, <1>2 DEF StoreInv, TypeOK, Job
<1>5. TypeOK'
  BY <1>1, <1>2, <1>3, <1>4 DEF StoreInv, TypeOK, JournalType, Marks
<1>6. Settling
  BY <1>2, <1>3 DEF Settling
<1>7. Telling
  BY <1>1, <1>3 DEF Telling, StoreInv, TypeOK
<1>8. \A g \in durable' : g \in durable \/ may'[g] = {vis[g]}
  BY <1>1, <1>3 DEF Marks
<1>9. NoStaleJournal'
  BY <1>2, <1>4 DEF StoreInv, NoStaleJournal
<1>10. JobInv'
  <2>1. \A g \in job'.batch \ job'.left : may'[g] = {vis'[g]}
    <3>1. \A g \in job.batch \ job.left : may[g] = {vis[g]} /\ g \in Targets
      BY <1>2 DEF StoreInv, JobInv, CommitInv, TypeOK, Job
    <3> QED BY <1>2, <1>3, <1>4, <3>1
  <2> QED BY <1>2, <1>4, <2>1 DEF StoreInv, JobInv, WriteInv, CommitInv, RecoverInv, ApplyInv, RemoveInv
<1> QED BY <1>5, <1>6, <1>7, <1>8, <1>9, <1>10, SettledKeeps

LEMMA PrepareJournalKeeps ==
  ASSUME StoreInv, PrepareJournal
  PROVE  StoreInv'
<1> DEFINE S == job.batch
<1>1. PICK kept \in SUBSET (S \ {State}) :
        /\ NewVersion(S \ kept)
        /\ job' = [job EXCEPT
             !.pc  = "payload",
             !.txn = [before |-> [f \in S |-> vis[f]],
                      after  |-> [f \in S |-> IF f \in kept THEN vis[f] ELSE last + 1]]]
  BY DEF PrepareJournal
<1>2. /\ UNCHANGED <<vis, may, payload, payloadMay, marker, markerMay, durable, indexed, recoveryRequired, known>>
      /\ job.op = "commit" /\ job.pc = "confirm" /\ job.left = {} /\ S \subseteq Targets
      /\ State \in S /\ ~recoveryRequired /\ \A f \in S : may[f] = {vis[f]}
  BY DEF PrepareJournal, At, targets, journal, cache, StoreInv, TypeOK, Job, JobInv, CommitInv
<1>3. /\ last' = last + 1 /\ last' \in Versions /\ scope' \in [Versions -> SUBSET Targets]
      /\ scope'[last'] = S \ kept /\ UNCHANGED <<faults, crashes>>
  BY <1>1, <1>2, VersionsGrow
<1> DEFINE T == [before |-> [f \in S |-> vis[f]], after |-> [f \in S |-> IF f \in kept THEN vis[f] ELSE last + 1]]
<1>4. \A f \in Targets : vis[f] \in Versions /\ vis[f] \in Nat /\ vis[f] <= last
  BY FileTypes DEF StoreInv, FilesInv, VersionsInv
<1>5. T \in Journal
  <2>1. S = (S \ {State}) \cup {State} /\ S \ {State} \in SUBSET Receipts
    BY <1>2 DEF Targets
  <2>2. T \in [before : [S -> Versions], after : [S -> Versions]]
    BY <1>2, <1>3, <1>4
  <2> HIDE DEF T
  <2>3. S \in {R \cup {State} : R \in SUBSET Receipts}
    BY <2>1
  <2> HIDE DEF S
  <2> QED BY <2>2, <2>3 DEF Journal
<1>6. /\ Scope(T) = S /\ \A f \in S : T.before[f] = vis[f]
      /\ \A f \in S : T.after[f] = IF f \in kept THEN vis[f] ELSE last + 1
  BY DEF Scope
<1>7. /\ job' \in Job /\ job'.op = "commit" /\ job'.pc = "payload" /\ job'.txn = T /\ job'.batch = S
  BY <1>1, <1>2, <1>5 DEF StoreInv, TypeOK, Job
<1> HIDE DEF T
<1>8. Changed(T) = S \ kept
  BY <1>2, <1>4, <1>6, FileTypes DEF Changed
<1>9. Sound(job.txn)'
  <2>1. \A f \in Scope(T) : T.before[f] <= T.after[f] /\ T.after[f] <= last'
    BY <1>2, <1>3, <1>4, <1>6, FileTypes
  <2>2. \A f \in Changed(T) : scope'[T.after[f]] = Changed(T)
    BY <1>3, <1>6, <1>8
  <2> QED BY <1>5, <1>7, <2>1, <2>2 DEF Sound, Changed, Scope
<1>10. Untouched(job.txn)' /\ Scope(job.txn)' = S
  BY <1>2, <1>6, <1>7 DEF Untouched, Scope
<1>11. TypeOK'
  BY <1>2, <1>3, <1>7 DEF StoreInv, TypeOK, JournalType
<1>12. CacheIsSound'
  BY <1>2 DEF StoreInv, CacheIsSound
<1>13. NoStaleJournal'
  BY <1>2 DEF StoreInv, NoStaleJournal
<1>14. JobInv'
  BY <1>2, <1>7, <1>9, <1>10 DEF JobInv, WriteInv, CommitInv, RecoverInv, ApplyInv, RemoveInv
<1> QED BY <1>1, <1>2, <1>11, <1>12, <1>13, <1>14, VersionsGrowKeeps DEF StoreInv

\* What the journal in memory says does not depend on transactions/.
LEMMA SameTargets ==
  ASSUME UNCHANGED <<may, last, scope>>, job'.txn = job.txn
  PROVE  /\ Sound(job.txn)' = Sound(job.txn) /\ Scope(job.txn)' = Scope(job.txn)
         /\ Untouched(job.txn)' = Untouched(job.txn) /\ Applied(job.txn)' = Applied(job.txn)
         /\ Between(job.txn)' = Between(job.txn)
  BY DEF Sound, Changed, Scope, Untouched, Applied, Between

\* A step that changes transactions/ only.
LEMMA JournalStepKeeps ==
  ASSUME StoreInv, UNCHANGED <<vis, may, durable, indexed, recoveryRequired, known, last, scope, faults, crashes>>,
         JournalType', payload' \in payloadMay', marker' \in markerMay',
         job' \in Job, NEW T \in Journal, Pending(T)', NoStaleJournal', JobInv'
  PROVE  StoreInv'
<1>1. TypeOK'
  BY DEF StoreInv, TypeOK
<1>2. FilesInv'
  BY DEF StoreInv, FilesInv
<1>3. VersionsInv' /\ CacheIsSound' /\ KnownSurvives'
  BY DEF StoreInv, VersionsInv, CacheIsSound, KnownSurvives
<1> QED BY <1>1, <1>2, <1>3 DEF StoreInv

LEMMA PutPayloadKeeps ==
  ASSUME StoreInv, PutPayload
  PROVE  StoreInv'
<1> DEFINE T == job.txn
<1>1. /\ UNCHANGED <<vis, may, marker, markerMay, durable, indexed, recoveryRequired, known, last, scope, faults, crashes>>
      /\ job.op = "commit" /\ job.pc = "payload" /\ ~recoveryRequired
      /\ payload' = T /\ payloadMay' = payloadMay \cup {T} /\ job' = [job EXCEPT !.pc = "payloadSync"]
      /\ Sound(T) /\ Untouched(T) /\ Scope(T) = job.batch /\ State \in job.batch
  BY DEF PutPayload, At, Goto, targets, cache, bounds, StoreInv, JobInv, CommitInv
<1>2. /\ job' \in Job /\ job'.op = "commit" /\ job'.pc = "payloadSync" /\ job'.txn = job.txn /\ job'.batch = job.batch
  BY <1>1 DEF StoreInv, TypeOK, Job
<1>3. payloadMay = {Absent} /\ markerMay = {Absent} /\ marker = Absent
  BY <1>1 DEF StoreInv, NoStaleJournal, FilesInv
<1>4. T \in Journal
  BY <1>1 DEF Sound
<1>5. Sound(job.txn)' /\ Untouched(job.txn)' /\ Scope(job.txn)' = job'.batch
  BY <1>1, <1>2, SameTargets
<1>6. Pending(job.txn)'
  BY <1>1, <1>2, <1>3, <1>5 DEF Pending
<1>7. JournalType' /\ payload' \in payloadMay' /\ marker' \in markerMay'
  BY <1>1, <1>3, <1>4 DEF JournalType, StoreInv, TypeOK
<1>8. NoStaleJournal'
  BY <1>2 DEF NoStaleJournal
<1>9. JobInv'
  BY <1>1, <1>2, <1>3, <1>5 DEF JobInv, WriteInv, CommitInv, RecoverInv, ApplyInv, RemoveInv
<1>10. \A U \in Journal : U = job'.txn => Pending(U)'
  BY <1>2, <1>6 DEF Pending, Sound, Changed, Scope, Untouched, Applied, Between, ForGood
<1> QED BY <1>1, <1>2, <1>4, <1>7, <1>8, <1>9, <1>10, JournalStepKeeps

LEMMA PutMarkerKeeps ==
  ASSUME StoreInv, PutMarker
  PROVE  StoreInv'
<1> DEFINE T == job.txn
<1>1. /\ UNCHANGED <<vis, may, payload, payloadMay, durable, indexed, recoveryRequired, known, last, scope, faults, crashes>>
      /\ job.op = "commit" /\ job.pc = "marker" /\ ~recoveryRequired
      /\ marker' = T /\ markerMay' = markerMay \cup {T} /\ job' = [job EXCEPT !.pc = "markerSync"]
      /\ Sound(T) /\ Untouched(T) /\ Scope(T) = job.batch /\ State \in job.batch
      /\ payloadMay = {T} /\ markerMay = {Absent} /\ payload = T
  BY DEF PutMarker, At, Goto, targets, cache, bounds, StoreInv, JobInv, CommitInv, FilesInv
<1>2. /\ job' \in Job /\ job'.op = "commit" /\ job'.pc = "markerSync" /\ job'.txn = job.txn /\ job'.batch = job.batch
  BY <1>1 DEF StoreInv, TypeOK, Job
<1>3. T \in Journal
  BY <1>1 DEF Sound
<1>4. Sound(job.txn)' /\ Untouched(job.txn)' /\ Scope(job.txn)' = job'.batch
  BY <1>1, <1>2, SameTargets
<1>5. Pending(job.txn)'
  BY <1>1, <1>2, <1>4 DEF Pending
<1>6. JournalType' /\ payload' \in payloadMay' /\ marker' \in markerMay'
  BY <1>1, <1>3 DEF JournalType, StoreInv, TypeOK
<1>7. NoStaleJournal'
  BY <1>2 DEF NoStaleJournal
<1>8. JobInv'
  BY <1>1, <1>2, <1>4 DEF JobInv, WriteInv, CommitInv, RecoverInv, ApplyInv, RemoveInv
<1>9. \A U \in Journal : U = job'.txn => Pending(U)'
  BY <1>2, <1>5 DEF Pending, Sound, Changed, Scope, Untouched, Applied, Between, ForGood
<1> QED BY <1>1, <1>2, <1>3, <1>6, <1>7, <1>8, <1>9, JournalStepKeeps

LEMMA JournalSyncKeeps ==
  ASSUME StoreInv, JournalSync
  PROVE  StoreInv'
<1> DEFINE T == job.txn
<1>1. /\ UNCHANGED <<vis, payload, marker, durable, indexed, recoveryRequired, known, last, scope, faults, crashes>>
      /\ job.op = "commit" /\ job.pc \in {"payloadSync", "markerSync"} /\ ~recoveryRequired
      /\ SyncJournal
      /\ job' = [job EXCEPT !.pc = IF job.pc = "payloadSync" THEN "marker" ELSE "persist"]
      /\ Sound(T) /\ Untouched(T) /\ Scope(T) = job.batch /\ State \in job.batch
      /\ payload = T
  BY DEF JournalSync, Goto, cache, bounds, StoreInv, JobInv, CommitInv, FilesInv
<1>2. /\ may' \in [Targets -> SUBSET Versions] /\ \A g \in Targets : may'[g] \in {may[g], {vis[g]}}
      /\ payloadMay' = {payload} /\ markerMay' = {marker}
  BY <1>1, SyncJournalSettles
<1>3. /\ job' \in Job /\ job'.op = "commit" /\ job'.txn = job.txn /\ job'.batch = job.batch
      /\ job'.pc = IF job.pc = "payloadSync" THEN "marker" ELSE "persist"
  BY <1>1 DEF StoreInv, TypeOK, Job
<1>4. Settling /\ Telling
  BY <1>1, <1>2 DEF Settling, Telling
<1>5. Sound(job.txn)' /\ Untouched(job.txn)' /\ Scope(job.txn)' = job'.batch
  BY <1>1, <1>3, <1>4, SettledTxn
<1>6. TypeOK'
  BY <1>1, <1>2, <1>3 DEF StoreInv, TypeOK, JournalType
<1>7. NoStaleJournal'
  BY <1>1, <1>3 DEF NoStaleJournal
<1>8. /\ job.pc = "payloadSync" => marker = Absent
      /\ job.pc = "markerSync" => marker = T
  BY <1>1 DEF StoreInv, FilesInv, JobInv, CommitInv
<1>9. JobInv'
  BY <1>1, <1>2, <1>3, <1>5, <1>8 DEF JobInv, WriteInv, CommitInv, RecoverInv, ApplyInv, RemoveInv
<1> QED BY <1>1, <1>4, <1>6, <1>7, <1>9, SettledKeeps

-----------------------------------------------------------------------------
(* The application of a journal, by a commit or by a recovery.              *)

Applying == {"persist", "check", "apply", "applySync", "applyConfirm"}

LEMMA WhoApplies ==
  ASSUME StoreInv, job.pc \in Applying
  PROVE  /\ job.op \in {"commit", "recover"} /\ job.txn \in Journal /\ Sound(job.txn)
         /\ job.op = "commit" => ~recoveryRequired /\ Scope(job.txn) = job.batch /\ State \in job.batch
         /\ job.op = "recover" => recoveryRequired
  BY DEF StoreInv, TypeOK, Job, JobInv, WriteInv, CommitInv, RecoverInv, ApplyInv, Applying, Sound

\* The operation goes on with the same journal.
LEMMA AppliesOn ==
  ASSUME StoreInv, job.pc \in Applying, job' \in Job, UNCHANGED recoveryRequired,
         job'.pc \in Applying, job'.op = job.op, job'.txn = job.txn, job'.batch = job.batch,
         Sound(job.txn)', Scope(job.txn)' = Scope(job.txn), ApplyInv'
  PROVE  JobInv' /\ NoStaleJournal'
<1>1. /\ job.op \in {"commit", "recover"}
      /\ job.op = "commit" => ~recoveryRequired /\ Scope(job.txn) = job.batch /\ State \in job.batch
      /\ job.op = "recover" => recoveryRequired
  BY WhoApplies
<1>2. NoStaleJournal'
  BY <1>1 DEF NoStaleJournal, Applying
<1>3. WriteInv' /\ CommitInv' /\ RecoverInv' /\ RemoveInv'
  BY <1>1 DEF WriteInv, CommitInv, RecoverInv, RemoveInv, Applying
<1>4. job'.pc # "corrupt" /\ job'.pc # "idle" /\ job'.op # "none"
  BY <1>1 DEF Applying
<1> QED BY <1>2, <1>3, <1>4 DEF JobInv

LEMMA PersistKeeps ==
  ASSUME StoreInv, Persist
  PROVE  StoreInv'
<1>1. /\ UNCHANGED <<vis, payload, marker, durable, indexed, recoveryRequired, known, last, scope, faults, crashes>>
      /\ job.pc = "persist" /\ SyncJournal /\ job' = [job EXCEPT !.pc = "check"]
      /\ payload = job.txn /\ marker = job.txn
  BY DEF Persist, PersistSync, Goto, cache, bounds, StoreInv, JobInv, ApplyInv
<1>2. /\ may' \in [Targets -> SUBSET Versions] /\ \A g \in Targets : may'[g] \in {may[g], {vis[g]}}
      /\ payloadMay' = {payload} /\ markerMay' = {marker}
  BY <1>1, SyncJournalSettles
<1>3. /\ job' \in Job /\ job'.op = job.op /\ job'.txn = job.txn /\ job'.batch = job.batch /\ job'.pc = "check"
  BY <1>1 DEF StoreInv, TypeOK, Job
<1>4. Settling /\ Telling
  BY <1>1, <1>2 DEF Settling, Telling
<1>5. Between(job.txn) /\ Sound(job.txn)
  <2>1. payload # Absent
    BY <1>1, WhoApplies, AbsentAssumption DEF Applying
  <2> QED BY <1>1, <2>1, BothAre
<1>6. Sound(job.txn)' /\ Between(job.txn)' /\ Scope(job.txn)' = Scope(job.txn)
  BY <1>3, <1>4, <1>5, SettledTxn
<1>7. TypeOK'
  BY <1>1, <1>2, <1>3 DEF StoreInv, TypeOK, JournalType
<1>8. ForGood(job.txn)'
  BY <1>1, <1>2, <1>3 DEF ForGood
<1>9. ApplyInv'
  BY <1>3, <1>6, <1>8 DEF ApplyInv
<1>10. JobInv' /\ NoStaleJournal'
  BY <1>1, <1>3, <1>6, <1>9, AppliesOn DEF Applying
<1> QED BY <1>1, <1>4, <1>7, <1>10, SettledKeeps

LEMMA CheckKeeps ==
  ASSUME StoreInv, Check
  PROVE  StoreInv'
<1>1. /\ UNCHANGED <<vis, may, payload, payloadMay, marker, markerMay, durable, indexed, recoveryRequired,
                     known, last, scope, faults, crashes>>
      /\ job.pc = "check"
      /\ job' = IF Conflict(job.txn) THEN [job EXCEPT !.pc = "corrupt"]
                ELSE [job EXCEPT !.pc = "apply", !.left = Scope(job.txn)]
  BY DEF Check, targets, journal, cache, bounds
<1>2. ForGood(job.txn) /\ Between(job.txn) /\ Sound(job.txn) /\ job.txn \in Journal
  BY <1>1, WhoApplies DEF StoreInv, JobInv, ApplyInv, Applying
<1>3. Scope(job.txn) \subseteq Targets /\ State \in Scope(job.txn)
  BY <1>2, JournalShape
<1>4. ~Conflict(job.txn)
  BY <1>2, <1>3 DEF Conflict, Between, StoreInv, FilesInv
<1>5. /\ job' \in Job /\ job'.op = job.op /\ job'.txn = job.txn /\ job'.batch = job.batch
      /\ job'.pc = "apply" /\ job'.left = Scope(job.txn)
  BY <1>1, <1>3, <1>4 DEF StoreInv, TypeOK, Job
<1>6. Settling /\ Telling
  BY <1>1 DEF Settling, Telling
<1>7. Sound(job.txn)' /\ Between(job.txn)' /\ ForGood(job.txn)' /\ Scope(job.txn)' = Scope(job.txn)
  BY <1>2, <1>5, <1>6, SettledTxn
<1>8. TypeOK'
  BY <1>1, <1>5 DEF StoreInv, TypeOK, JournalType
<1>9. ApplyInv'
  BY <1>3, <1>5, <1>7 DEF ApplyInv
<1>10. JobInv' /\ NoStaleJournal'
  BY <1>1, <1>5, <1>7, <1>9, AppliesOn DEF Applying
<1> QED BY <1>1, <1>6, <1>8, <1>10, SettledKeeps

\* What is common to the steps of apply.
LEMMA ApplyFacts ==
  ASSUME StoreInv, job.pc \in {"apply", "applySync", "applyConfirm"}
  PROVE  /\ ForGood(job.txn) /\ Between(job.txn) /\ Sound(job.txn) /\ job.txn \in Journal
         /\ Scope(job.txn) \subseteq Targets /\ job.left \subseteq Scope(job.txn) /\ job.left # {}
         /\ \A f \in Scope(job.txn) \ job.left : may[f] = {job.txn.after[f]}
         /\ \A f \in Scope(job.txn) :
              /\ job.txn.after[f] \in Versions /\ job.txn.before[f] \in Nat /\ job.txn.after[f] \in Nat
              /\ job.txn.before[f] <= job.txn.after[f] /\ job.txn.after[f] <= last
<1>1. job.txn \in Journal /\ Sound(job.txn)
  BY WhoApplies DEF Applying
<1>2. /\ Scope(job.txn) \subseteq Targets
      /\ job.txn.before \in [Scope(job.txn) -> Versions] /\ job.txn.after \in [Scope(job.txn) -> Versions]
  BY <1>1, JournalShape
<1>3. \A f \in Scope(job.txn) :
        /\ job.txn.after[f] \in Versions /\ job.txn.before[f] \in Nat /\ job.txn.after[f] \in Nat
        /\ job.txn.before[f] <= job.txn.after[f] /\ job.txn.after[f] <= last
  BY <1>1, <1>2, FileTypes DEF Sound
<1> QED BY <1>1, <1>2, <1>3 DEF StoreInv, JobInv, ApplyInv

LEMMA ApplyKeeps ==
  ASSUME StoreInv, Apply
  PROVE  StoreInv'
<1> DEFINE T == job.txn
<1>1. /\ job.pc = "apply"
      /\ UNCHANGED <<payload, payloadMay, marker, markerMay, indexed, recoveryRequired, known, last, scope, faults, crashes>>
  BY DEF Apply, journal, bounds
<1>2. /\ ForGood(T) /\ Between(T) /\ Sound(T) /\ T \in Journal
      /\ Scope(T) \subseteq Targets /\ job.left \subseteq Scope(T) /\ job.left # {}
      /\ \A g \in Scope(T) \ job.left : may[g] = {T.after[g]}
      /\ \A g \in Scope(T) :
           /\ T.after[g] \in Versions /\ T.before[g] \in Nat /\ T.after[g] \in Nat
           /\ T.before[g] <= T.after[g] /\ T.after[g] <= last
  BY <1>1, ApplyFacts
<1>3. PICK f \in NextTargets(job.left) :
        IF vis[f] = T.after[f]
        THEN /\ job' = [job EXCEPT !.pc = "applyConfirm", !.target = f]
             /\ UNCHANGED <<targets, durable>>
        ELSE /\ job' = [job EXCEPT !.pc = "applySync", !.target = f]
             /\ Rename(f, T.after[f])
             /\ durable' = Unmarked(f)
  BY DEF Apply
<1>4. f \in job.left /\ f \in Scope(T) /\ f \in Targets
  BY <1>2, <1>3 DEF NextTargets
<1>5. /\ job' \in Job /\ job'.op = job.op /\ job'.txn = job.txn /\ job'.batch = job.batch
      /\ job'.left = job.left /\ job'.target = f
      /\ job'.pc = IF vis[f] = T.after[f] THEN "applyConfirm" ELSE "applySync"
  <2>1. PICK p \in {"applyConfirm", "applySync"} :
          /\ job' = [job EXCEPT !.pc = p, !.target = f]
          /\ p = IF vis[f] = T.after[f] THEN "applyConfirm" ELSE "applySync"
    BY <1>3
  <2> QED BY <1>4, <2>1 DEF StoreInv, TypeOK, Job
<1>6. CASE vis[f] = T.after[f]
  <2>1. UNCHANGED <<vis, may, durable>>
    BY <1>3, <1>6 DEF targets
  <2>2. Settling /\ Telling
    BY <1>1, <2>1 DEF Settling, Telling
  <2>3. Sound(job.txn)' /\ Between(job.txn)' /\ ForGood(job.txn)' /\ Scope(job.txn)' = Scope(job.txn)
    BY <1>2, <1>5, <2>2, SettledTxn
  <2>4. TypeOK'
    BY <1>1, <1>5, <2>1 DEF StoreInv, TypeOK, JournalType
  <2>5. ApplyInv'
    BY <1>2, <1>4, <1>5, <1>6, <2>1, <2>3 DEF ApplyInv
  <2>6. JobInv' /\ NoStaleJournal'
    BY <1>1, <1>5, <2>3, <2>5, AppliesOn DEF Applying
  <2> QED BY <2>1, <2>2, <2>4, <2>6, SettledKeeps
<1>7. CASE vis[f] # T.after[f]
  <2>1. /\ vis' = [vis EXCEPT ![f] = T.after[f]] /\ may' = [may EXCEPT ![f] = @ \cup {T.after[f]}]
        /\ durable' = durable \ {f}
    BY <1>3, <1>7 DEF Rename, Unmarked
  <2>2. /\ vis' \in [Targets -> Versions] /\ may' \in [Targets -> SUBSET Versions]
        /\ vis'[f] = T.after[f] /\ may'[f] = may[f] \cup {T.after[f]}
        /\ \A g \in Targets : g # f => vis'[g] = vis[g] /\ may'[g] = may[g]
    BY <1>2, <1>4, <2>1, FileTypes
  <2>3. Sound(job.txn)' /\ ForGood(job.txn)' /\ Scope(job.txn)' = Scope(job.txn)
    BY <1>1, <1>2, <1>5 DEF Sound, Changed, Scope, ForGood
  <2>4. \A g \in Scope(T) : may'[g] \subseteq {T.before[g], T.after[g]}
    BY <1>2, <1>4, <2>2 DEF Between
  <2>5. Between(job.txn)'
    BY <1>5, <2>3, <2>4 DEF Between
  <2>6. TypeOK'
    BY <1>1, <1>5, <2>1, <2>2 DEF StoreInv, TypeOK, JournalType
  <2>7. FilesInv'
    <3>1. Pending(job.txn)'
      BY <2>3, <2>5 DEF Pending, ForGood
    <3>2. \A U \in Journal : U = job'.txn => Pending(U)'
      BY <1>5, <3>1 DEF Pending, Sound, Changed, Scope, Untouched, Applied, Between, ForGood
    <3>3. \A g \in Targets : vis'[g] \in may'[g]
      BY <2>2 DEF StoreInv, FilesInv
    <3> QED BY <1>1, <1>2, <1>5, <3>2, <3>3 DEF StoreInv, FilesInv
  <2>8. VersionsInv'
    BY <1>1, <1>2, <1>4, <2>2 DEF StoreInv, VersionsInv
  <2>9. CacheIsSound'
    BY <2>1, <2>2 DEF StoreInv, TypeOK, CacheIsSound
  <2>10. KnownSurvives'
    <3>1. T.after[f] >= known[f]
      <4>1. vis[f] \in {T.before[f], T.after[f]} /\ vis[f] >= known[f] /\ known[f] \in Nat
        BY <1>2, <1>4, FileTypes DEF Between, StoreInv, FilesInv, KnownSurvives
      <4> QED BY <1>2, <1>4, <4>1
    <3> QED BY <1>1, <2>2, <3>1 DEF StoreInv, KnownSurvives
  <2>11. ApplyInv'
    BY <1>2, <1>4, <1>5, <1>7, <2>2, <2>3, <2>5 DEF ApplyInv
  <2>12. JobInv' /\ NoStaleJournal'
    BY <1>1, <1>5, <2>3, <2>11, AppliesOn DEF Applying
  <2> QED BY <2>6, <2>7, <2>8, <2>9, <2>10, <2>12 DEF StoreInv
<1> QED BY <1>6, <1>7

LEMMA ApplySyncKeeps ==
  ASSUME StoreInv, ApplySync
  PROVE  StoreInv'
<1> DEFINE f == job.target
<1>1. /\ job.pc = "applySync" /\ SyncUp(f) /\ durable' = durable \cup {f} /\ job' = [job EXCEPT !.pc = "applyConfirm"]
      /\ UNCHANGED <<vis, payload, payloadMay, marker, markerMay, indexed, recoveryRequired, known, last, scope, faults, crashes>>
      /\ f \in job.left /\ vis[f] = job.txn.after[f] /\ f \in Targets
  BY DEF ApplySync, Goto, journal, bounds, StoreInv, TypeOK, Job, JobInv, ApplyInv
<1>2. /\ may' \in [Targets -> SUBSET Versions] /\ may'[f] = {vis[f]}
      /\ \A g \in Targets : may'[g] \in {may[g], {vis[g]}}
  BY <1>1, SyncUpSettles
<1>3. /\ job' \in Job /\ job'.op = job.op /\ job'.txn = job.txn /\ job'.batch = job.batch
      /\ job'.left = job.left /\ job'.target = f /\ job'.pc = "applyConfirm"
  BY <1>1 DEF StoreInv, TypeOK, Job
<1>4. Settling /\ Telling
  BY <1>1, <1>2 DEF Settling, Telling
<1>5. /\ ForGood(job.txn) /\ Between(job.txn) /\ Sound(job.txn)
      /\ Scope(job.txn) \subseteq Targets /\ job.left \subseteq Scope(job.txn) /\ job.left # {}
      /\ \A g \in Scope(job.txn) \ job.left : may[g] = {job.txn.after[g]}
  BY <1>1, ApplyFacts
<1>6. Sound(job.txn)' /\ Between(job.txn)' /\ ForGood(job.txn)' /\ Scope(job.txn)' = Scope(job.txn)
  BY <1>3, <1>4, <1>5, SettledTxn
<1>7. TypeOK'
  BY <1>1, <1>2, <1>3 DEF StoreInv, TypeOK, JournalType
<1>8. \A g \in Scope(job.txn) \ job.left : may'[g] = {job.txn.after[g]}
  <2>1. \A g \in Targets : vis[g] \in may[g]
    BY DEF StoreInv, FilesInv
  <2> QED BY <1>2, <1>5, <2>1
<1>9. ApplyInv'
  BY <1>1, <1>3, <1>5, <1>6, <1>8 DEF ApplyInv
<1>10. JobInv' /\ NoStaleJournal'
  BY <1>1, <1>3, <1>6, <1>9, AppliesOn DEF Applying
<1>11. \A g \in durable' : g \in durable \/ may'[g] = {vis[g]}
  BY <1>1, <1>2
<1> QED BY <1>4, <1>7, <1>10, <1>11, SettledKeeps

LEMMA ApplyConfirmKeeps ==
  ASSUME StoreInv, ApplyConfirm
  PROVE  StoreInv'
<1> DEFINE f == job.target
           rest == job.left \ {f}
<1>1. /\ job.pc = "applyConfirm" /\ SyncUp(f)
      /\ job' = [job EXCEPT !.left = rest, !.pc = IF rest = {} THEN "rmPayload" ELSE "apply"]
      /\ UNCHANGED <<vis, payload, payloadMay, marker, markerMay, durable, indexed, recoveryRequired, known,
                     last, scope, faults, crashes>>
      /\ f \in job.left /\ vis[f] = job.txn.after[f] /\ f \in Targets
  BY DEF ApplyConfirm, journal, cache, bounds, StoreInv, TypeOK, Job, JobInv, ApplyInv
<1>2. /\ may' \in [Targets -> SUBSET Versions] /\ may'[f] = {vis[f]}
      /\ \A g \in Targets : may'[g] \in {may[g], {vis[g]}}
  BY <1>1, SyncUpSettles
<1>3. /\ job' \in Job /\ job'.op = job.op /\ job'.txn = job.txn /\ job'.batch = job.batch
      /\ job'.left = rest /\ job'.pc = IF rest = {} THEN "rmPayload" ELSE "apply"
  BY <1>1 DEF StoreInv, TypeOK, Job
<1>4. Settling /\ Telling
  BY <1>1, <1>2 DEF Settling, Telling
<1>5. /\ ForGood(job.txn) /\ Between(job.txn) /\ Sound(job.txn) /\ job.txn \in Journal
      /\ Scope(job.txn) \subseteq Targets /\ job.left \subseteq Scope(job.txn)
      /\ \A g \in Scope(job.txn) \ job.left : may[g] = {job.txn.after[g]}
  BY <1>1, ApplyFacts
<1>6. Sound(job.txn)' /\ Between(job.txn)' /\ ForGood(job.txn)' /\ Scope(job.txn)' = Scope(job.txn)
  BY <1>3, <1>4, <1>5, SettledTxn
<1>7. TypeOK'
  BY <1>1, <1>2, <1>3 DEF StoreInv, TypeOK, JournalType
<1>8. \A g \in Scope(job.txn) \ rest : may'[g] = {job.txn.after[g]}
  <2>1. \A g \in Targets : vis[g] \in may[g]
    BY DEF StoreInv, FilesInv
  <2> QED BY <1>1, <1>2, <1>5, <2>1
<1>9. CASE rest # {}
  <2>1. ApplyInv'
    BY <1>1, <1>3, <1>5, <1>6, <1>8, <1>9 DEF ApplyInv
  <2>2. JobInv' /\ NoStaleJournal'
    BY <1>1, <1>3, <1>6, <1>9, <2>1, AppliesOn DEF Applying
  <2> QED BY <1>1, <1>4, <1>7, <2>2, SettledKeeps
<1>10. CASE rest = {}
  <2>1. Applied(job.txn)'
    BY <1>3, <1>6, <1>8, <1>10 DEF Applied
  <2>2. payload = job.txn /\ marker = job.txn /\ payload # Absent
    BY <1>5, AbsentAssumption DEF ForGood, StoreInv, FilesInv
  <2>3. Applied(payload)'
    BY <1>1, <1>3, <2>1, <2>2 DEF Applied, Scope
  <2>4. /\ job.op \in {"commit", "recover"}
        /\ job.op = "commit" => ~recoveryRequired /\ Scope(job.txn) = job.batch /\ State \in job.batch
        /\ job.op = "recover" => recoveryRequired
    BY <1>1, WhoApplies DEF Applying
  <2>5. job'.pc = "rmPayload"
    BY <1>3, <1>10
  <2>6. JobInv'
    BY <1>1, <1>3, <1>6, <2>1, <2>2, <2>3, <2>4, <2>5
       DEF JobInv, WriteInv, CommitInv, RecoverInv, ApplyInv, RemoveInv
  <2>7. NoStaleJournal'
    BY <1>1, <1>3, <2>4, <2>5 DEF NoStaleJournal
  <2> QED BY <1>1, <1>4, <1>7, <2>6, <2>7, SettledKeeps
<1> QED BY <1>9, <1>10

-----------------------------------------------------------------------------
(* The removal of a journal.                                                *)

Removing == {"rmPayload", "rmPayloadSync", "rmMarker", "rmMarkerSync"}

LEMMA WhoRemoves ==
  ASSUME StoreInv, job.pc \in Removing
  PROVE  /\ job.op \in {"commit", "recover"}
         /\ job.op = "commit" =>
              /\ ~recoveryRequired /\ Sound(job.txn) /\ Applied(job.txn) /\ job.txn # Absent
              /\ Scope(job.txn) = job.batch /\ State \in job.batch
              /\ job.pc # "rmMarkerSync" => marker = job.txn
         /\ job.op = "recover" => recoveryRequired
  BY AbsentAssumption DEF StoreInv, TypeOK, Job, JobInv, WriteInv, CommitInv, RecoverInv, Removing, Sound

\* A removal that goes on.
LEMMA RemovesOn ==
  ASSUME StoreInv, job.pc \in Removing, UNCHANGED <<marker, may, last, scope, recoveryRequired>>,
         job' = [job EXCEPT !.pc = job'.pc], job'.pc \in {"rmPayloadSync", "rmMarker"},
         RemoveInv', job.pc # "rmMarkerSync"
  PROVE  JobInv' /\ NoStaleJournal' /\ job' \in Job
<1>1. /\ job' \in Job /\ job'.op = job.op /\ job'.txn = job.txn /\ job'.batch = job.batch
  BY DEF StoreInv, TypeOK, Job
<1>2. /\ Sound(job.txn)' = Sound(job.txn) /\ Scope(job.txn)' = Scope(job.txn) /\ Applied(job.txn)' = Applied(job.txn)
  BY <1>1, SameTargets
<1>3. /\ job.op \in {"commit", "recover"}
      /\ job.op = "commit" =>
           /\ ~recoveryRequired /\ Sound(job.txn) /\ Applied(job.txn) /\ Scope(job.txn) = job.batch
           /\ State \in job.batch /\ marker = job.txn
      /\ job.op = "recover" => recoveryRequired
  BY WhoRemoves
<1>4. WriteInv' /\ CommitInv' /\ RecoverInv' /\ ApplyInv'
  BY <1>1, <1>2, <1>3 DEF WriteInv, CommitInv, RecoverInv, ApplyInv
<1>5. NoStaleJournal'
  BY <1>1, <1>3 DEF NoStaleJournal
<1> QED BY <1>1, <1>3, <1>4, <1>5 DEF JobInv

LEMMA RemovePayloadKeeps ==
  ASSUME StoreInv, RemovePayload
  PROVE  StoreInv'
<1> DEFINE T == payload
<1>1. /\ UNCHANGED <<vis, may, marker, markerMay, durable, indexed, recoveryRequired, known, last, scope, faults, crashes>>
      /\ job.pc = "rmPayload" /\ payload' = Absent /\ payloadMay' = payloadMay \cup {Absent}
      /\ job' = [job EXCEPT !.pc = "rmPayloadSync"]
      /\ T # Absent /\ (marker # Absent => Applied(T))
  BY DEF RemovePayload, Goto, targets, cache, bounds, StoreInv, JobInv, RemoveInv
<1>2. job'.pc = "rmPayloadSync"
  BY <1>1 DEF StoreInv, TypeOK, Job
<1>3. RemoveInv'
  BY <1>1, <1>2 DEF RemoveInv
<1>4. JobInv' /\ NoStaleJournal' /\ job' \in Job
  BY <1>1, <1>2, <1>3, RemovesOn DEF Removing
<1>5. T \in Journal /\ Pending(T)
  BY <1>1, PayloadIs
<1>6. Applied(T) \/ (Untouched(T) /\ markerMay = {Absent})
  <2>1. marker \in markerMay
    BY DEF StoreInv, FilesInv
  <2> QED BY <1>1, <1>5, <2>1 DEF Pending, ForGood
<1>7. PICK U \in Journal : U = T
  BY <1>5
<1>8. Pending(U)'
  BY <1>1, <1>5, <1>6, <1>7 DEF Pending, Sound, Changed, Applied, Untouched, ForGood, Scope
<1>9. JournalType' /\ payload' \in payloadMay' /\ marker' \in markerMay'
  BY <1>1 DEF JournalType, StoreInv, TypeOK, FilesInv
<1> QED BY <1>1, <1>4, <1>8, <1>9, JournalStepKeeps

LEMMA RemovePayloadSyncKeeps ==
  ASSUME StoreInv, RemovePayloadSync
  PROVE  StoreInv'
<1>1. /\ UNCHANGED <<vis, may, payload, marker, durable, indexed, recoveryRequired, known, last, scope, faults, crashes>>
      /\ job.pc = "rmPayloadSync" /\ payloadMay' = {payload} /\ markerMay' = {marker} /\ payload = Absent
      /\ job' = [job EXCEPT !.pc = IF marker = Absent THEN "finalSync" ELSE "rmMarker"]
  BY DEF RemovePayloadSync, SyncTransactions, Goto, targets, cache, bounds, StoreInv, JobInv, RemoveInv
<1>2. Settling /\ Telling
  BY <1>1 DEF Settling, Telling
<1>3. job' \in Job /\ job'.pc = (IF marker = Absent THEN "finalSync" ELSE "rmMarker") /\ job'.op = job.op
  BY <1>1 DEF StoreInv, TypeOK, Job
<1>4. TypeOK'
  BY <1>1, <1>3 DEF StoreInv, TypeOK, JournalType
<1>5. RemoveInv'
  BY <1>1, <1>3 DEF RemoveInv
<1>6. JobInv' /\ NoStaleJournal'
  <2>1. CASE marker # Absent
    BY <1>1, <1>3, <1>5, <2>1, RemovesOn DEF Removing
  <2>2. CASE marker = Absent
    <3>1. job.op = "recover" /\ recoveryRequired
      BY <1>1, <2>2, WhoRemoves DEF Removing
    <3> QED BY <1>1, <1>3, <1>5, <2>2, <3>1
            DEF JobInv, WriteInv, CommitInv, RecoverInv, ApplyInv, NoStaleJournal
  <2> QED BY <2>1, <2>2
<1> QED BY <1>1, <1>2, <1>4, <1>6, SettledKeeps

LEMMA RemoveMarkerKeeps ==
  ASSUME StoreInv, RemoveMarker
  PROVE  StoreInv'
<1> DEFINE T == marker
<1>1. /\ UNCHANGED <<vis, may, payload, payloadMay, durable, indexed, recoveryRequired, known, last, scope, faults, crashes>>
      /\ job.pc = "rmMarker" /\ marker' = Absent /\ markerMay' = markerMay \cup {Absent}
      /\ job' = [job EXCEPT !.pc = "rmMarkerSync"]
      /\ T # Absent /\ payload = Absent
  BY DEF RemoveMarker, Goto, targets, cache, bounds, StoreInv, JobInv, RemoveInv
<1>2. job' \in Job /\ job'.pc = "rmMarkerSync" /\ job'.op = job.op /\ job'.txn = job.txn /\ job'.batch = job.batch
  BY <1>1 DEF StoreInv, TypeOK, Job
<1>3. /\ Sound(job.txn)' = Sound(job.txn) /\ Scope(job.txn)' = Scope(job.txn) /\ Applied(job.txn)' = Applied(job.txn)
  BY <1>1, <1>2, SameTargets
<1>4. /\ job.op \in {"commit", "recover"}
      /\ job.op = "commit" => /\ ~recoveryRequired /\ Sound(job.txn) /\ Applied(job.txn)
                              /\ Scope(job.txn) = job.batch /\ State \in job.batch
      /\ job.op = "recover" => recoveryRequired
  BY <1>1, WhoRemoves DEF Removing
<1>5. JobInv' /\ NoStaleJournal'
  BY <1>1, <1>2, <1>3, <1>4 DEF JobInv, WriteInv, CommitInv, RecoverInv, ApplyInv, RemoveInv, NoStaleJournal
<1>6. T \in Journal /\ Pending(T) /\ Applied(T)
  BY <1>1, MarkerIs, MarkerAlone
<1>7. PICK U \in Journal : U = T
  BY <1>6
<1>8. Pending(U)'
  BY <1>1, <1>6, <1>7 DEF Pending, Sound, Changed, Applied, Scope
<1>9. JournalType' /\ payload' \in payloadMay' /\ marker' \in markerMay'
  BY <1>1 DEF JournalType, StoreInv, TypeOK, FilesInv
<1> QED BY <1>1, <1>2, <1>5, <1>8, <1>9, JournalStepKeeps

LEMMA RemoveMarkerSyncKeeps ==
  ASSUME StoreInv, RemoveMarkerSync
  PROVE  StoreInv'
<1>1. /\ UNCHANGED <<vis, may, payload, marker, durable, recoveryRequired, last, scope, faults, crashes>>
      /\ job.pc = "rmMarkerSync" /\ payloadMay' = {payload} /\ markerMay' = {marker}
      /\ payload = Absent /\ marker = Absent
      /\ IF job.op = "commit"
         THEN /\ job' = NoJob /\ indexed' = FALSE
              /\ known' = [f \in Targets |-> IF f \in job.batch THEN vis[f] ELSE known[f]]
         ELSE job' = [job EXCEPT !.pc = "finalSync"] /\ UNCHANGED <<indexed, known>>
  BY DEF RemoveMarkerSync, SyncTransactions, Goto, Tell, targets, bounds, StoreInv, JobInv, RemoveInv
<1>2. Settling /\ Quiet'
  BY <1>1 DEF Settling, Quiet
<1>3. NoStaleJournal'
  BY <1>2 DEF NoStaleJournal, Quiet
<1>4. CASE job.op = "commit"
  <2>1. Applied(job.txn) /\ Scope(job.txn) = job.batch
    BY <1>1, <1>4, WhoRemoves DEF Removing
  <2>2. Telling
    BY <1>1, <1>4, <2>1 DEF Telling, Applied, StoreInv, FilesInv
  <2>3. TypeOK'
    BY <1>1, <1>4, NoJobType DEF StoreInv, TypeOK, JournalType
  <2> QED BY <1>1, <1>2, <1>3, <1>4, <2>2, <2>3, NoJobKeeps, SettledKeeps
<1>5. CASE job.op # "commit"
  <2>1. job.op = "recover" /\ recoveryRequired
    BY <1>1, <1>5, WhoRemoves DEF Removing
  <2>2. job' \in Job /\ job'.op = "recover" /\ job'.pc = "finalSync"
    BY <1>1, <1>5, <2>1 DEF StoreInv, TypeOK, Job
  <2>3. TypeOK' /\ Telling
    BY <1>1, <1>5, <2>2 DEF StoreInv, TypeOK, JournalType, Telling
  <2>4. JobInv'
    BY <1>1, <2>1, <2>2 DEF JobInv, WriteInv, CommitInv, RecoverInv, ApplyInv, RemoveInv
  <2> QED BY <1>1, <1>2, <1>3, <2>3, <2>4, SettledKeeps
<1> QED BY <1>4, <1>5

-----------------------------------------------------------------------------
(* recoverJournals, failed calls and crashes.                               *)

LEMMA StartRecoveryKeeps ==
  ASSUME StoreInv, StartRecovery
  PROVE  StoreInv'
<1>1. /\ UNCHANGED <<vis, may, payload, payloadMay, marker, markerMay, indexed, recoveryRequired,
                     known, last, scope, faults, crashes>>
      /\ recoveryRequired /\ durable' = {}
      /\ job' = [op |-> "recover", pc |-> "scan", target |-> State, txn |-> Absent, batch |-> {}, left |-> {}]
  BY DEF StartRecovery, NoJob, targets, journal, bounds
<1>2. TypeOK'
  BY <1>1 DEF StoreInv, TypeOK, JournalType, Job, Targets
<1>3. Settling /\ Telling /\ NoStaleJournal'
  BY <1>1 DEF Settling, Telling, NoStaleJournal
<1>4. JobInv'
  BY <1>1 DEF JobInv, WriteInv, CommitInv, RecoverInv, ApplyInv, RemoveInv
<1> QED BY <1>1, <1>2, <1>3, <1>4, SettledKeeps

LEMMA ScanKeeps ==
  ASSUME StoreInv, Scan
  PROVE  StoreInv'
<1>1. /\ UNCHANGED <<vis, may, payload, payloadMay, marker, markerMay, durable, indexed, recoveryRequired,
                     known, last, scope, faults, crashes>>
      /\ job.pc = "scan"
  BY DEF Scan, targets, journal, cache, bounds
<1>2. job.op = "recover" /\ recoveryRequired
  BY <1>1 DEF StoreInv, TypeOK, Job, JobInv, WriteInv, CommitInv, RecoverInv
<1>3. payload # Absent => payload \in Journal /\ Sound(payload) /\ marker \in {Absent, payload}
  BY PayloadIs DEF Pending, StoreInv, FilesInv
<1>4. \/ payload # Absent /\ marker = Absent /\ job' = [job EXCEPT !.pc = "rmPayload"]
      \/ /\ payload # Absent /\ marker = payload
         /\ job' = [job EXCEPT !.pc = "persist", !.txn = payload, !.batch = Scope(payload)]
      \/ payload = Absent /\ marker # Absent /\ job' = [job EXCEPT !.pc = "rmMarker"]
      \/ payload = Absent /\ marker = Absent /\ job' = [job EXCEPT !.pc = "finalSync"]
  BY <1>3 DEF Scan
<1>5. Settling /\ Telling /\ NoStaleJournal'
  BY <1>1, <1>2 DEF Settling, Telling, NoStaleJournal
<1>6. job' \in Job /\ job'.op = "recover" /\ JobInv'
  <2>1. CASE payload # Absent /\ marker = payload
    <3>1. job' = [job EXCEPT !.pc = "persist", !.txn = payload, !.batch = Scope(payload)]
      BY <1>4, <2>1
    <3>2. Scope(payload) \subseteq Targets
      BY <1>3, <2>1, JournalShape
    <3>3. job' \in Job /\ job'.op = "recover" /\ job'.pc = "persist" /\ job'.txn = payload
      BY <1>2, <1>3, <2>1, <3>1, <3>2 DEF StoreInv, TypeOK, Job
    <3>4. Sound(job.txn)'
      BY <1>1, <1>3, <2>1, <3>3 DEF Sound, Changed, Scope
    <3> QED BY <1>1, <1>2, <2>1, <3>3, <3>4 DEF JobInv, WriteInv, CommitInv, RecoverInv, ApplyInv, RemoveInv
  <2>2. CASE ~(payload # Absent /\ marker = payload)
    <3>1. PICK p \in {"rmPayload", "rmMarker", "finalSync"} :
            /\ job' = [job EXCEPT !.pc = p]
            /\ p = "rmPayload" => payload # Absent /\ marker = Absent
            /\ p = "rmMarker" => payload = Absent /\ marker # Absent
            /\ p = "finalSync" => payload = Absent /\ marker = Absent
      BY <1>4, <2>2
    <3>2. job' \in Job /\ job'.op = "recover" /\ job'.pc = p
      BY <1>2, <3>1 DEF StoreInv, TypeOK, Job
    <3> QED BY <1>1, <1>2, <3>1, <3>2 DEF JobInv, WriteInv, CommitInv, RecoverInv, ApplyInv, RemoveInv
  <2> QED BY <2>1, <2>2
<1>7. TypeOK'
  BY <1>1, <1>6 DEF StoreInv, TypeOK, JournalType
<1> QED BY <1>1, <1>5, <1>6, <1>7, SettledKeeps

LEMMA FinalSyncKeeps ==
  ASSUME StoreInv, FinalSync
  PROVE  StoreInv'
<1>1. /\ UNCHANGED <<vis, may, payload, marker, durable, indexed, known, last, scope, faults, crashes>>
      /\ payloadMay' = {payload} /\ markerMay' = {marker} /\ payload = Absent /\ marker = Absent
      /\ job' = NoJob /\ recoveryRequired' = FALSE
  BY DEF FinalSync, LastSync, SyncTransactions, targets, cache, bounds, StoreInv, JobInv, RemoveInv
<1>2. Settling /\ Telling /\ NoStaleJournal'
  BY <1>1 DEF Settling, Telling, NoStaleJournal
<1>3. TypeOK'
  BY <1>1, NoJobType DEF StoreInv, TypeOK, JournalType
<1> QED BY <1>1, <1>2, <1>3, NoJobKeeps, SettledKeeps

LEMMA ThrowKeeps ==
  ASSUME StoreInv, Throw
  PROVE  StoreInv'
<1>1. /\ UNCHANGED <<vis, may, payload, payloadMay, marker, markerMay, known, last, scope, crashes>>
      /\ faults < MaxFaults /\ faults' = faults + 1 /\ durable' \subseteq durable
      /\ indexed' = (indexed /\ job.pc = "confirm")
      /\ recoveryRequired' = (recoveryRequired \/ (job.op = "commit" /\ job.pc # "confirm"))
      /\ job' = NoJob
  BY DEF Throw, Unmarked, targets, journal
<1>2. Settling /\ Telling
  BY <1>1 DEF Settling, Telling
<1>3. TypeOK'
  BY <1>1, NoJobType, StoreAssumption DEF StoreInv, TypeOK, JournalType
<1>4. NoStaleJournal'
  BY <1>1 DEF StoreInv, NoStaleJournal
<1> QED BY <1>1, <1>2, <1>3, <1>4, NoJobKeeps, SettledKeeps

LEMMA RestartFacts ==
  ASSUME StoreInv, Restart
  PROVE  /\ UNCHANGED <<known, scope, last, faults>> /\ crashes' \in 0..MaxCrashes
         /\ durable' = {} /\ indexed' = FALSE /\ recoveryRequired' = TRUE /\ job' = NoJob
         /\ job' \in Job /\ JobInv' /\ NoStaleJournal' /\ CacheIsSound'
<1>1. /\ UNCHANGED <<known, scope, last, faults>> /\ crashes < MaxCrashes /\ crashes' = crashes + 1
      /\ durable' = {} /\ indexed' = FALSE /\ recoveryRequired' = TRUE /\ job' = NoJob
  BY DEF Restart
<1>2. crashes' \in 0..MaxCrashes
  BY <1>1, StoreAssumption DEF StoreInv, TypeOK
<1> QED BY <1>1, <1>2, NoJobType, NoJobKeeps DEF NoStaleJournal, CacheIsSound

LEMMA CrashKeeps ==
  ASSUME StoreInv, Crash
  PROVE  StoreInv'
<1>1. UNCHANGED <<vis, may, payload, payloadMay, marker, markerMay>> /\ Restart
  BY DEF Crash, targets, journal
<1>2. Settling /\ Telling
  BY <1>1, RestartFacts DEF Settling, Telling
<1>3. TypeOK'
  BY <1>1, RestartFacts DEF StoreInv, TypeOK, JournalType
<1> QED BY <1>1, <1>2, <1>3, RestartFacts, SettledKeeps

\* What a power loss leaves is what it could leave.
LEMMA PowerLossFacts ==
  ASSUME StoreInv, PowerLoss
  PROVE  /\ vis' \in [Targets -> Versions] /\ may' \in [Targets -> SUBSET Versions]
         /\ \A f \in Targets : vis'[f] \in may[f] /\ may'[f] = {vis'[f]}
         /\ payload' \in payloadMay /\ marker' \in markerMay
         /\ payloadMay' = {payload'} /\ markerMay' = {marker'}
<1>1. /\ vis' \in [Targets -> UNION {may[f] : f \in Targets}] /\ \A f \in Targets : vis'[f] \in may[f]
      /\ may' = [f \in Targets |-> {vis'[f]}]
      /\ payload' \in payloadMay /\ marker' \in markerMay
      /\ payloadMay' = {payload'} /\ markerMay' = {marker'}
  BY DEF PowerLoss
<1>2. \A f \in Targets : vis'[f] \in Versions
  BY <1>1, FileTypes
<1> QED BY <1>1, <1>2

LEMMA PowerLossKeeps ==
  ASSUME StoreInv, PowerLoss
  PROVE  StoreInv'
<1>1. /\ vis' \in [Targets -> Versions] /\ may' \in [Targets -> SUBSET Versions]
      /\ \A f \in Targets : vis'[f] \in may[f] /\ may'[f] = {vis'[f]}
      /\ payload' \in payloadMay /\ marker' \in markerMay
      /\ payloadMay' = {payload'} /\ markerMay' = {marker'}
  BY PowerLossFacts
<1>2. Restart
  BY DEF PowerLoss
<1>3. /\ UNCHANGED <<known, scope, last, faults>> /\ crashes' \in 0..MaxCrashes
      /\ durable' = {} /\ indexed' = FALSE /\ recoveryRequired' = TRUE
      /\ job' \in Job /\ JobInv' /\ NoStaleJournal' /\ CacheIsSound'
  BY <1>2, RestartFacts
<1>4. TypeOK'
  BY <1>1, <1>3 DEF StoreInv, TypeOK, JournalType
<1>5. FilesInv'
  <2>1. CASE Quiet
    BY <1>1, <2>1 DEF FilesInv, Quiet
  <2>2. ASSUME NEW T \in Journal, Pending(T)
        PROVE  Pending(T)'
    <3>1. Scope(T) \subseteq Targets /\ T # Absent
      BY JournalShape
    <3>2. Sound(T)'
      BY <1>3, <2>2 DEF Pending, Sound, Changed
    <3>3. payloadMay' \subseteq {Absent, T} /\ markerMay' \subseteq {Absent, T}
      BY <1>1, <2>2 DEF Pending
    <3>4. CASE Applied(T)
      <4>1. Applied(T)'
        BY <1>1, <3>1, <3>4 DEF Applied
      <4> QED BY <3>2, <3>3, <4>1 DEF Pending
    <3>5. CASE ForGood(T) /\ Between(T)
      <4>1. ForGood(T)' /\ Between(T)'
        BY <1>1, <3>1, <3>5 DEF ForGood, Between
      <4> QED BY <3>2, <3>3, <4>1 DEF Pending
    <3>6. CASE Untouched(T) /\ (markerMay = {Absent} \/ payloadMay = {T})
      <4>1. Untouched(T)'
        BY <1>1, <3>1, <3>6 DEF Untouched
      <4>2. markerMay' = {Absent} \/ (payloadMay' = {T} /\ marker' = T)
        BY <1>1, <3>3, <3>6
      <4> QED BY <3>2, <3>3, <4>1, <4>2 DEF Pending
    <3> QED BY <2>2, <3>4, <3>5, <3>6 DEF Pending
  <2>3. CASE \E T \in Journal : Pending(T)
    BY <1>1, <2>2, <2>3 DEF FilesInv
  <2> QED BY <2>1, <2>3 DEF StoreInv, FilesInv
<1>6. VersionsInv'
  BY <1>1, <1>3 DEF StoreInv, VersionsInv
<1>7. KnownSurvives'
  BY <1>1, <1>3 DEF StoreInv, KnownSurvives
<1> QED BY <1>3, <1>4, <1>5, <1>6, <1>7 DEF StoreInv

-----------------------------------------------------------------------------
(* The theorems.                                                            *)

LEMMA StoreInitInv ==
  ASSUME Init
  PROVE  StoreInv
<1>1. /\ vis = [f \in Targets |-> 0] /\ may = [f \in Targets |-> {0}]
      /\ payload = Absent /\ payloadMay = {Absent} /\ marker = Absent /\ markerMay = {Absent}
      /\ job = NoJob /\ durable = {} /\ indexed = FALSE /\ recoveryRequired = TRUE
      /\ known = [f \in Targets |-> 0] /\ scope = [v \in Versions |-> {}]
      /\ last = 0 /\ faults = 0 /\ crashes = 0
  BY DEF Init
<1>2. TypeOK
  <2>1. 0 \in Versions /\ 0 \in 0..MaxFaults /\ 0 \in 0..MaxCrashes
    BY StoreAssumption DEF Versions
  <2> QED BY <1>1, <2>1, NoJobType DEF TypeOK, JournalType
<1>3. FilesInv
  BY <1>1 DEF FilesInv, Quiet
<1>4. VersionsInv
  BY <1>1 DEF VersionsInv
<1>5. CacheIsSound /\ KnownSurvives /\ NoStaleJournal
  BY <1>1 DEF CacheIsSound, KnownSurvives, NoStaleJournal
<1>6. JobInv
  BY <1>1 DEF NoJob, JobInv, WriteInv, CommitInv, RecoverInv, ApplyInv, RemoveInv
<1> QED BY <1>2, <1>3, <1>4, <1>5, <1>6 DEF StoreInv

LEMMA StoreStutterKeeps ==
  ASSUME StoreInv, UNCHANGED vars
  PROVE  StoreInv'
<1>1. UNCHANGED <<vis, may, payload, payloadMay, marker, markerMay, job, durable, indexed, recoveryRequired,
                  known, last, scope, faults, crashes>>
  BY DEF vars, targets, journal, cache, bounds
<1>2. Settling /\ Telling
  BY <1>1 DEF Settling, Telling
<1>3. TypeOK' /\ NoStaleJournal'
  BY <1>1 DEF StoreInv, TypeOK, JournalType, NoStaleJournal
<1>4. JobInv'
  BY <1>1 DEF StoreInv, JobInv, WriteInv, CommitInv, RecoverInv, ApplyInv, RemoveInv, Sound, Changed, Scope,
              Untouched, Applied, Between, ForGood
<1> QED BY <1>1, <1>2, <1>3, <1>4, SettledKeeps

LEMMA StoreStepInv ==
  ASSUME StoreInv, [Next]_vars
  PROVE  StoreInv'
<1>1. ASSUME NEW f \in Targets, Read(f) \/ StartWrite(f)
      PROVE  StoreInv'
  BY <1>1, ReadKeeps, StartWriteKeeps
<1>2. CASE WriteRename \/ WriteSync
  BY <1>2, WriteRenameKeeps, WriteSyncKeeps
<1>3. ASSUME NEW R \in SUBSET Receipts, StartCommit(R)
      PROVE  StoreInv'
  BY <1>3, StartCommitKeeps
<1>4. CASE CommitRead \/ PrepareJournal \/ PutPayload \/ PutMarker \/ JournalSync
  BY <1>4, CommitReadKeeps, PrepareJournalKeeps, PutPayloadKeeps, PutMarkerKeeps, JournalSyncKeeps
<1>5. CASE Persist \/ Check \/ Apply \/ ApplySync \/ ApplyConfirm
  BY <1>5, PersistKeeps, CheckKeeps, ApplyKeeps, ApplySyncKeeps, ApplyConfirmKeeps
<1>6. CASE RemovePayload \/ RemovePayloadSync \/ RemoveMarker \/ RemoveMarkerSync
  BY <1>6, RemovePayloadKeeps, RemovePayloadSyncKeeps, RemoveMarkerKeeps, RemoveMarkerSyncKeeps
<1>7. CASE StartRecovery \/ Scan \/ FinalSync \/ Throw \/ Crash \/ PowerLoss
  BY <1>7, StartRecoveryKeeps, ScanKeeps, FinalSyncKeeps, ThrowKeeps, CrashKeeps, PowerLossKeeps
<1>8. CASE UNCHANGED vars
  BY <1>8, StoreStutterKeeps
<1> QED BY <1>1, <1>2, <1>3, <1>4, <1>5, <1>6, <1>7, <1>8 DEF Next

LEMMA StoreInvariant ==
  Spec => []StoreInv
<1>1. Init => StoreInv
  BY StoreInitInv
<1>2. StoreInv /\ [Next]_vars => StoreInv'
  BY StoreStepInv
<1> QED BY <1>1, <1>2, PTL DEF Spec

\* Recovery never meets a journal that contradicts its marker or its targets
\* (storage-journal.ts 63 and 110), whichever calls failed and whenever the
\* process or the power did.
THEOREM NeverCorruptThm == Spec => []NeverCorrupt
<1>1. StoreInv => NeverCorrupt
  BY DEF StoreInv, JobInv, NeverCorrupt
<1> QED BY <1>1, StoreInvariant, PTL

\* What #durableFiles says is durable is what a power loss leaves.
THEOREM CacheIsSoundThm == Spec => []CacheIsSound
<1>1. StoreInv => CacheIsSound
  BY DEF StoreInv
<1> QED BY <1>1, StoreInvariant, PTL

\* A store that serves requests has no journal left that a power loss could
\* bring back.
THEOREM NoStaleJournalThm == Spec => []NoStaleJournal
<1>1. StoreInv => NoStaleJournal
  BY DEF StoreInv
<1> QED BY <1>1, StoreInvariant, PTL

\* What a caller has read, or was told to be written, is never undone.
THEOREM KnownSurvivesThm == Spec => []KnownSurvives
<1>1. StoreInv => KnownSurvives
  BY DEF StoreInv
<1> QED BY <1>1, StoreInvariant, PTL

-----------------------------------------------------------------------------
(* The refinement.                                                          *)

Content == [f \in Targets |-> IF InTransaction(f) THEN payload.after[f] ELSE vis[f]]
Undo    == [f \in Targets |-> IF InTransaction(f) THEN {} ELSE may[f] \ {vis[f]}]

LEMMA AbstractConfirm ==
  ASSUME Content' = Content, scope' = scope,
         \A f \in Targets :
           /\ Undo'[f] \in {Undo[f], {}}
           /\ known'[f] = known[f] \/ (known'[f] = Content[f] /\ Undo'[f] = {})
  PROVE  Abstract!Next
  BY DEF Abstract!Next, Abstract!Confirm, Content, Undo

LEMMA AbstractBegin ==
  ASSUME NEW v \in Versions, NEW S \in SUBSET Targets, scope[v] = {}, scope' = [scope EXCEPT ![v] = S],
         Content' = Content, Undo' = Undo, known' = known
  PROVE  Abstract!Next
  BY DEF Abstract!Next, Abstract!Begin, Content, Undo

LEMMA AbstractWrite ==
  ASSUME NEW f \in Targets, Content'[f] > Content[f], scope[Content'[f]] = {f},
         Undo'[f] = Undo[f] \cup {Content[f]},
         \A g \in Targets \ {f} : Content'[g] = Content[g] /\ Undo'[g] = Undo[g],
         UNCHANGED <<known, scope>>
  PROVE  Abstract!Next
  BY DEF Abstract!Next, Abstract!Write, Content, Undo

AbstractMoves(S) ==
  \A f \in S : /\ Content'[f] > Content[f] /\ scope[Content'[f]] = S
               /\ Undo[f] = {} /\ Undo'[f] = {}

LEMMA AbstractTransact ==
  ASSUME NEW S \in SUBSET Targets, AbstractMoves(S), UNCHANGED <<known, scope>>,
         \A f \in Targets \ S : Content'[f] = Content[f] /\ Undo'[f] \in {Undo[f], {}}
  PROVE  Abstract!Next
  BY DEF Abstract!Next, Abstract!Transact, Abstract!Moves, AbstractMoves, Content, Undo

LEMMA AbstractPowerLoss ==
  ASSUME NEW S \in SUBSET Targets, AbstractMoves(S), UNCHANGED <<known, scope>>,
         \A f \in Targets \ S : Content'[f] \in {Content[f]} \cup Undo[f],
         Undo' = [f \in Targets |-> {}]
  PROVE  Abstract!Next
  BY DEF Abstract!Next, Abstract!PowerLoss, Abstract!Moves, AbstractMoves, Content, Undo

\* What has been decided.
LEMMA DecidedFacts ==
  ASSUME StoreInv, Decided
  PROVE  /\ payload \in Journal /\ Sound(payload) /\ Between(payload) /\ Scope(payload) \subseteq Targets
         /\ \A f \in Scope(payload) : vis[f] \in {payload.before[f], payload.after[f]}
<1>1. payload \in Journal /\ Sound(payload) /\ Between(payload)
  BY PayloadIs, BothAre DEF Decided
<1>2. Scope(payload) \subseteq Targets
  BY <1>1, JournalShape
<1> QED BY <1>1, <1>2 DEF Between, StoreInv, FilesInv

LEMMA AbstractValues ==
  \A f \in Targets :
    /\ Content[f] = IF InTransaction(f) THEN payload.after[f] ELSE vis[f]
    /\ Undo[f] = IF InTransaction(f) THEN {} ELSE may[f] \ {vis[f]}
  BY DEF Content, Undo

LEMMA AbstractValuesNext ==
  /\ \A f \in Targets :
       /\ Content'[f] = IF InTransaction(f)' THEN payload'.after[f] ELSE vis'[f]
       /\ Undo'[f] = IF InTransaction(f)' THEN {} ELSE may'[f] \ {vis'[f]}
  /\ Content' = [f \in Targets |-> Content'[f]]
  /\ Undo' = [f \in Targets |-> Undo'[f]]
  BY DEF Content, Undo

\* A step with which nothing is decided.
LEMMA SettledImplements ==
  ASSUME StoreInv, Settling, Telling, Decided' <=> Decided, Decided => known' = known
  PROVE  Abstract!Next
<1>1. \A f \in Targets : InTransaction(f)' <=> InTransaction(f)
  BY DEF InTransaction, Scope, Settling
<1>2. \A f \in Targets : Content'[f] = Content[f] /\ Undo'[f] \in {Undo[f], {}}
  BY <1>1, AbstractValues, AbstractValuesNext DEF Settling
<1>3. \A f \in Targets : known'[f] = known[f] \/ (known'[f] = Content[f] /\ Undo'[f] = {})
  BY <1>1, AbstractValues, AbstractValuesNext DEF Settling, Telling, InTransaction
<1>4. Content' = Content
  BY <1>2, AbstractValuesNext DEF Content
<1> QED BY <1>2, <1>3, <1>4, AbstractConfirm DEF Settling

\* The targets of a transaction that is decided before any was touched move together.
LEMMA ChangedMoves ==
  ASSUME StoreInv, NEW T \in Journal, Sound(T), Untouched(T), ~Decided, Decided', payload' = T
  PROVE  /\ Changed(T) \in SUBSET Targets /\ Changed(T) \subseteq Scope(T) /\ AbstractMoves(Changed(T))
         /\ \A f \in Scope(T) \ Changed(T) : Content'[f] = Content[f]
<1> DEFINE S == Changed(T)
<1>1. /\ Scope(T) \subseteq Targets /\ S \subseteq Scope(T)
      /\ T.before \in [Scope(T) -> Versions] /\ T.after \in [Scope(T) -> Versions]
  BY JournalShape DEF Changed
<1>2. \A f \in Targets : Content[f] = vis[f] /\ Undo[f] = may[f] \ {vis[f]}
  BY AbstractValues DEF InTransaction
<1>3. \A f \in Scope(T) : Content'[f] = T.after[f] /\ Undo'[f] = {}
  BY <1>1, AbstractValuesNext DEF InTransaction, Scope
<1>4. ASSUME NEW f \in Scope(T)
      PROVE  Content[f] = T.before[f] /\ Undo[f] = {}
  <2>1. vis[f] \in may[f]
    BY <1>1 DEF StoreInv, FilesInv
  <2>2. may[f] = {T.before[f]}
    BY DEF Untouched
  <2> QED BY <1>1, <1>2, <2>1, <2>2
<1>5. ASSUME NEW f \in S
      PROVE  /\ Content'[f] > Content[f] /\ scope[Content'[f]] = S
             /\ Undo[f] = {} /\ Undo'[f] = {}
  <2>1. f \in Scope(T) /\ T.after[f] # T.before[f] /\ T.after[f] \in Nat /\ T.before[f] \in Nat
    BY <1>1, FileTypes DEF Changed
  <2>2. Content'[f] = T.after[f] /\ Undo'[f] = {} /\ Content[f] = T.before[f] /\ Undo[f] = {}
    BY <1>3, <1>4, <2>1
  <2>3. scope[T.after[f]] = S /\ T.after[f] >= T.before[f]
    BY <2>1 DEF Sound
  <2> QED BY <2>1, <2>2, <2>3
<1>6. \A f \in Scope(T) \ S : Content'[f] = Content[f]
  BY <1>3, <1>4 DEF Changed
<1> QED BY <1>1, <1>5, <1>6 DEF AbstractMoves

\* A step that makes the payload and its marker durable: the transaction happens now,
\* unless it has happened already.
LEMMA DecidingImplements ==
  ASSUME StoreInv, Settling, UNCHANGED known, payload # Absent, marker = payload,
         payloadMay' = {payload}, markerMay' = {marker}
  PROVE  Abstract!Next
<1> DEFINE T == payload
           S == Changed(T)
<1>1. T \in Journal /\ Pending(T) /\ Sound(T)
  BY PayloadIs
<1>2. /\ Scope(T) \subseteq Targets /\ S \subseteq Scope(T)
      /\ T.before \in [Scope(T) -> Versions] /\ T.after \in [Scope(T) -> Versions]
  BY <1>1, JournalShape DEF Changed
<1>3. Decided' /\ payload' = T
  BY DEF Decided, Settling
<1>4. \A f \in Targets :
        /\ Content'[f] = IF f \in Scope(T) THEN T.after[f] ELSE vis[f]
        /\ Undo'[f] = IF f \in Scope(T) THEN {} ELSE may'[f] \ {vis[f]}
        /\ vis[f] \in may[f] /\ may'[f] \in {may[f], {vis[f]}}
  BY <1>3, AbstractValuesNext DEF InTransaction, Scope, Settling, StoreInv, FilesInv
<1>5. CASE Decided
  BY <1>3, <1>5, SettledImplements DEF Telling
<1>6. CASE ~Decided
  <2>1. \A f \in Targets : Content[f] = vis[f] /\ Undo[f] = may[f] \ {vis[f]}
    BY <1>6, AbstractValues DEF InTransaction
  <2>2. Applied(T) \/ Untouched(T)
    BY <1>1, <1>6 DEF Pending, ForGood, Decided
  <2>3. \A f \in Targets : Undo'[f] \in {Undo[f], {}}
    <3>1. ASSUME NEW f \in Targets, f \notin Scope(T)
          PROVE  Undo'[f] \in {Undo[f], {}}
      <4>1. Undo'[f] = may'[f] \ {vis[f]} /\ (may'[f] = may[f] \/ may'[f] = {vis[f]})
        BY <1>4, <3>1
      <4>2. {vis[f]} \ {vis[f]} = {}
        OBVIOUS
      <4> QED BY <2>1, <4>1, <4>2
    <3> QED BY <1>4, <3>1
  <2>4. CASE Applied(T)
    <3>1. \A f \in Scope(T) : vis[f] = T.after[f]
      <4>1. ASSUME NEW f \in Scope(T)
            PROVE  vis[f] = T.after[f]
        <5>1. vis[f] \in may[f]
          BY <1>2 DEF StoreInv, FilesInv
        <5>2. may[f] = {T.after[f]}
          BY <2>4 DEF Applied
        <5> QED BY <5>1, <5>2
      <4> QED BY <4>1
    <3>2. \A f \in Targets : Content'[f] = Content[f]
      BY <1>4, <2>1, <3>1
    <3>3. Content' = Content
      BY <3>2, AbstractValuesNext DEF Content
    <3> QED BY <2>3, <3>3, AbstractConfirm DEF Settling
  <2>5. CASE Untouched(T)
    <3>1. /\ S \in SUBSET Targets /\ S \subseteq Scope(T) /\ AbstractMoves(S)
          /\ \A f \in Scope(T) \ S : Content'[f] = Content[f]
      <4>1. PICK U \in Journal : U = T
        BY <1>1
      <4> QED BY <1>1, <1>3, <1>6, <2>5, <4>1, ChangedMoves DEF Untouched, Sound, Changed
    <3>2. \A f \in Targets \ S : Content'[f] = Content[f]
      BY <1>4, <2>1, <3>1
    <3> HIDE DEF S
    <3> QED BY <2>3, <3>1, <3>2, AbstractTransact DEF Settling
  <2> QED BY <2>2, <2>4, <2>5
<1> QED BY <1>5, <1>6

\* A step that changes no file and decides nothing.
LEMMA UndecidedImplements ==
  ASSUME ~Decided, ~Decided', UNCHANGED <<vis, may, known, scope>>
  PROVE  Abstract!Next
<1>1. Content' = Content /\ Undo' = Undo
  BY DEF Content, Undo, InTransaction
<1> QED BY <1>1, AbstractConfirm

\* A step on the targets that only settles names. Nothing is told while a
\* transaction is decided.
LEMMA TargetsImplement ==
  ASSUME StoreInv, Telling, Quiet \/ UNCHANGED known,
         UNCHANGED <<vis, payload, payloadMay, marker, markerMay, last, scope>>,
         \A g \in Targets : may'[g] \in {may[g], {vis[g]}}
  PROVE  Abstract!Next
<1>1. Settling
  BY DEF Settling
<1>2. Decided' <=> Decided
  BY DEF Decided
<1>3. Decided => UNCHANGED known
  BY DEF Decided, Quiet, StoreInv, FilesInv
<1> QED BY <1>1, <1>2, <1>3, SettledImplements

LEMMA ReadImplements ==
  ASSUME StoreInv, NEW f \in Targets, Read(f)
  PROVE  Abstract!Next
<1>1. /\ UNCHANGED <<vis, payload, payloadMay, marker, markerMay, last, scope>>
      /\ job.op = "none" /\ ~recoveryRequired /\ Confirm(f) /\ known' = [known EXCEPT ![f] = vis[f]]
  BY DEF Read, journal, bounds
<1>2. may'[f] = {vis[f]} /\ \A g \in Targets : may'[g] \in {may[g], {vis[g]}}
  BY <1>1, ConfirmSettles
<1>3. Telling
  BY <1>1, <1>2 DEF Telling, StoreInv, TypeOK
<1>4. Quiet
  BY <1>1 DEF StoreInv, NoStaleJournal, Quiet
<1> QED BY <1>1, <1>2, <1>3, <1>4, TargetsImplement

LEMMA WriteSyncImplements ==
  ASSUME StoreInv, WriteSync
  PROVE  Abstract!Next
<1> DEFINE f == job.target
<1>1. /\ UNCHANGED <<vis, payload, payloadMay, marker, markerMay, last, scope>>
      /\ job.op = "write" /\ ~recoveryRequired /\ SyncUp(f) /\ f \in Targets
      /\ known' = [g \in Targets |-> IF g \in {f} THEN vis[g] ELSE known[g]]
  BY DEF WriteSync, At, Tell, journal, bounds, StoreInv, TypeOK, Job, JobInv, WriteInv
<1>2. may'[f] = {vis[f]} /\ \A g \in Targets : may'[g] \in {may[g], {vis[g]}}
  BY <1>1, SyncUpSettles
<1>3. Telling
  BY <1>1, <1>2 DEF Telling
<1>4. Quiet
  BY <1>1 DEF StoreInv, NoStaleJournal, Quiet
<1> QED BY <1>1, <1>2, <1>3, <1>4, TargetsImplement

LEMMA CommitReadImplements ==
  ASSUME StoreInv, CommitRead
  PROVE  Abstract!Next
<1>1. PICK f \in job.left : Confirm(f) /\ known' = [known EXCEPT ![f] = vis[f]]
  BY DEF CommitRead
<1>2. /\ UNCHANGED <<vis, payload, payloadMay, marker, markerMay, last, scope>>
      /\ job.op = "commit" /\ job.pc = "confirm" /\ f \in Targets /\ ~recoveryRequired
  BY <1>1 DEF CommitRead, At, journal, bounds, StoreInv, TypeOK, Job, JobInv, CommitInv
<1>3. may'[f] = {vis[f]} /\ \A g \in Targets : may'[g] \in {may[g], {vis[g]}}
  BY <1>1, <1>2, ConfirmSettles
<1>4. Telling
  BY <1>1, <1>3 DEF Telling, StoreInv, TypeOK
<1>5. Quiet
  BY <1>2 DEF StoreInv, NoStaleJournal, Quiet
<1> QED BY <1>2, <1>3, <1>4, <1>5, TargetsImplement

\* The steps of apply that only sync.
LEMMA ApplySyncImplements ==
  ASSUME StoreInv, ApplySync \/ ApplyConfirm
  PROVE  Abstract!Next
<1>1. /\ UNCHANGED <<vis, payload, payloadMay, marker, markerMay, known, last, scope>>
      /\ SyncUp(job.target) /\ job.target \in Targets
  BY DEF ApplySync, ApplyConfirm, journal, bounds, StoreInv, TypeOK, Job
<1>2. Telling /\ \A g \in Targets : may'[g] \in {may[g], {vis[g]}}
  BY <1>1, SyncUpSettles DEF Telling
<1> QED BY <1>1, <1>2, TargetsImplement

\* The steps that change no file.
LEMMA NoFileImplements ==
  ASSUME StoreInv,
         \/ \E R \in SUBSET Receipts : StartCommit(R)
         \/ Check \/ StartRecovery \/ Scan \/ Throw \/ Crash \/ UNCHANGED vars
  PROVE  Abstract!Next
<1>1. UNCHANGED <<vis, may, payload, payloadMay, marker, markerMay, known, last, scope>>
  BY DEF StartCommit, Check, StartRecovery, Scan, Throw, Crash, Restart, targets, journal, cache, bounds, vars
<1>2. Telling /\ \A g \in Targets : may'[g] \in {may[g], {vis[g]}}
  BY <1>1 DEF Telling
<1> QED BY <1>1, <1>2, TargetsImplement

\* The syncs that follow a deletion.
LEMMA RemoveSyncImplements ==
  ASSUME StoreInv, RemovePayloadSync \/ RemoveMarkerSync \/ FinalSync
  PROVE  Abstract!Next
<1>1. /\ UNCHANGED <<vis, may, payload, marker, last, scope>>
      /\ payloadMay' = {payload} /\ markerMay' = {marker} /\ payload = Absent
  BY DEF RemovePayloadSync, RemoveMarkerSync, FinalSync, LastSync, SyncTransactions, targets, cache, bounds,
         StoreInv, JobInv, RemoveInv
<1>2. Settling
  BY <1>1 DEF Settling
<1>3. Telling
  <2>1. CASE UNCHANGED known
    BY <2>1 DEF Telling
  <2>2. CASE RemoveMarkerSync /\ job.op = "commit"
    <3>1. job.pc = "rmMarkerSync" /\ known' = [f \in Targets |-> IF f \in job.batch THEN vis[f] ELSE known[f]]
      BY <2>2 DEF RemoveMarkerSync, Tell
    <3>2. Applied(job.txn) /\ Scope(job.txn) = job.batch
      BY <2>2, <3>1, WhoRemoves DEF Removing
    <3> QED BY <1>1, <3>1, <3>2 DEF Telling, Applied, StoreInv, FilesInv
  <2> QED BY <2>1, <2>2 DEF RemovePayloadSync, RemoveMarkerSync, FinalSync, cache
<1>4. ~Decided /\ ~Decided'
  BY <1>1 DEF Decided
<1> QED BY <1>2, <1>3, <1>4, SettledImplements

\* Both syncs of the journal before it is applied.
LEMMA JournalSyncImplements ==
  ASSUME StoreInv, JournalSync \/ Persist
  PROVE  Abstract!Next
<1>1. UNCHANGED <<vis, payload, marker, known, last, scope>> /\ SyncJournal
  BY DEF JournalSync, Persist, PersistSync, cache, bounds
<1>2. /\ \A g \in Targets : may'[g] \in {may[g], {vis[g]}}
      /\ payloadMay' = {payload} /\ markerMay' = {marker}
  BY <1>1, SyncJournalSettles
<1>3. Settling /\ Telling
  BY <1>1, <1>2 DEF Settling, Telling
<1>4. payload # Absent /\ marker \in {Absent, payload}
  <2>1. CASE Persist
    BY <2>1, WhoApplies, AbsentAssumption DEF Persist, Applying, StoreInv, JobInv, ApplyInv
  <2>2. CASE JournalSync
    BY <2>2, AbsentAssumption DEF JournalSync, StoreInv, JobInv, CommitInv, Sound, FilesInv
  <2> QED BY <2>1, <2>2
<1>5. CASE marker = payload
  BY <1>1, <1>2, <1>3, <1>4, <1>5, DecidingImplements
<1>6. CASE marker # payload
  BY <1>1, <1>3, <1>6, SettledImplements DEF Decided
<1> QED BY <1>5, <1>6

\* A new version.
LEMMA BeginImplements ==
  ASSUME StoreInv, PrepareJournal \/ \E f \in Targets : StartWrite(f)
  PROVE  Abstract!Next
<1>1. UNCHANGED <<vis, may, payload, payloadMay, marker, markerMay, known>>
  BY DEF PrepareJournal, StartWrite, targets, journal
<1>2. PICK S \in SUBSET Targets : NewVersion(S)
  BY DEF PrepareJournal, StartWrite, StoreInv, TypeOK, Job
<1>3. last + 1 \in Versions /\ last + 1 > last /\ scope' = [scope EXCEPT ![last + 1] = S]
  BY <1>2, FileTypes DEF NewVersion
<1>4. scope[last + 1] = {}
  BY <1>3 DEF StoreInv, VersionsInv
<1>5. Content' = Content /\ Undo' = Undo
  BY <1>1 DEF Content, Undo, InTransaction, Decided
<1> QED BY <1>1, <1>3, <1>4, <1>5, AbstractBegin

LEMMA WriteRenameImplements ==
  ASSUME StoreInv, WriteRename
  PROVE  Abstract!Next
<1> DEFINE f == job.target
<1>1. /\ UNCHANGED <<payload, payloadMay, marker, markerMay, known, last, scope>>
      /\ job.op = "write" /\ f \in Targets /\ ~recoveryRequired
      /\ vis' = [vis EXCEPT ![f] = last] /\ may' = [may EXCEPT ![f] = @ \cup {last}]
      /\ scope[last] = {f} /\ last \notin may[f]
  BY DEF WriteRename, At, Rename, journal, bounds, StoreInv, TypeOK, Job, JobInv, WriteInv
<1>2. ~Decided /\ ~Decided'
  BY <1>1 DEF StoreInv, NoStaleJournal, FilesInv, Decided
<1>3. \A g \in Targets :
        /\ Content[g] = vis[g] /\ Undo[g] = may[g] \ {vis[g]}
        /\ Content'[g] = vis'[g] /\ Undo'[g] = may'[g] \ {vis'[g]}
  BY <1>2, AbstractValues, AbstractValuesNext DEF InTransaction
<1>4. vis[f] \in may[f] /\ vis[f] \in Nat /\ vis[f] <= last /\ last \in Nat
  BY <1>1, FileTypes DEF StoreInv, FilesInv, VersionsInv
<1>5. vis'[f] = last /\ may'[f] = may[f] \cup {last}
  BY <1>1, FileTypes
<1>6. Content'[f] > Content[f] /\ scope[Content'[f]] = {f}
  BY <1>1, <1>3, <1>4, <1>5
<1>7. Undo'[f] = Undo[f] \cup {Content[f]}
  <2>1. (may[f] \cup {last}) \ {last} = (may[f] \ {vis[f]}) \cup {vis[f]}
    BY <1>1, <1>4
  <2> QED BY <1>1, <1>3, <1>5, <2>1
<1>8. \A g \in Targets \ {f} : Content'[g] = Content[g] /\ Undo'[g] = Undo[g]
  BY <1>1, <1>3, FileTypes
<1> HIDE DEF f
<1> QED BY <1>1, <1>6, <1>7, <1>8, AbstractWrite

\* The targets are renamed after the transaction has happened.
LEMMA ApplyImplements ==
  ASSUME StoreInv, Apply
  PROVE  Abstract!Next
<1> DEFINE T == job.txn
<1>1. /\ job.pc = "apply" /\ UNCHANGED <<payload, payloadMay, marker, markerMay, known, last, scope>>
  BY DEF Apply, journal, bounds
<1>2. ForGood(T) /\ T \in Journal /\ Scope(T) \subseteq Targets /\ job.left \subseteq Scope(T)
  BY <1>1, ApplyFacts
<1>3. PICK f \in Scope(T) : UNCHANGED <<vis, may>> \/ Rename(f, T.after[f])
  BY <1>2 DEF Apply, NextTargets, targets
<1>4. Decided /\ Decided' /\ payload = T /\ payload' = T
  BY <1>1, <1>2, AbsentAssumption DEF Decided, ForGood, StoreInv, FilesInv
<1>5. \A g \in Targets : g # f => vis'[g] = vis[g] /\ may'[g] = may[g]
  BY <1>3, FileTypes DEF Rename
<1>6. \A g \in Targets : Content'[g] = Content[g] /\ Undo'[g] = Undo[g]
  BY <1>3, <1>4, <1>5, AbstractValues, AbstractValuesNext DEF InTransaction, Scope
<1>7. Content' = Content
  BY <1>6, AbstractValuesNext DEF Content
<1> QED BY <1>1, <1>6, <1>7, AbstractConfirm

\* A journal that is removed has been applied, or has decided nothing.
LEMMA RemovePayloadImplements ==
  ASSUME StoreInv, RemovePayload
  PROVE  Abstract!Next
<1>1. /\ UNCHANGED <<vis, may, marker, markerMay, known, last, scope>> /\ payload' = Absent
      /\ payload # Absent /\ (marker # Absent => Applied(payload))
  BY DEF RemovePayload, targets, cache, bounds, StoreInv, JobInv, RemoveInv
<1>2. ~Decided'
  BY <1>1 DEF Decided
<1>3. CASE ~Decided
  BY <1>1, <1>2, <1>3, UndecidedImplements
<1>4. CASE Decided
  <2>1. Applied(payload) /\ Scope(payload) \subseteq Targets
    BY <1>1, <1>4, DecidedFacts DEF Decided
  <2>2. ASSUME NEW f \in Targets
        PROVE  Content'[f] = Content[f] /\ Undo'[f] = Undo[f]
    <3>1. Content'[f] = vis[f] /\ Undo'[f] = may[f] \ {vis[f]}
      BY <1>1, <1>2, AbstractValuesNext DEF InTransaction
    <3>2. CASE f \in Scope(payload)
      <4>1. Content[f] = payload.after[f] /\ Undo[f] = {}
        BY <1>4, <3>2, AbstractValues DEF InTransaction
      <4>2. vis[f] \in may[f] /\ may[f] = {payload.after[f]}
        BY <2>1, <3>2 DEF Applied, StoreInv, FilesInv
      <4> QED BY <3>1, <4>1, <4>2
    <3>3. CASE f \notin Scope(payload)
      BY <3>1, <3>3, AbstractValues DEF InTransaction
    <3> QED BY <3>2, <3>3
  <2>3. Content' = Content
    BY <2>2, AbstractValuesNext DEF Content
  <2> QED BY <1>1, <2>2, <2>3, AbstractConfirm
<1> QED BY <1>3, <1>4

\* The writes of transactions/ before they are synced, and the last deletion.
LEMMA JournalFileImplements ==
  ASSUME StoreInv, PutPayload \/ PutMarker \/ RemoveMarker
  PROVE  Abstract!Next
<1>1. UNCHANGED <<vis, may, known, scope>>
  BY DEF PutPayload, PutMarker, RemoveMarker, targets, cache, bounds
<1>2. ~Decided /\ ~Decided'
  <2>1. CASE PutPayload
    <3>1. /\ payloadMay = {Absent} /\ markerMay = {Absent} /\ marker = Absent /\ payload = Absent
          /\ UNCHANGED <<marker, markerMay>>
      BY <2>1 DEF PutPayload, At, StoreInv, NoStaleJournal, JobInv, CommitInv, FilesInv
    <3> QED BY <3>1 DEF Decided
  <2>2. CASE PutMarker
    <3>1. /\ markerMay = {Absent} /\ marker = Absent /\ job.txn # Absent
          /\ marker' = job.txn /\ markerMay' = {Absent, job.txn}
      BY <2>2, AbsentAssumption DEF PutMarker, At, StoreInv, JobInv, CommitInv, FilesInv, Sound
    <3> QED BY <3>1 DEF Decided
  <2>3. CASE RemoveMarker
    BY <2>3 DEF RemoveMarker, StoreInv, JobInv, RemoveInv, Decided
  <2> QED BY <2>1, <2>2, <2>3
<1> QED BY <1>1, <1>2, UndecidedImplements

\* A power loss leaves the transaction that had happened, or decides the one
\* whose payload and marker were both written.
LEMMA PowerLossImplements ==
  ASSUME StoreInv, PowerLoss
  PROVE  Abstract!Next
<1>1. /\ \A f \in Targets : vis'[f] \in may[f] /\ may'[f] = {vis'[f]}
      /\ payload' \in payloadMay /\ marker' \in markerMay
      /\ payloadMay' = {payload'} /\ markerMay' = {marker'} /\ UNCHANGED <<known, scope>>
  BY PowerLossFacts DEF PowerLoss, Restart
<1>2. Undo' = [f \in Targets |-> {}]
  <2>1. \A f \in Targets : Undo'[f] = {}
    BY <1>1, AbstractValuesNext
  <2> QED BY <2>1, AbstractValuesNext
<1>3. \A f \in Targets : vis[f] \in may[f]
  BY DEF StoreInv, FilesInv
<1>4. CASE \A f \in Targets : Content'[f] \in {Content[f]} \cup Undo[f]
  <2>1. AbstractMoves({})
    BY DEF AbstractMoves
  <2> QED BY <1>1, <1>2, <1>4, <2>1, AbstractPowerLoss
<1>5. CASE Decided
  <2>1. Decided' /\ payload' = payload
    BY <1>1, <1>5 DEF Decided
  <2>2. \A f \in Targets : Content'[f] \in {Content[f]} \cup Undo[f]
    BY <1>1, <1>3, <1>5, <2>1, AbstractValues, AbstractValuesNext DEF InTransaction, Scope
  <2> QED BY <1>4, <2>2
<1>6. ASSUME ~Decided
      PROVE  \A f \in Targets : Content[f] = vis[f] /\ Undo[f] = may[f] \ {vis[f]}
  BY <1>6, AbstractValues DEF InTransaction
<1>7. CASE ~Decided /\ ~Decided'
  <2>1. \A f \in Targets : Content'[f] = vis'[f]
    BY <1>7, AbstractValuesNext DEF InTransaction
  <2> QED BY <1>1, <1>3, <1>4, <1>6, <1>7, <2>1
<1>8. CASE ~Decided /\ Decided'
  <2>1. payload' # Absent /\ marker' = payload'
    BY <1>8 DEF Decided
  <2>2. PICK T \in Journal : Pending(T)
    BY <1>1, <2>1 DEF StoreInv, FilesInv, Quiet
  <2>3. payload' = T /\ marker' = T /\ Sound(T) /\ Scope(T) \subseteq Targets
    BY <1>1, <2>1, <2>2, JournalShape DEF Pending
  <2>4. Applied(T) \/ Untouched(T)
    <3>1. ForGood(T) => Decided
      BY <2>2, AbsentAssumption DEF ForGood, Decided, StoreInv, FilesInv
    <3> QED BY <1>8, <2>2, <3>1 DEF Pending
  <2>5. \A f \in Targets : Content'[f] = IF f \in Scope(T) THEN T.after[f] ELSE vis'[f]
    BY <1>8, <2>3, AbstractValuesNext DEF InTransaction, Scope
  <2>6. \A f \in Targets \ Scope(T) : Content'[f] \in {Content[f]} \cup Undo[f]
    BY <1>1, <1>3, <1>6, <1>8, <2>5
  <2>7. CASE Applied(T)
    <3>1. ASSUME NEW f \in Scope(T)
          PROVE  Content'[f] = Content[f]
      <4>1. vis[f] \in may[f] /\ may[f] = {T.after[f]} /\ f \in Targets
        BY <1>3, <2>3, <2>7 DEF Applied
      <4> QED BY <1>6, <1>8, <2>5, <4>1
    <3> QED BY <1>4, <2>6, <3>1
  <2>8. CASE Untouched(T)
    <3>1. /\ Changed(T) \in SUBSET Targets /\ Changed(T) \subseteq Scope(T) /\ AbstractMoves(Changed(T))
          /\ \A f \in Scope(T) \ Changed(T) : Content'[f] = Content[f]
      BY <1>8, <2>3, <2>8, ChangedMoves
    <3>2. \A f \in Targets \ Changed(T) : Content'[f] \in {Content[f]} \cup Undo[f]
      BY <2>6, <3>1
    <3> QED BY <1>1, <1>2, <3>1, <3>2, AbstractPowerLoss
  <2> QED BY <2>4, <2>7, <2>8
<1> QED BY <1>5, <1>7, <1>8

LEMMA StepImplements ==
  ASSUME StoreInv, [Next]_vars
  PROVE  Abstract!Next
<1>1. ASSUME NEW f \in Targets, Read(f) \/ StartWrite(f)
      PROVE  Abstract!Next
  BY <1>1, ReadImplements, BeginImplements
<1>2. CASE WriteRename \/ WriteSync
  BY <1>2, WriteRenameImplements, WriteSyncImplements
<1>3. ASSUME NEW R \in SUBSET Receipts, StartCommit(R)
      PROVE  Abstract!Next
  BY <1>3, NoFileImplements
<1>4. CASE CommitRead \/ PrepareJournal \/ PutPayload \/ PutMarker \/ JournalSync
  BY <1>4, CommitReadImplements, BeginImplements, JournalFileImplements, JournalSyncImplements
<1>5. CASE Persist \/ Check \/ Apply \/ ApplySync \/ ApplyConfirm
  BY <1>5, JournalSyncImplements, NoFileImplements, ApplyImplements, ApplySyncImplements
<1>6. CASE RemovePayload \/ RemovePayloadSync \/ RemoveMarker \/ RemoveMarkerSync
  BY <1>6, RemovePayloadImplements, RemoveSyncImplements, JournalFileImplements
<1>7. CASE StartRecovery \/ Scan \/ FinalSync \/ Throw \/ Crash \/ PowerLoss
  BY <1>7, NoFileImplements, RemoveSyncImplements, PowerLossImplements
<1>8. CASE UNCHANGED vars
  BY <1>8, NoFileImplements
<1> QED BY <1>1, <1>2, <1>3, <1>4, <1>5, <1>6, <1>7, <1>8 DEF Next

LEMMA InitImplements ==
  ASSUME Init
  PROVE  Abstract!Init
<1>1. ~Decided /\ vis = [f \in Targets |-> 0] /\ may = [f \in Targets |-> {0}]
      /\ known = [f \in Targets |-> 0] /\ scope = [v \in Versions |-> {}]
  BY DEF Init, Decided
<1>2. {0} \ {0} = {}
  OBVIOUS
<1> QED BY <1>1, <1>2 DEF Abstract!Init, InTransaction

\* commitWorkspace is all or nothing and what it confirms is final, through
\* failed calls, crashes and power losses at any point (the journal's promise in
\* storage-journal.ts).
THEOREM StoreImplementsThm == Spec => ImplementsAtomicCommit
<1>1. Init => Abstract!Init
  BY InitImplements
<1>2. StoreInv /\ [Next]_vars => [Abstract!Next]_(Abstract!vars)
  BY StepImplements
<1> QED BY <1>1, <1>2, StoreInvariant, PTL DEF Spec, ImplementsAtomicCommit, Abstract!Spec
=============================================================================
