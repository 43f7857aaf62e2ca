--------------------------- MODULE ArtifactService ---------------------------
(***************************************************************************)
(* publish_file (src/src/artifact-service.ts): snapshots of host files that*)
(* are listed under a token until they expire, and the route that sends    *)
(* them (src/src/http-server.ts).  Calls of several clients interleave at  *)
(* each await, and the source is edited meanwhile.                         *)
(*                                                                         *)
(* A file's content is the set of the versions it consists of: a copy that *)
(* overlaps an edit has two.                                               *)
(***************************************************************************)
EXTENDS Naturals, FiniteSets

CONSTANTS
  Publishers, Downloaders,  \* concurrent calls
  Versions, Oversized,      \* of the source; those over maxBytes
  Missing,                  \* no source, or not a regular file
  MaxActive, ArtifactTtl,
  MaxTokens, MaxHour, MaxArtifactFaults  \* bounds

ASSUME ArtifactAssumption ==
  /\ Oversized \subseteq Versions /\ Missing \notin Versions
  /\ IsFiniteSet(Publishers) /\ MaxActive \in Nat \ {0} /\ ArtifactTtl \in Nat \ {0}
  /\ MaxTokens \in Nat /\ MaxHour \in Nat /\ MaxArtifactFaults \in Nat

VARIABLES
  source,     \* the host file
  artifacts,  \* #artifacts: by token
  root,       \* #rootPromise
  snapshots,  \* files in the snapshot directory, by token
  unlinking,  \* snapshots that a prune() is removing
  publish, download,  \* the calls
  issued,     \* tokens so far
  shut, hour, artifactFaults

artifactVars == <<source, artifacts, root, snapshots, unlinking, publish, download, issued,
                  shut, hour, artifactFaults>>
listVars  == <<artifacts, unlinking>>
outsideVars == <<source, shut, hour>>

Minus(f, S) == [t \in DOMAIN f \ S |-> f[t]]
NoPublish  == [pc |-> "idle", awaits |-> {}, token |-> 0]
NoDownload == [pc |-> "idle", awaits |-> {}, token |-> 0, promised |-> {}, got |-> {}]

ArtifactsInit ==
  /\ source \in Versions \cup {Missing}
  /\ artifacts = <<>> /\ root = "none" /\ snapshots = <<>> /\ unlinking = {}
  /\ publish = [p \in Publishers |-> NoPublish] /\ download = [d \in Downloaders |-> NoDownload]
  /\ issued = 0 /\ shut = FALSE /\ hour = 0 /\ artifactFaults = 0

Works  == UNCHANGED artifactFaults
Breaks == artifactFaults < MaxArtifactFaults /\ artifactFaults' = artifactFaults + 1
-----------------------------------------------------------------------------
(* prune(): what has expired is off the list at once, its files go later.  *)
Overdue == {t \in DOMAIN artifacts : artifacts[t].expires <= hour}

PruneList == artifacts' = Minus(artifacts, Overdue) /\ unlinking' = unlinking \cup Overdue

Cleanup ==
  /\ ~shut /\ Overdue # {} /\ PruneList
  /\ UNCHANGED <<outsideVars, root, snapshots, publish, download, issued>> /\ Works

\* A failed unlink is ignored.
RemoveSnapshot(t) ==
  /\ t \in unlinking /\ unlinking' = unlinking \ {t}
  /\ \/ snapshots' = Minus(snapshots, {t}) /\ Works
     \/ UNCHANGED snapshots /\ Breaks
  /\ UNCHANGED <<outsideVars, artifacts, root, publish, download, issued>>

-----------------------------------------------------------------------------
(* publish()                                                               *)
Publishing(p, pc) == publish[p].pc = pc
PublishAt(p, pc) == publish' = [publish EXCEPT ![p].pc = pc, ![p].awaits = {}]
RefusePublication(p) == publish' = [publish EXCEPT ![p] = NoPublish]

Begin(p) ==
  /\ ~shut /\ Publishing(p, "idle") /\ PruneList
  /\ publish' = [publish EXCEPT ![p] = [NoPublish EXCEPT !.pc = "check", !.awaits = Overdue]]
  /\ UNCHANGED <<outsideVars, root, snapshots, download, issued>> /\ Works

\* The list is full, or the public URL will not do.
Check(p) ==
  /\ Publishing(p, "check") /\ publish[p].awaits \cap unlinking = {}
  /\ \/ Cardinality(DOMAIN artifacts) < MaxActive /\ PublishAt(p, "lstat")
     \/ RefusePublication(p)
  /\ UNCHANGED <<outsideVars, listVars, root, snapshots, download, issued>> /\ Works

\* lstat(source), the name, and the token; #root() makes the directory once, and remembers
\* also that it could not.
Lstat(p) ==
  /\ Publishing(p, "lstat")
  /\ \/ /\ source \in Versions \ Oversized /\ root # "failed" /\ issued < MaxTokens
        /\ issued' = issued + 1 /\ root' = "made" /\ Works
        /\ publish' = [publish EXCEPT ![p].pc = "copy", ![p].token = issued']
     \/ /\ source \in Versions \ Oversized /\ root = "none"
        /\ root' = "failed" /\ RefusePublication(p) /\ UNCHANGED issued /\ Breaks
     \/ RefusePublication(p) /\ UNCHANGED <<root, issued>> /\ Works
  /\ UNCHANGED <<outsideVars, listVars, snapshots, download>>

Holds(p, content) ==
  snapshots' = [t \in DOMAIN snapshots \cup {publish[p].token} |->
                  IF t = publish[p].token THEN content ELSE snapshots[t]]
Drops(p) == snapshots' = Minus(snapshots, {publish[p].token})
Content(p) == snapshots[publish[p].token]

\* copyFile(): it reads the source while others write it, and removes its copy if it fails.
OpenCopy(p) ==
  /\ Publishing(p, "copy")
  /\ \/ source # Missing /\ Holds(p, {source}) /\ PublishAt(p, "copying")
     \/ source = Missing /\ RefusePublication(p) /\ UNCHANGED snapshots
  /\ UNCHANGED <<outsideVars, listVars, root, download, issued>> /\ Works

EndCopy(p) ==
  /\ Publishing(p, "copying")
  /\ \/ PublishAt(p, "stat") /\ UNCHANGED snapshots /\ Works
     \/ source # Missing /\ Holds(p, Content(p) \cup {source}) /\ PublishAt(p, "stat") /\ Works
     \/ Drops(p) /\ RefusePublication(p) /\ Breaks
  /\ UNCHANGED <<outsideVars, listVars, root, download, issued>>

\* A snapshot that grew too large is removed, if it can be; after another failure it stays.
StatSnapshot(p) ==
  /\ Publishing(p, "stat")
  /\ \/ Content(p) \cap Oversized = {} /\ PublishAt(p, "hash") /\ UNCHANGED snapshots /\ Works
     \/ Content(p) \cap Oversized # {} /\ RefusePublication(p) /\ Drops(p) /\ Works
     \/ RefusePublication(p) /\ UNCHANGED snapshots /\ Breaks
  /\ UNCHANGED <<outsideVars, listVars, root, download, issued>>

MutantHashesSource(p) == {source}

\* sha256File(snapshotPath)
Digest(p) == Content(p)

List(p) ==
  /\ Publishing(p, "hash") /\ publish' = [publish EXCEPT ![p] = NoPublish]
  /\ \/ /\ artifacts' = [t \in DOMAIN artifacts \cup {publish[p].token} |->
                           IF t = publish[p].token
                           THEN [digest |-> Digest(p), expires |-> hour + ArtifactTtl] ELSE artifacts[t]]
        /\ Works
     \/ UNCHANGED artifacts /\ Breaks
  /\ UNCHANGED <<outsideVars, root, unlinking, snapshots, download, issued>>

-----------------------------------------------------------------------------
(* GET /artifacts/:token                                                   *)
Resolve(d, t) ==
  /\ ~shut /\ download[d].pc \in {"idle", "sent"} /\ PruneList
  /\ download' = [download EXCEPT ![d] = [NoDownload EXCEPT !.pc = "look", !.token = t, !.awaits = Overdue]]
  /\ UNCHANGED <<outsideVars, root, snapshots, publish, issued>> /\ Works

LookUpToken(d) ==
  /\ download[d].pc = "look" /\ download[d].awaits \cap unlinking = {}
  /\ LET t == download[d].token IN
       download' = IF t \in DOMAIN artifacts
                   THEN [download EXCEPT ![d].pc = "send", ![d].awaits = {}, ![d].promised = artifacts[t].digest]
                   ELSE [download EXCEPT ![d] = NoDownload]
  /\ UNCHANGED <<outsideVars, listVars, root, snapshots, publish, issued>> /\ Works

\* sendFile(): a prune() may have removed the file by now; once it is open it stays readable.
Send(d) ==
  /\ download[d].pc = "send"
  /\ LET t == download[d].token IN
       \/ /\ t \in DOMAIN snapshots /\ Works
          /\ download' = [download EXCEPT ![d].pc = "sent", ![d].got = snapshots[t]]
       \/ t \notin DOMAIN snapshots /\ download' = [download EXCEPT ![d] = NoDownload] /\ Works
       \/ download' = [download EXCEPT ![d] = NoDownload] /\ Breaks
  /\ UNCHANGED <<outsideVars, listVars, root, snapshots, publish, issued>>

-----------------------------------------------------------------------------
\* close(), after the HTTP server has closed: no call is left.
CloseArtifacts ==
  /\ ~shut /\ shut' = TRUE /\ unlinking = {}
  /\ \A p \in Publishers : Publishing(p, "idle")
  /\ \A d \in Downloaders : download[d].pc \in {"idle", "sent"}
  /\ artifacts' = <<>> /\ root' = "none" /\ snapshots' = <<>>
  /\ UNCHANGED <<source, hour, unlinking, publish, download, issued>> /\ Works

EditSource ==
  /\ source' \in (Versions \cup {Missing}) \ {source}
  /\ UNCHANGED <<listVars, root, snapshots, publish, download, issued, shut, hour>> /\ Works

Passes ==
  /\ hour < MaxHour /\ hour' = hour + 1
  /\ UNCHANGED <<source, shut, listVars, root, snapshots, publish, download, issued>> /\ Works

ArtifactsNext ==
  \/ Cleanup \/ CloseArtifacts \/ EditSource \/ Passes
  \/ \E t \in 1..issued : RemoveSnapshot(t)
  \/ \E p \in Publishers :
       Begin(p) \/ Check(p) \/ Lstat(p) \/ OpenCopy(p) \/ EndCopy(p) \/ StatSnapshot(p) \/ List(p)
  \/ \E d \in Downloaders : LookUpToken(d) \/ Send(d) \/ \E t \in 1..issued : Resolve(d, t)

ArtifactsSpec == ArtifactsInit /\ [][ArtifactsNext]_artifactVars
-----------------------------------------------------------------------------
ArtifactsTypeOK ==
  /\ source \in Versions \cup {Missing} /\ shut \in BOOLEAN
  /\ root \in {"none", "made", "failed"} /\ issued \in 0..MaxTokens
  /\ hour \in 0..MaxHour /\ artifactFaults \in 0..MaxArtifactFaults
  /\ {DOMAIN artifacts, DOMAIN snapshots, unlinking} \subseteq SUBSET (1..issued)

Orphans ==
  {t \in DOMAIN snapshots \ (DOMAIN artifacts \cup unlinking) :
     \A p \in Publishers : Publishing(p, "idle") \/ publish[p].token # t}

\* "publishes an immutable snapshot instead of serving the source path": what a token lists
\* is on disk, within maxBytes, with the hash that was answered, however the source is edited
\* during the copy; a download gets that content or fails.  The calls that passed the test
\* of the capacity before another one was listed exceed it, each by one at most.  A snapshot
\* that no token leads to was left by a failed call to the file system, and is gone after
\* close().
SnapshotsAreWhole ==
  /\ ArtifactsTypeOK
  /\ \A t \in DOMAIN artifacts :
       /\ t \in DOMAIN snapshots \ unlinking /\ snapshots[t] = artifacts[t].digest
       /\ snapshots[t] \cap Oversized = {}
  /\ Cardinality(DOMAIN artifacts) < MaxActive + Cardinality(Publishers)
  /\ \A d \in Downloaders : download[d].pc = "sent" => download[d].got = download[d].promised
  /\ Cardinality(Orphans) <= artifactFaults
  /\ shut => artifacts = <<>> /\ snapshots = <<>>
=============================================================================
