--------------------------- MODULE StorageMigration ---------------------------
(***************************************************************************)
(* The migration of a workspace's files from schema 1 to schema 2 and the  *)
(* offline restore (src/src/continuity/storage-migration.ts), on a disk    *)
(* that keeps a rename only once its directory is synced: a write may fail *)
(* before or after its rename, the process may die between two steps, and  *)
(* a loss of power may undo what was not synced. Servers of both schemas   *)
(* change the files in between.                                            *)
(*                                                                         *)
(* What a file says is a generation number; the migration changes its      *)
(* schema only. Hashes stand for the contents they are of.                 *)
(***************************************************************************)
EXTENDS Naturals, FiniteSets

CONSTANTS
  StateFile, Receipt,  \* state.json and a file of executions/
  MaxEdits,            \* bound: changes that servers make
  MaxLosses            \* bound: failed writes, deaths and losses of power

VARIABLES
  mode,    \* which program works on the directory
  step,    \* of the migration or the restore
  plan,    \* its migration record
  todo,    \* the files that its loop has still to visit
  seen,    \* the disk as programs see it
  durable, \* the disk as a loss of power leaves it
  latest,  \* history: the last generation that a server wrote, of each file
  losses

migrationVars == <<mode, step, plan, todo, seen, durable, latest, losses>>

Files   == {StateFile, Receipt}
Nil     == [kind |-> "absent"]
V(schema, n) == [kind |-> "data", schema |-> schema, n |-> n]

\* backupDirectory: schema-v1, or one that is named after the contents it is for.
FirstDir   == [of |-> "first", n |-> [f \in Files |-> 0]]
DirFor(c)  == [of |-> "hash", n |-> c]
Backup(d, f) == <<d, f>>

\* Entries of the workspace directory: schema-migration.json and .pending, schema-rollback.json.
Marker   == <<"marker">>
Pending  == <<"pending">>
Rollback == <<"rollback">>

Top     == {Marker, Pending, Rollback, StateFile}

\* A file of the one name is not the other's, nor an entry or a backup.
Dirs == {FirstDir} \cup {DirFor(c) : c \in [Files -> 0..MaxEdits]}

ASSUME MigrationAssumption ==
  /\ StateFile # Receipt /\ MaxEdits \in Nat \ {0} /\ MaxLosses \in Nat
  /\ Files \cap ({Marker, Pending, Rollback} \cup {Backup(d, f) : d \in Dirs, f \in Files}) = {}

\* A disk is a function on the objects that exist.
Held(disk, o) == IF o \in DOMAIN disk THEN disk[o] ELSE Nil

Becomes(disk, o, c) ==
  [x \in (DOMAIN disk \ {o}) \cup (IF c = Nil THEN {} ELSE {o}) |-> IF x = o THEN c ELSE disk[x]]

Transformed(c) == [c EXCEPT !.schema = 2]
Existing == Files \cap DOMAIN seen
Quiet == [files |-> {}, before |-> << >>, dir |-> FirstDir]

MigrationInit ==
  /\ mode = "down" /\ step = "none" /\ plan = Quiet /\ todo = {} /\ losses = 0
  /\ \E F \in {{StateFile}, Files} :
       latest = [f \in Files |-> IF f \in F THEN 1 ELSE 0]
  /\ seen = [f \in {g \in Files : latest[g] = 1} |-> V(1, 1)]
  /\ durable = seen

-----------------------------------------------------------------------------
(* The disk. *)

\* A sync of a file's directories ends with the workspace directory.
SyncAll(disk, S) ==
  durable' = [x \in (DOMAIN disk \cap S) \cup (DOMAIN durable \ S) |->
                IF x \in S THEN disk[x] ELSE durable[x]]
Sync(disk, o) == SyncAll(disk, Top \cup {o})

Put(o, c) == Becomes(seen, o, c)

\* #atomicWrite(), removeDurably(): c is what o becomes.
Writes(o, c) == seen' = Put(o, c) /\ Sync(Put(o, c), o) /\ UNCHANGED losses

Lost == losses < MaxLosses /\ losses' = losses + 1

Resets == mode' = "down" /\ step' = "none" /\ plan' = Quiet /\ todo' = {}

\* It fails before the rename, or after it; the program gives up.
WriteFailed(o, c) ==
  /\ Lost /\ seen' \in {seen, Put(o, c)} /\ UNCHANGED durable /\ Resets

Step(o, c, nextStep, nextTodo) ==
  \/ Writes(o, c) /\ step' = nextStep /\ todo' = nextTodo /\ UNCHANGED <<mode, plan>>
  \/ WriteFailed(o, c)

GivesUp == Resets /\ UNCHANGED <<seen, durable, losses>>
-----------------------------------------------------------------------------
(* migrateWorkspace() *)

HasMarker == Marker \in DOMAIN seen
AllOf(schema) == \A f \in Existing : seen[f].schema = schema

RollbackIntact ==
  Rollback \in DOMAIN seen =>
    \A f \in seen[Rollback].files :
      Held(seen, Backup(seen[Rollback].dir, f)) = seen[Rollback].before[f]

NewPlan ==
  [files |-> Existing, before |-> [f \in Existing |-> seen[f]],
   dir |-> IF Rollback \notin DOMAIN seen THEN FirstDir
           ELSE DirFor([f \in Files |-> IF f \in Existing THEN seen[f].n ELSE 0])]

\* Nothing to do, or a completed migration.
AlreadyMigrated ==
  /\ mode = "down" /\ mode' = "v2"
  /\ IF HasMarker THEN Pending \notin DOMAIN seen /\ AllOf(2) /\ Sync(seen, StateFile)
                  ELSE (\A f \in Existing : seen[f].schema # 1) /\ UNCHANGED durable
  /\ UNCHANGED <<step, plan, todo, seen, latest, losses>>

StartMigration ==
  /\ mode = "down" /\ mode' = "migrating"
  /\ IF HasMarker
       THEN /\ Pending \in DOMAIN seen
            /\ plan' = seen[Marker].plan /\ step' = "replace" /\ todo' = plan'.files
       ELSE /\ AllOf(1) /\ RollbackIntact
            /\ plan' = NewPlan /\ step' = "backup" /\ todo' = Existing
  /\ UNCHANGED <<seen, durable, latest, losses>>

MutantNoBackupSync(f) ==
  /\ step = "backup" /\ f \in todo
  /\ LET b == Backup(plan.dir, f) IN
       \/ Held(seen, b) = Nil /\ Step(b, plan.before[f], step, todo \ {f})
       \/ Held(seen, b) = plan.before[f] /\ todo' = todo \ {f} /\ UNCHANGED <<seen, durable, mode, plan, step, losses>>
       \/ Held(seen, b) \notin {Nil, plan.before[f]} /\ GivesUp
  /\ UNCHANGED latest

\* A backup that is there already is synced all the same: its rename may not be durable.
BackUp(f) ==
  /\ step = "backup" /\ f \in todo
  /\ LET b == Backup(plan.dir, f) IN
       \/ Held(seen, b) \in {Nil, plan.before[f]} /\ Step(b, plan.before[f], step, todo \ {f})
       \/ Held(seen, b) \notin {Nil, plan.before[f]} /\ GivesUp
  /\ UNCHANGED latest

WritePending ==
  /\ step = "backup" /\ todo = {}
  /\ Step(Pending, [kind |-> "migration"], "marker", {})
  /\ UNCHANGED latest

WriteMarker ==
  /\ step = "marker"
  /\ Step(Marker, [kind |-> "marker", plan |-> plan], "replace", plan.files)
  /\ UNCHANGED latest

\* The backup is checked and synced, and with it the marker that a failed write may have left;
\* then the file is replaced unless it has been.
Replace(f) ==
  /\ step = "replace" /\ f \in todo
  /\ LET b == Backup(plan.dir, f)
         after == Transformed(plan.before[f])
     IN \/ /\ Held(seen, b) = plan.before[f] /\ Held(seen, f) \in {plan.before[f], after}
           /\ \/ /\ seen' = Put(f, after) /\ UNCHANGED losses
                 /\ SyncAll(Put(f, after), Top \cup {b, f})
                 /\ todo' = todo \ {f} /\ UNCHANGED <<mode, step, plan>>
              \/ Lost /\ Resets /\ UNCHANGED <<seen, durable>>
              \/ Lost /\ Resets /\ seen' \in {seen, Put(f, after)} /\ Sync(seen, b)
        \/ /\ Held(seen, b) # plan.before[f] \/ Held(seen, f) \notin {plan.before[f], after}
           /\ GivesUp
  /\ UNCHANGED latest

EndMigration ==
  /\ step = "replace" /\ todo = {}
  /\ \/ /\ Writes(Pending, Nil)
        /\ mode' = "v2" /\ step' = "none" /\ plan' = Quiet /\ UNCHANGED todo
     \/ WriteFailed(Pending, Nil)
  /\ UNCHANGED latest
-----------------------------------------------------------------------------
(* restoreV1Workspace(), in an initialized store that takes no other call. *)

MutantTrustsMarker(p) == Existing = p.files

Unchanged(p) ==
  /\ Existing = p.files
  /\ \A f \in p.files : seen[f] = Transformed(p.before[f]) /\ Held(seen, Backup(p.dir, f)) = p.before[f]

StartRestore ==
  /\ mode = "v2" /\ HasMarker /\ Unchanged(seen[Marker].plan)
  /\ mode' = "restoring" /\ plan' = seen[Marker].plan /\ step' = "undo" /\ UNCHANGED todo
  /\ UNCHANGED <<seen, durable, latest, losses>>

RestorePending ==
  /\ step = "undo" /\ Step(Pending, [kind |-> "rollback"], "originals", plan.files) /\ UNCHANGED latest

RestoreFile(f) ==
  /\ step = "originals" /\ f \in todo
  /\ Step(f, plan.before[f], step, todo \ {f}) /\ UNCHANGED latest

RecordRollback ==
  /\ step = "originals" /\ todo = {}
  /\ Step(Rollback, [kind |-> "rollback", files |-> plan.files, before |-> plan.before, dir |-> plan.dir],
          "forget", {})
  /\ UNCHANGED latest

RemoveMarker  == step = "forget" /\ Step(Marker, Nil, "settle", {}) /\ UNCHANGED latest

EndRestore ==
  /\ step = "settle"
  /\ \/ Writes(Pending, Nil) /\ mode' = "down" /\ step' = "none" /\ plan' = Quiet /\ UNCHANGED todo
     \/ WriteFailed(Pending, Nil)
  /\ UNCHANGED latest
-----------------------------------------------------------------------------
(* The servers. A version 1 server is started only on a directory without a marker; a
   server's own write is durable when it is acknowledged. *)

StartV1 ==
  /\ mode = "down" /\ ~HasMarker /\ AllOf(1) /\ mode' = "v1"
  /\ UNCHANGED <<step, plan, todo, seen, durable, latest, losses>>

Edit(f) ==
  /\ mode \in {"v1", "v2"} /\ latest[StateFile] + latest[Receipt] < MaxEdits
  /\ LET c == V(IF mode = "v1" THEN 1 ELSE 2, latest[f] + 1)
     IN seen' = Put(f, c) /\ Sync(Put(f, c), f)
  /\ latest' = [latest EXCEPT ![f] = @ + 1]
  /\ UNCHANGED <<mode, step, plan, todo, losses>>

StopServer ==
  /\ mode \in {"v1", "v2"} /\ mode' = "down"
  /\ UNCHANGED <<step, plan, todo, seen, durable, latest, losses>>

\* A loss of power keeps of each entry that was not synced the old state or the new one.
PowerLoss ==
  /\ Lost /\ Resets
  /\ LET objects == DOMAIN seen \cup DOMAIN durable
         left(o, kept) == Held(IF o \in kept THEN seen ELSE durable, o)
     IN \E kept \in SUBSET {o \in objects : Held(seen, o) # Held(durable, o)} :
          seen' = [o \in {x \in objects : left(x, kept) # Nil} |-> left(o, kept)]
  /\ durable' = seen'
  /\ UNCHANGED latest

\* The process dies; what it wrote is seen by the next one.
Dies ==
  /\ Lost /\ mode \in {"migrating", "restoring"} /\ Resets
  /\ UNCHANGED <<seen, durable, latest>>

MigrationNext ==
  \/ AlreadyMigrated \/ StartMigration \/ WritePending \/ WriteMarker \/ EndMigration
  \/ StartRestore \/ RestorePending \/ RecordRollback \/ RemoveMarker \/ EndRestore
  \/ \E f \in Files : BackUp(f) \/ Replace(f) \/ RestoreFile(f) \/ Edit(f)
  \/ StartV1 \/ StopServer \/ PowerLoss \/ Dies

MigrationSpec == MigrationInit /\ [][MigrationNext]_migrationVars
-----------------------------------------------------------------------------
(* Properties. *)

MigrationTypeOK ==
  /\ mode \in {"down", "migrating", "restoring", "v1", "v2"}
  /\ step \in {"none", "backup", "marker", "replace", "undo", "originals", "forget", "settle"}
  /\ todo \subseteq Files
  /\ \A f \in Files : f \notin DOMAIN seen \/ seen[f] \in [kind : {"data"}, schema : {1, 2}, n : 1..MaxEdits]
  /\ (step = "none") = (mode \in {"down", "v1", "v2"})

\* Neither the migration nor the restore, interrupted anywhere, loses what a server wrote
\* last: after a loss of power each file still says it, and as long as its version 1 bytes
\* are not what is in place, a backup of them is on the disk for every file that a
\* migration has replaced.
OriginalsSurvive ==
  \A f \in Files :
    latest[f] > 0 =>
      /\ f \in DOMAIN durable /\ durable[f].n = latest[f]
      /\ Marker \in DOMAIN durable /\ f \in durable[Marker].plan.files =>
           LET p == durable[Marker].plan IN Held(durable, Backup(p.dir, f)) = p.before[f]

\* A server never works on a mix of schemas, and an interrupted migration or restore can
\* always be resumed: whatever a loss of power leaves, the files are of one schema, or
\* the marker and the pending file that carry the migration forward are both there.
Resumable ==
  LET mixed(disk) == \E f, g \in Files : f \in DOMAIN disk /\ g \in DOMAIN disk /\ disk[f].schema # disk[g].schema
  IN /\ mode \in {"v1", "v2"} => AllOf(IF mode = "v1" THEN 1 ELSE 2)
     /\ \A disk \in {seen, durable} : mixed(disk) => Marker \in DOMAIN disk /\ Pending \in DOMAIN disk

\* A migration or a restore that is interrupted anywhere loses nothing and can go on.
MigrationIsSafe == MigrationTypeOK /\ OriginalsSurvive /\ Resumable
=============================================================================
