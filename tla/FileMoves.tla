------------------------------ MODULE FileMoves ------------------------------
(***************************************************************************)
(* movePath() of src/src/file-service.ts: a file or a directory is renamed *)
(* over a destination that was set aside before, or copied when the two    *)
(* are on different devices; each call to the file system may fail, and    *)
(* calls of several clients interleave.  A tree is the set of the pieces   *)
(* that it consists of, so that a copy or a removal may stop halfway; an   *)
(* empty one is not told from none.                                        *)
(***************************************************************************)
EXTENDS Naturals

CONSTANTS
  Movers,        \* calls of movePath()
  Sources, Destinations,
  Pieces,        \* of a tree
  MaxMoveFaults  \* bound: calls to the file system that fail

\* The backup of a call is named by a new UUID.
ASSUME MovesAssumption ==
  /\ Sources # {} /\ Destinations # {} /\ Sources \cap Destinations = {} /\ MaxMoveFaults \in Nat
  /\ \A c \in Movers : <<"backup", c>> \notin Sources \cup Destinations

VARIABLES
  tree,     \* of each path and of each backup: pieces and the path they were first at
  remote,   \* the sources on another device than the destinations
  move,     \* each call: its step and what it decided
  kept,     \* history: what was at the destination when the call looked, or set it aside
  moveFaults

moveVars == <<tree, remote, move, kept, moveFaults>>

Paths == Sources \cup Destinations

MutantOneBackup(c) == <<"backup", CHOOSE d \in Movers : TRUE>>

AsideOf(c) == <<"backup", c>>
Places    == Paths \cup {AsideOf(c) : c \in Movers}
None      == {}

NoMove == [pc |-> "idle", from |-> CHOOSE s \in Sources : TRUE, to |-> CHOOSE d \in Destinations : TRUE,
           overwrite |-> FALSE, aside |-> FALSE, partial |-> FALSE, broken |-> FALSE]

MovesInit ==
  /\ \E present \in SUBSET Paths :
       tree = [p \in Places |-> IF p \in present THEN {p} \X Pieces ELSE None]
  /\ remote \in SUBSET Sources
  /\ move = [c \in Movers |-> NoMove] /\ kept = [c \in Movers |-> None] /\ moveFaults = 0

On(c, pc) == move[c].pc = pc
Src(c)    == tree[move[c].from]
Dst(c)    == tree[move[c].to]
Goes(c, pc) == move' = [move EXCEPT ![c].pc = pc]
Puts(p, t)  == tree' = [tree EXCEPT ![p] = t]
Moves(p, q) == tree' = [tree EXCEPT ![p] = None, ![q] = tree[p]]

Sound == UNCHANGED moveFaults
Fault == moveFaults < MaxMoveFaults /\ moveFaults' = moveFaults + 1
-----------------------------------------------------------------------------
\* lstat(source): the call is refused if there is none.
StartMove(c, s, d, overwrite) ==
  /\ On(c, "idle") /\ tree[s] # None
  /\ move' = [move EXCEPT ![c] = [NoMove EXCEPT !.pc = "look", !.from = s, !.to = d, !.overwrite = overwrite]]
  /\ kept' = [kept EXCEPT ![c] = None]
  /\ UNCHANGED <<tree, remote>> /\ Sound

\* lstat(destination); a failure other than ENOENT ends the call.
Look(c) ==
  /\ On(c, "look")
  /\ \/ Goes(c, IF Dst(c) = None THEN "rename" ELSE IF move[c].overwrite THEN "aside" ELSE "failed") /\ Sound
     \/ Goes(c, "failed") /\ Fault
  /\ kept' = [kept EXCEPT ![c] = Dst(c)]
  /\ UNCHANGED <<tree, remote>>

\* The destination is set aside.  The backup is named before, and stays named if the
\* destination is gone by now; another failure ends the call.
SetAside(c) ==
  /\ On(c, "aside")
  /\ \/ /\ Dst(c) # None /\ Moves(move[c].to, AsideOf(c)) /\ Sound
        /\ move' = [move EXCEPT ![c].pc = "rename", ![c].aside = TRUE]
     \/ /\ Dst(c) = None /\ UNCHANGED tree /\ Sound
        /\ move' = [move EXCEPT ![c].pc = "rename", ![c].aside = TRUE]
     \/ Goes(c, "failed") /\ UNCHANGED tree /\ Fault
  /\ kept' = [kept EXCEPT ![c] = Dst(c)] /\ UNCHANGED remote

\* rename(source, destination), or EXDEV.  A directory is not renamed over another one; a
\* file is.
Rename(c) ==
  /\ On(c, "rename")
  /\ \/ /\ Src(c) # None /\ move[c].from \notin remote /\ Moves(move[c].from, move[c].to) /\ Goes(c, "moved") /\ Sound
     \/ /\ Src(c) # None /\ move[c].from \in remote /\ UNCHANGED tree /\ Sound
        /\ move' = [move EXCEPT ![c].pc = "copy", ![c].partial = TRUE]
     \/ (Src(c) = None \/ Dst(c) # None) /\ Goes(c, "clear") /\ UNCHANGED tree /\ Sound
     \/ Goes(c, "clear") /\ UNCHANGED tree /\ Fault
  /\ UNCHANGED <<remote, kept>>

\* cp() without force: it fails if the source is gone or something is at the destination (the
\* pieces of a directory that it may add to another one are left out).
Copy(c) ==
  /\ On(c, "copy")
  /\ \/ Src(c) # None /\ Dst(c) = None /\ Puts(move[c].to, Src(c)) /\ Goes(c, "remove") /\ Sound
     \/ (Src(c) = None \/ Dst(c) # None) /\ UNCHANGED tree /\ Goes(c, "clear") /\ Sound
     \/ Dst(c) = None /\ (\E part \in SUBSET Src(c) : Puts(move[c].to, part)) /\ Goes(c, "clear") /\ Fault
  /\ UNCHANGED <<remote, kept>>

\* rm(source), which may stop halfway: then the copy is removed too.
RemoveSource(c) ==
  /\ On(c, "remove")
  /\ \/ Puts(move[c].from, None) /\ Goes(c, "moved") /\ Sound
     \/ (\E part \in SUBSET Src(c) : Puts(move[c].from, part)) /\ Goes(c, "uncopy") /\ Fault
  /\ UNCHANGED <<remote, kept>>

\* What rm() leaves of a destination: nothing, or a part and a failure.
Removal(c, pc, pcBroken) ==
  \/ Puts(move[c].to, None) /\ Goes(c, pc) /\ Sound
  \/ /\ Dst(c) # None /\ (\E part \in SUBSET Dst(c) : Puts(move[c].to, part)) /\ Fault
     /\ move' = [move EXCEPT ![c].pc = pc, ![c].broken = pcBroken]

\* The failure of this removal is not told.
UndoCopy(c) == On(c, "uncopy") /\ Removal(c, "clear", move[c].broken) /\ UNCHANGED <<remote, kept>>

MutantClearsNothing(c) == On(c, "clear") /\ Goes(c, "putback") /\ UNCHANGED <<tree, remote, kept>> /\ Sound

\* The rollback: the destination is cleared if it was set aside or partly written.
ClearDestination(c) ==
  /\ On(c, "clear")
  /\ \/ (move[c].aside \/ move[c].partial) /\ Removal(c, "putback", TRUE)
     \/ ~move[c].aside /\ ~move[c].partial /\ Goes(c, "putback") /\ UNCHANGED tree /\ Sound
  /\ UNCHANGED <<remote, kept>>

\* What was set aside goes back, if it is there and nothing stands in its way.
PutBack(c) ==
  /\ On(c, "putback")
  /\ \/ ~move[c].aside /\ UNCHANGED tree /\ Goes(c, "failed") /\ Sound
     \/ /\ move[c].aside /\ tree[AsideOf(c)] # None
        /\ Moves(AsideOf(c), move[c].to) /\ Goes(c, "failed") /\ Sound
     \/ /\ move[c].aside /\ (tree[AsideOf(c)] = None \/ Dst(c) # None) /\ UNCHANGED tree /\ Sound
        /\ move' = [move EXCEPT ![c].pc = "failed", ![c].broken = TRUE]
     \/ /\ move[c].aside /\ UNCHANGED tree /\ Fault
        /\ move' = [move EXCEPT ![c].pc = "failed", ![c].broken = TRUE]
  /\ UNCHANGED <<remote, kept>>

\* After success the backup is dropped; if that fails, the answer says where it is.
DropBackup(c) ==
  /\ On(c, "moved") /\ Goes(c, "done")
  /\ \/ move[c].aside /\ Puts(AsideOf(c), None) /\ Sound
     \/ move[c].aside /\ (\E part \in SUBSET tree[AsideOf(c)] : Puts(AsideOf(c), part)) /\ Fault
     \/ ~move[c].aside /\ UNCHANGED tree /\ Sound
  /\ UNCHANGED <<remote, kept>>

MovesNext ==
  \E c \in Movers :
    \/ \E s \in Sources, d \in Destinations, overwrite \in BOOLEAN : StartMove(c, s, d, overwrite)
    \/ Look(c) \/ SetAside(c) \/ Rename(c) \/ Copy(c) \/ RemoveSource(c) \/ UndoCopy(c)
    \/ ClearDestination(c) \/ PutBack(c) \/ DropBackup(c)

MovesSpec == MovesInit /\ [][MovesNext]_moveVars
-----------------------------------------------------------------------------
MovesTypeOK ==
  /\ tree \in [Places -> SUBSET (Paths \X Pieces)] /\ remote \subseteq Sources
  /\ moveFaults \in 0..MaxMoveFaults
  /\ \A c \in Movers :
       /\ move[c].from \in Sources /\ move[c].to \in Destinations
       /\ {move[c].overwrite, move[c].aside, move[c].partial, move[c].broken} \subseteq BOOLEAN
       /\ move[c].pc \in {"idle", "look", "aside", "rename", "copy", "remove", "uncopy",
                          "clear", "putback", "moved", "failed", "done"}

\* From the rename that sets the old destination aside until it is put back, or the move is
\* over, it is whole under the backup's name, whatever other calls do: a server that dies in
\* between has lost nothing of it.
BackupIsWhole ==
  /\ MovesTypeOK
  /\ \A c \in Movers :
       /\ move[c].pc \in {"rename", "copy", "remove", "uncopy", "clear", "putback", "moved"}
       /\ kept[c] # None
       => tree[AsideOf(c)] = kept[c]

\* No other call has had the destination of this one.
Alone(c) == \A d \in Movers \ {c} : On(d, "idle") \/ move[d].to # move[c].to

\* A move that ends in a failure, at whatever step and whatever other calls do: what it found
\* at its destination is back, or its error says that the rollback failed and the backup holds
\* it; if it found nothing, it leaves nothing, unless its error says so or another call has
\* the same destination.
FailedMoveKeepsDestination ==
  [][\A c \in Movers :
       ~On(c, "failed") /\ On(c, "failed")' =>
         IF kept'[c] # None
         THEN Dst(c)' = kept'[c] \/ (move'[c].broken /\ tree'[AsideOf(c)] = kept'[c])
         ELSE Alone(c) => Dst(c)' = None \/ move'[c].broken]_moveVars

\* test/file-service.test.ts:276 "preserves an existing move destination when the source is
\* missing": once all calls are over, something is at each destination that was there
\* before, or a backup of it is.
DestinationIsPreserved ==
  (\A c \in Movers : move[c].pc \in {"idle", "failed", "done"}) =>
    \A d \in Destinations :
      (\E c \in Movers : move[c].to = d /\ ~On(c, "idle") /\ kept[c] # None) =>
         tree[d] # None \/ \E c \in Movers : tree[AsideOf(c)] # None
=============================================================================
