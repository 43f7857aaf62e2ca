------------------------- MODULE FileServices_proofs -------------------------
(***************************************************************************)
(* The services that hand out or replace files. FilePages: PagesAreExact   *)
(* for every text, every chunk limit of at least four bytes and any number *)
(* of uploads and reads. ArtifactService: SnapshotsAreWhole for every      *)
(* number of publishers, downloads, versions of the source and faults.     *)
(* FileMoves: BackupIsWhole and FailedMoveKeepsDestination for every       *)
(* number of calls, whatever their sources and destinations. Storage-      *)
(* Migration: MigrationIsSafe for every number of edits and interruptions. *)
(***************************************************************************)
EXTENDS Sequences, FilePages, FileMoves, ArtifactService, StorageMigration, FiniteSetTheorems, TLAPS

-----------------------------------------------------------------------------
(* Reads in pages.                                                          *)


\* A read under way asked for something, and began within what stat() saw.
ReadInv == read.open => read.asked >= 1 /\ offset <= read.sized

PagesInv == PagesAreExact /\ ReadInv

Facts ==
  /\ MaxChunk \in Nat /\ MaxChunk >= 4
  /\ text \in Texts /\ text.size \in Nat /\ text.ends \subseteq 0..text.size
  /\ 0 \in text.ends
  /\ \A e \in text.ends : e < text.size => \E f \in text.ends : e < f /\ f <= e + 4

\* What the constants guarantee of the text.
LEMMA TextFacts == text \in Texts => Facts
BY PagesAssumption DEF Facts, WellFormed

\* The numbers of a read: how far it begins, asks and probes.
LEMMA Bounds ==
  ASSUME PagesInv, read.open
  PROVE  /\ From = offset /\ From \in Nat /\ read.sized \in Nat /\ read.sized <= size
         /\ size <= text.size /\ read.asked \in Nat
         /\ Requested \in Nat /\ Requested <= Probe /\ Probe \in Nat
         /\ Requested <= read.asked /\ Requested <= MaxChunk
         /\ Probe <= MaxChunk /\ Probe <= Requested + 3 /\ From + Probe <= read.sized
         /\ From < read.sized => Requested >= 1
         /\ encoding = "utf8" /\ From + Probe < read.sized => Probe >= 4
<1>1. /\ offset \in Nat /\ read.sized \in Nat /\ read.asked \in Nat /\ size \in Nat /\ text.size \in Nat
      /\ read.sized <= size /\ size <= text.size /\ MaxChunk \in Nat /\ MaxChunk >= 4
      /\ offset <= read.sized /\ read.asked >= 1
  BY TextFacts DEF PagesInv, PagesAreExact, PagesTypeOK, ReadInv, Facts
<1>2. From = offset
  BY <1>1 DEF From, Least
<1>3. Remaining = read.sized - offset /\ Remaining \in Nat
  BY <1>1, <1>2 DEF Remaining
<1>4. /\ Requested \in Nat /\ Requested <= read.asked /\ Requested <= MaxChunk /\ Requested <= Remaining
      /\ Remaining >= 1 => Requested >= 1
  BY <1>1, <1>3 DEF Requested, Least
<1>5. /\ Probe \in Nat /\ Requested <= Probe /\ Probe <= MaxChunk /\ Probe <= Requested + 3 /\ Probe <= Remaining
      /\ encoding = "utf8" /\ Probe < Remaining => Probe >= 4
  BY <1>1, <1>3, <1>4 DEF Probe, Least
<1>6. QED
  BY <1>1, <1>2, <1>3, <1>4, <1>5

\* The first state satisfies the invariant.
LEMMA PagesInitInv == PagesInit => PagesInv
<1>1. PagesInit => Facts
  BY TextFacts DEF PagesInit
<1>2. QED
  BY <1>1 DEF PagesInit, PagesInv, PagesAreExact, PagesTypeOK, ReadInv, Facts, NoRead, Page

\* An upload and the beginning of a read leave the page alone.
LEMMA UploadInv ==
  ASSUME PagesInv, NEW n \in 1..MaxChunk, Upload(n)
  PROVE  PagesInv'
<1>1. Facts
  BY TextFacts DEF PagesInv, PagesAreExact, PagesTypeOK
<1>2. size' \in 0..text.size /\ size \in Nat /\ size <= size'
  BY <1>1 DEF Upload, PagesInv, PagesAreExact, PagesTypeOK, Facts
<1>3. PagesTypeOK'
  BY <1>1, <1>2 DEF Upload, PagesInv, PagesAreExact, PagesTypeOK, Facts
<1>4. QED
  BY <1>3 DEF Upload, PagesInv, PagesAreExact, ReadInv

LEMMA StatInv ==
  ASSUME PagesInv, NEW asked \in 1..MaxChunk, Stat(asked)
  PROVE  PagesInv'
<1>1. Facts
  BY TextFacts DEF PagesInv, PagesAreExact, PagesTypeOK
<1>2. PagesTypeOK'
  BY <1>1 DEF Stat, PagesInv, PagesAreExact, PagesTypeOK, Facts
<1>3. QED
  BY <1>1, <1>2 DEF Stat, PagesInv, PagesAreExact, PagesTypeOK, ReadInv, Facts

\* What a reply must satisfy for the invariant to hold after it.
LEMMA ReplyInv ==
  ASSUME PagesInv, NEW kind \in {"chunk", "error"}, NEW to \in Nat, Reply(kind, to),
         From <= to, to <= read.sized,
         encoding = "utf8" => to \in text.ends,
         kind = "chunk" => /\ to <= From + MaxChunk /\ to <= From + read.asked + 3
                           /\ to < read.sized => From < to,
         kind = "error" => to = From /\ read.sized \notin text.ends
  PROVE  PagesInv'
<1>1. read.open
  BY DEF Reply
<1>2. /\ From \in Nat /\ read.sized \in Nat /\ read.sized <= size /\ size \in Nat
      /\ read.asked \in 0..MaxChunk /\ MaxChunk \in Nat
  BY <1>1, Bounds, PagesAssumption DEF PagesInv, PagesAreExact, PagesTypeOK
<1>3. /\ text' = text /\ size' = size /\ encoding' = encoding /\ offset' = to
      /\ read' = NoRead
      /\ page' = Page(kind, From, to, read.asked, read.sized, kind = "chunk" /\ to >= read.sized)
  BY DEF Reply
<1>4. PagesTypeOK'
  BY <1>2, <1>3 DEF PagesInv, PagesAreExact, PagesTypeOK, NoRead, Page
<1>5. page'.kind = "chunk" =>
        /\ page'.to <= page'.from + MaxChunk /\ page'.to <= page'.from + page'.asked + 3
        /\ page'.eof = (page'.to = page'.sized)
        /\ ~page'.eof => page'.from < page'.to
  <2>1. SUFFICES ASSUME kind = "chunk"
                 PROVE  /\ to <= From + MaxChunk /\ to <= From + read.asked + 3
                        /\ (to >= read.sized) <=> (to = read.sized)
                        /\ ~(to >= read.sized) => From < to
    BY <1>3 DEF Page
  <2>2. QED
    BY <1>2, <2>1
<1>6. /\ page'.kind # "none" => offset' = page'.to
      /\ page'.kind = "error" => page'.to = page'.from /\ page'.sized \notin text'.ends
      /\ encoding' = "utf8" => offset' \in text'.ends
  BY <1>2, <1>3 DEF Page
<1>7. ReadInv'
  BY <1>3 DEF ReadInv, NoRead
<1>8. QED
  BY <1>4, <1>5, <1>6, <1>7 DEF PagesInv, PagesAreExact

LEMMA ReadBytesInv ==
  ASSUME PagesInv, ReadBytes
  PROVE  PagesInv'
<1>1. Reply("chunk", From + Requested) /\ read.open /\ ~Decodes
  BY DEF ReadBytes, Reply
<1>2. encoding = "utf8" => From + Requested \in text.ends
  BY <1>1, Bounds DEF Decodes, PagesInv, PagesAreExact
<1>3. From + Requested \in Nat /\ From <= From + Requested /\ From + Requested <= read.sized
  BY <1>1, Bounds
<1>4. /\ From + Requested <= From + MaxChunk /\ From + Requested <= From + read.asked + 3
      /\ From + Requested < read.sized => From < From + Requested
  BY <1>1, Bounds, PagesAssumption
<1>5. QED
  BY <1>1, <1>2, <1>3, <1>4, ReplyInv

\* A text that does not end here has a character that ends within the probe.
LEMMA Advances ==
  ASSUME PagesInv, read.open, Decodes, ~Truncated, From < read.sized
  PROVE  EndsIn(Probe) # {}
<1>1. Facts
  BY TextFacts DEF PagesInv, PagesAreExact, PagesTypeOK
<1>2. From \in text.ends /\ Probe > 0 /\ encoding = "utf8"
  BY Bounds DEF PagesInv, PagesAreExact, Decodes
<1>3. CASE From + Probe < read.sized
  <2>1. PICK f \in text.ends : From < f /\ f <= From + 4
    <3>1. From < text.size
      BY <1>1, Bounds DEF Facts, PagesInv, PagesAreExact, PagesTypeOK
    <3>2. QED
      BY <1>1, <1>2, <3>1 DEF Facts
  <2>2. f \in Nat
    BY <1>1 DEF Facts
  <2>3. f \in EndsIn(Probe)
    BY <1>2, <1>3, <2>1, <2>2, Bounds DEF EndsIn
  <2>4. QED
    BY <2>3
<1>4. CASE ~(From + Probe < read.sized)
  <2>1. SUFFICES ASSUME EndsIn(Probe) = {} PROVE FALSE
    OBVIOUS
  <2>2. From + Probe \in text.ends
    BY <1>4, <2>1, Bounds DEF Truncated
  <2>3. From + Probe \in EndsIn(Probe)
    BY <1>2, <2>2, Bounds DEF EndsIn
  <2>4. QED
    BY <2>1, <2>3
<1>5. QED
  BY <1>3, <1>4

LEMMA ReadTextInv ==
  ASSUME PagesInv, ReadText
  PROVE  PagesInv'
<1>1. PICK to \in From..(From + Probe) : ChunkEnds(to) /\ Reply("chunk", to)
  BY DEF ReadText
<1>2. read.open /\ Decodes /\ ~Truncated /\ From \in text.ends
  BY <1>1 DEF Reply, ReadText
<1>3. /\ to \in Nat /\ From <= to /\ to <= read.sized
      /\ to <= From + MaxChunk /\ to <= From + read.asked + 3
  BY <1>1, <1>2, Bounds, PagesAssumption
<1>4. to \in text.ends
  BY <1>1, <1>2 DEF ChunkEnds, EndsIn
<1>5. to < read.sized => From < to
  <2>1. SUFFICES ASSUME to < read.sized PROVE From < to
    OBVIOUS
  <2>2. EndsIn(Probe) # {}
    BY <1>2, <1>3, <2>1, Advances, Bounds
  <2>3. to \in EndsIn(Requested) \/ to \in EndsIn(Probe)
    BY <1>1, <2>2 DEF ChunkEnds
  <2>4. QED
    BY <2>3 DEF EndsIn
<1>6. QED
  BY <1>1, <1>3, <1>4, <1>5, ReplyInv

LEMMA ReadFailsInv ==
  ASSUME PagesInv, ReadFails
  PROVE  PagesInv'
<1>1. Reply("error", From) /\ read.open /\ Decodes
  BY DEF ReadFails, Reply
<1>2. From \in text.ends
  BY <1>1, Bounds DEF PagesInv, PagesAreExact, Decodes
<1>3. read.sized \notin text.ends
  BY <1>1, <1>2, Bounds DEF ReadFails, Truncated
<1>4. From \in Nat /\ From <= read.sized
  BY <1>1, Bounds
<1>5. QED
  BY <1>1, <1>2, <1>3, <1>4, ReplyInv

\* A client that follows nextOffset through a file that is still being uploaded gets whole
\* characters, no gap, never more than the limit, and progress up to the end of the file.
THEOREM PagesAreExactThm == PagesSpec => []PagesAreExact
<1>1. ASSUME PagesInv, [PagesNext]_pageVars
      PROVE  PagesInv'
  <2>1. CASE \E n \in 1..MaxChunk : Upload(n)
    BY <1>1, <2>1, UploadInv
  <2>2. CASE \E asked \in 1..MaxChunk : Stat(asked)
    BY <1>1, <2>2, StatInv
  <2>3. CASE ReadBytes
    BY <1>1, <2>3, ReadBytesInv
  <2>4. CASE ReadText
    BY <1>1, <2>4, ReadTextInv
  <2>5. CASE ReadFails
    BY <1>1, <2>5, ReadFailsInv
  <2>6. CASE UNCHANGED pageVars
    BY <1>1, <2>6 DEF pageVars, PagesInv, PagesAreExact, PagesTypeOK, ReadInv
  <2>7. QED
    BY <1>1, <2>1, <2>2, <2>3, <2>4, <2>5, <2>6 DEF PagesNext
<1>2. PagesInv => PagesAreExact
  BY DEF PagesInv
<1>3. QED
  BY PagesInitInv, <1>1, <1>2, PTL DEF PagesSpec

-----------------------------------------------------------------------------
(* Artifacts: the inductive invariant.                                      *)

PublishRecord ==
  [pc : {"idle", "check", "lstat", "copy", "copying", "stat", "hash"}, awaits : SUBSET Nat, token : Nat]
DownloadRecord ==
  [pc : {"idle", "look", "send", "sent"}, awaits : SUBSET Nat, token : Nat,
   promised : SUBSET Versions, got : SUBSET Versions]

HasToken(p) == publish[p].pc \in {"copy", "copying", "stat", "hash"}

ListShape ==
  /\ ArtifactsTypeOK
  /\ artifacts \in [DOMAIN artifacts -> [digest : SUBSET Versions, expires : Nat]]
  /\ snapshots \in [DOMAIN snapshots -> SUBSET Versions]
  /\ publish \in [Publishers -> PublishRecord] /\ download \in [Downloaders -> DownloadRecord]
  /\ unlinking \cap DOMAIN artifacts = {}

\* A call that has a token has it for itself, and its copy is there once it has begun.
TokensOwned ==
  /\ \A p \in Publishers : HasToken(p) =>
       /\ publish[p].token \in 1..issued /\ publish[p].token \notin DOMAIN artifacts \cup unlinking
       /\ publish[p].token \in DOMAIN snapshots <=> publish[p].pc # "copy"
       /\ publish[p].pc = "hash" => snapshots[publish[p].token] \cap Oversized = {}
  /\ \A p \in Publishers : ~HasToken(p) => publish[p].token = 0
  /\ \A p, q \in Publishers : p # q /\ HasToken(p) /\ HasToken(q) => publish[p].token # publish[q].token

ListedWhole ==
  \A t \in DOMAIN artifacts :
    t \in DOMAIN snapshots /\ snapshots[t] = artifacts[t].digest /\ snapshots[t] \cap Oversized = {}

\* What a download was promised is what the snapshot says for as long as it exists.
SendsPromised ==
  \A d \in Downloaders :
    /\ download[d].pc = "sent" => download[d].got = download[d].promised
    /\ download[d].pc = "send" =>
         /\ download[d].token \in 1..issued
         /\ \A p \in Publishers : HasToken(p) => publish[p].token # download[d].token
         /\ download[d].token \in DOMAIN snapshots => snapshots[download[d].token] = download[d].promised

\* The calls that have passed the test of the capacity.
Past == {p \in Publishers : publish[p].pc \notin {"idle", "check"}}

RoomLeft  == Cardinality(DOMAIN artifacts) + Cardinality(Past) <= MaxActive + Cardinality(Publishers) - 1
FewOrphans == Cardinality(Orphans) <= artifactFaults

ShutIsEmpty ==
  shut => /\ artifacts = <<>> /\ snapshots = <<>> /\ unlinking = {}
          /\ \A p \in Publishers : publish[p].pc = "idle"
          /\ \A d \in Downloaders : download[d].pc \in {"idle", "sent"}

ArtifactInv == ListShape /\ TokensOwned /\ ListedWhole /\ SendsPromised /\ RoomLeft /\ FewOrphans /\ ShutIsEmpty

LEMMA ListFacts ==
  ASSUME ListShape
  PROVE  /\ issued \in Nat /\ hour \in Nat /\ artifactFaults \in Nat
         /\ DOMAIN artifacts \subseteq 1..issued /\ DOMAIN snapshots \subseteq 1..issued
         /\ unlinking \subseteq 1..issued /\ 1..issued \subseteq Nat
<1>1. MaxTokens \in Nat /\ MaxHour \in Nat /\ MaxArtifactFaults \in Nat
  BY ArtifactAssumption
<1>2. ArtifactsTypeOK
  BY DEF ListShape
<1>3. DOMAIN artifacts \in SUBSET (1..issued) /\ DOMAIN snapshots \in SUBSET (1..issued)
      /\ unlinking \in SUBSET (1..issued)
  BY <1>2 DEF ArtifactsTypeOK
<1>4. issued \in 0..MaxTokens /\ hour \in 0..MaxHour /\ artifactFaults \in 0..MaxArtifactFaults
  BY <1>2 DEF ArtifactsTypeOK
<1>5. QED
  BY <1>1, <1>3, <1>4

\* Sets of tokens and of calls are finite.
LEMMA TokensAreFinite ==
  ASSUME ListShape
  PROVE  /\ \A S \in SUBSET (1..issued) : IsFiniteSet(S) /\ Cardinality(S) \in Nat
         /\ \A S \in SUBSET Publishers :
              IsFiniteSet(S) /\ Cardinality(S) \in Nat /\ Cardinality(S) <= Cardinality(Publishers)
<1>1. issued \in Nat /\ IsFiniteSet(Publishers)
  BY ListFacts, ArtifactAssumption
<1>2. IsFiniteSet(1..issued)
  BY <1>1, FS_Interval
<1>3. QED
  BY <1>1, <1>2, FS_Subset, FS_CardinalityType

LEMMA RoomKept ==
  ASSUME ListShape, RoomLeft, DOMAIN artifacts' \subseteq DOMAIN artifacts, Past' \subseteq Past
  PROVE  RoomLeft'
<1>1. IsFiniteSet(DOMAIN artifacts) /\ Cardinality(DOMAIN artifacts) \in Nat
  BY ListFacts, TokensAreFinite
<1>2. IsFiniteSet(Past) /\ Cardinality(Past) \in Nat /\ Cardinality(Publishers) \in Nat
  BY TokensAreFinite DEF Past
<1>3. /\ Cardinality(DOMAIN artifacts') <= Cardinality(DOMAIN artifacts)
      /\ IsFiniteSet(DOMAIN artifacts')
  BY <1>1, FS_Subset
<1>4. Cardinality(Past') <= Cardinality(Past) /\ IsFiniteSet(Past')
  BY <1>2, FS_Subset
<1>5. Cardinality(DOMAIN artifacts') \in Nat /\ Cardinality(Past') \in Nat
  BY <1>3, <1>4, FS_CardinalityType
<1>6. MaxActive \in Nat
  BY ArtifactAssumption
<1>7. QED
  BY <1>1, <1>2, <1>3, <1>4, <1>5, <1>6 DEF RoomLeft

\* A call passes the test: at most every call is past it.
LEMMA RoomTested ==
  ASSUME ListShape, Cardinality(DOMAIN artifacts) < MaxActive, UNCHANGED artifacts
  PROVE  RoomLeft'
<1>1. Cardinality(DOMAIN artifacts) \in Nat
  BY ListFacts, TokensAreFinite
<1>2. Past' \in SUBSET Publishers
  BY DEF Past
<1>3. Cardinality(Past') \in Nat /\ Cardinality(Past') <= Cardinality(Publishers)
  BY <1>2, TokensAreFinite
<1>4. Cardinality(Publishers) \in Nat /\ MaxActive \in Nat
  BY TokensAreFinite, ArtifactAssumption
<1>5. QED
  BY <1>1, <1>3, <1>4 DEF RoomLeft

\* A call that is past the test is listed and returns.
LEMMA RoomTaken ==
  ASSUME ListShape, RoomLeft, NEW p \in Past, NEW t \in 1..issued,
         DOMAIN artifacts' \subseteq DOMAIN artifacts \cup {t}, Past' = Past \ {p}
  PROVE  RoomLeft'
<1>1. IsFiniteSet(DOMAIN artifacts) /\ Cardinality(DOMAIN artifacts) \in Nat
  BY ListFacts, TokensAreFinite
<1>2. IsFiniteSet(Past) /\ Cardinality(Past) \in Nat /\ Cardinality(Publishers) \in Nat
  BY TokensAreFinite DEF Past
<1>3. /\ IsFiniteSet(DOMAIN artifacts \cup {t})
      /\ Cardinality(DOMAIN artifacts \cup {t}) <= Cardinality(DOMAIN artifacts) + 1
  <2> DEFINE D == DOMAIN artifacts
  <2>1. IsFiniteSet(D) /\ Cardinality(D) \in Nat
    BY <1>1
  <2> HIDE DEF D
  <2>2. IsFiniteSet(D \cup {t}) /\ Cardinality(D \cup {t}) = IF t \in D THEN Cardinality(D) ELSE Cardinality(D) + 1
    BY <2>1, FS_AddElement
  <2>3. Cardinality(D \cup {t}) <= Cardinality(D) + 1
    BY <2>1, <2>2
  <2> QED BY <2>2, <2>3 DEF D
<1>4. /\ IsFiniteSet(DOMAIN artifacts') /\ Cardinality(DOMAIN artifacts') \in Nat
      /\ Cardinality(DOMAIN artifacts') <= Cardinality(DOMAIN artifacts \cup {t})
  BY <1>3, FS_Subset, FS_CardinalityType
<1>5. Cardinality(Past') = Cardinality(Past) - 1
  BY <1>2, FS_RemoveElement
<1>6. MaxActive \in Nat /\ Cardinality(DOMAIN artifacts \cup {t}) \in Nat
  BY <1>3, ArtifactAssumption, FS_CardinalityType
<1>7. QED
  BY <1>1, <1>2, <1>3, <1>4, <1>5, <1>6 DEF RoomLeft

LEMMA OrphansKept ==
  ASSUME ListShape, FewOrphans, Orphans' \subseteq Orphans, UNCHANGED artifactFaults \/ Breaks
  PROVE  FewOrphans'
<1>1. Orphans \in SUBSET (1..issued) /\ artifactFaults \in Nat
  BY ListFacts DEF Orphans
<1>2. IsFiniteSet(Orphans) /\ Cardinality(Orphans) \in Nat
  BY <1>1, TokensAreFinite
<1>3. Cardinality(Orphans') <= Cardinality(Orphans) /\ Cardinality(Orphans') \in Nat
  BY <1>2, FS_Subset, FS_CardinalityType
<1>4. QED
  BY <1>1, <1>2, <1>3 DEF FewOrphans, Breaks

LEMMA OrphanLeft ==
  ASSUME ListShape, FewOrphans, NEW t, Orphans' \subseteq Orphans \cup {t}, Breaks
  PROVE  FewOrphans'
<1>1. Orphans \in SUBSET (1..issued) /\ artifactFaults \in Nat
  BY ListFacts DEF Orphans
<1>2. IsFiniteSet(Orphans) /\ Cardinality(Orphans) \in Nat
  BY <1>1, TokensAreFinite
<1>3. /\ IsFiniteSet(Orphans \cup {t}) /\ Cardinality(Orphans \cup {t}) \in Nat
      /\ Cardinality(Orphans \cup {t}) <= Cardinality(Orphans) + 1
  BY <1>2, FS_AddElement, FS_CardinalityType
<1>4. Cardinality(Orphans') <= Cardinality(Orphans \cup {t}) /\ Cardinality(Orphans') \in Nat
  BY <1>3, FS_Subset, FS_CardinalityType
<1>5. QED
  BY <1>1, <1>2, <1>3, <1>4 DEF FewOrphans, Breaks

(* Artifacts: what the steps of a call leave alone.                         *)

PublishSteps == {"idle", "check", "lstat", "copy", "copying", "stat", "hash"}
ListedRecord == [digest : SUBSET Versions, expires : Nat]

LEMMA GoesOn ==
  ASSUME ListShape, NEW p \in Publishers, NEW pc \in PublishSteps, PublishAt(p, pc)
  PROVE  /\ publish' \in [Publishers -> PublishRecord]
         /\ publish'[p].pc = pc /\ publish'[p].token = publish[p].token
         /\ \A q \in Publishers : q # p => publish'[q] = publish[q]
<1>1. publish \in [Publishers -> PublishRecord]
  BY DEF ListShape
<1>2. publish[p] \in PublishRecord
  BY <1>1
<1>3. publish' = [publish EXCEPT ![p].pc = pc, ![p].awaits = {}]
  BY DEF PublishAt
<1>4. QED
  BY <1>1, <1>2, <1>3 DEF PublishRecord, PublishSteps

LEMMA Returns ==
  ASSUME ListShape, NEW p \in Publishers, publish' = [publish EXCEPT ![p] = NoPublish]
  PROVE  /\ publish' \in [Publishers -> PublishRecord]
         /\ publish'[p].pc = "idle" /\ publish'[p].token = 0
         /\ \A q \in Publishers : q # p => publish'[q] = publish[q]
BY DEF ListShape, PublishRecord, NoPublish

LEMMA Prunes ==
  ASSUME ListShape, PruneList
  PROVE  /\ artifacts' \in [DOMAIN artifacts' -> ListedRecord]
         /\ DOMAIN artifacts' \subseteq DOMAIN artifacts
         /\ \A t \in DOMAIN artifacts' : artifacts'[t] = artifacts[t]
         /\ DOMAIN artifacts' \cup unlinking' = DOMAIN artifacts \cup unlinking
         /\ unlinking' \cap DOMAIN artifacts' = {}
         /\ unlinking' \subseteq 1..issued /\ Overdue \subseteq 1..issued
<1>1. artifacts \in [DOMAIN artifacts -> ListedRecord]
  BY DEF ListShape, ListedRecord
<1>2. unlinking \cap DOMAIN artifacts = {}
  BY DEF ListShape
<1>3. artifacts' = [t \in DOMAIN artifacts \ Overdue |-> artifacts[t]] /\ unlinking' = unlinking \cup Overdue
  BY DEF PruneList, Minus
<1>4. Overdue \subseteq DOMAIN artifacts
  BY DEF Overdue
<1>5. DOMAIN artifacts' = DOMAIN artifacts \ Overdue
  BY <1>3
<1>6. \A t \in DOMAIN artifacts' : artifacts'[t] = artifacts[t]
  BY <1>3
<1>7. artifacts' \in [DOMAIN artifacts' -> ListedRecord]
  BY <1>1, <1>3
<1>8. DOMAIN artifacts \subseteq 1..issued /\ unlinking \subseteq 1..issued
  BY ListFacts
<1>9. QED
  BY <1>2, <1>3, <1>4, <1>5, <1>6, <1>7, <1>8

\* The shape of the next state, in parts.
LEMMA ShapeKept ==
  ASSUME ListShape,
         source' \in Versions \cup {Missing}, shut' \in BOOLEAN, root' \in {"none", "made", "failed"},
         hour' \in 0..MaxHour, issued' \in 0..MaxTokens,
         UNCHANGED artifactFaults \/ Breaks,
         DOMAIN artifacts' \subseteq 1..issued', DOMAIN snapshots' \subseteq 1..issued',
         unlinking' \subseteq 1..issued', unlinking' \cap DOMAIN artifacts' = {},
         artifacts' \in [DOMAIN artifacts' -> ListedRecord],
         snapshots' \in [DOMAIN snapshots' -> SUBSET Versions],
         publish' \in [Publishers -> PublishRecord], download' \in [Downloaders -> DownloadRecord]
  PROVE  ListShape'
<1>1. MaxArtifactFaults \in Nat
  BY ArtifactAssumption
<1>2. artifactFaults \in 0..MaxArtifactFaults
  BY DEF ListShape, ArtifactsTypeOK
<1>3. artifactFaults' \in 0..MaxArtifactFaults
  BY <1>1, <1>2 DEF Breaks
<1>4. {DOMAIN artifacts, DOMAIN snapshots, unlinking}' \subseteq SUBSET (1..issued')
  OBVIOUS
<1>5. ArtifactsTypeOK'
  BY <1>3, <1>4 DEF ArtifactsTypeOK
<1>6. QED
  BY <1>5 DEF ListShape, ListedRecord

LEMMA OldShape ==
  ASSUME ListShape
  PROVE  /\ source \in Versions \cup {Missing} /\ shut \in BOOLEAN /\ root \in {"none", "made", "failed"}
         /\ hour \in 0..MaxHour /\ issued \in 0..MaxTokens
         /\ DOMAIN artifacts \subseteq 1..issued /\ DOMAIN snapshots \subseteq 1..issued
         /\ unlinking \subseteq 1..issued /\ unlinking \cap DOMAIN artifacts = {}
         /\ artifacts \in [DOMAIN artifacts -> ListedRecord]
         /\ snapshots \in [DOMAIN snapshots -> SUBSET Versions]
         /\ publish \in [Publishers -> PublishRecord] /\ download \in [Downloaders -> DownloadRecord]
<1>1. ArtifactsTypeOK
  BY DEF ListShape
<1>2. QED
  BY <1>1, ListFacts DEF ListShape, ArtifactsTypeOK, ListedRecord

\* An action that changes neither snapshots nor tokens, and at most prunes the list.
LEMMA TokensKept ==
  ASSUME ArtifactInv, UNCHANGED <<issued, snapshots>>,
         DOMAIN artifacts' \cup unlinking' \subseteq DOMAIN artifacts \cup unlinking,
         \A q \in Publishers : /\ HasToken(q)' <=> HasToken(q)
                               /\ publish'[q].token = publish[q].token
                               /\ HasToken(q) => (publish'[q].pc = publish[q].pc)
  PROVE  TokensOwned'
<1>1. \A q \in Publishers : HasToken(q)' =>
       /\ publish'[q].token \in 1..issued' /\ publish'[q].token \notin DOMAIN artifacts' \cup unlinking'
       /\ (publish'[q].token \in DOMAIN snapshots') <=> (publish'[q].pc # "copy")
       /\ (publish'[q].pc = "hash") => (snapshots'[publish'[q].token] \cap Oversized = {})
  BY DEF ArtifactInv, TokensOwned
<1>2. \A q \in Publishers : ~HasToken(q)' => publish'[q].token = 0
  BY DEF ArtifactInv, TokensOwned
<1>3. \A q, r \in Publishers : q # r /\ HasToken(q)' /\ HasToken(r)' => publish'[q].token # publish'[r].token
  BY DEF ArtifactInv, TokensOwned
<1>4. QED
  BY <1>1, <1>2, <1>3 DEF TokensOwned

-----------------------------------------------------------------------------
(* Artifacts: the steps.                                                    *)

LEMMA CleanupInv ==
  ASSUME ArtifactInv, Cleanup
  PROVE  ArtifactInv'
<1>1. /\ ~shut /\ PruneList
      /\ UNCHANGED <<source, shut, hour, root, snapshots, publish, download, issued, artifactFaults>>
  BY DEF Cleanup, outsideVars, Works
<1>2. ListShape
  BY DEF ArtifactInv
<1>3. ListShape'
  BY <1>1, <1>2, Prunes, OldShape, ShapeKept
<1>4. TokensOwned'
  BY <1>1, <1>2, Prunes, TokensKept DEF HasToken
<1>5. ListedWhole'
  BY <1>1, <1>2, Prunes DEF ArtifactInv, ListedWhole
<1>6. SendsPromised'
  BY <1>1 DEF ArtifactInv, SendsPromised, HasToken
<1>7. RoomLeft'
  BY <1>1, <1>2, Prunes, RoomKept DEF ArtifactInv, Past
<1>8. FewOrphans'
  BY <1>1, <1>2, Prunes, OrphansKept DEF ArtifactInv, Orphans, Publishing
<1>9. ShutIsEmpty'
  BY <1>1 DEF ShutIsEmpty
<1>10. QED
  BY <1>3, <1>4, <1>5, <1>6, <1>7, <1>8, <1>9 DEF ArtifactInv

LEMMA RemoveSnapshotInv ==
  ASSUME ArtifactInv, NEW t \in 1..issued, RemoveSnapshot(t)
  PROVE  ArtifactInv'
<1>1. /\ t \in unlinking /\ unlinking' = unlinking \ {t}
      /\ UNCHANGED <<source, shut, hour, artifacts, root, publish, download, issued>>
      /\ \/ snapshots' = Minus(snapshots, {t}) /\ UNCHANGED artifactFaults
         \/ UNCHANGED snapshots /\ Breaks
  BY DEF RemoveSnapshot, outsideVars, Works
<1>2. ListShape /\ TokensOwned /\ ListedWhole /\ SendsPromised /\ RoomLeft /\ FewOrphans /\ ShutIsEmpty
  BY DEF ArtifactInv
<1>3. /\ DOMAIN snapshots' \subseteq DOMAIN snapshots
      /\ \A u \in DOMAIN snapshots' : snapshots'[u] = snapshots[u]
      /\ \A u \in DOMAIN snapshots : u # t => u \in DOMAIN snapshots'
      /\ snapshots' \in [DOMAIN snapshots' -> SUBSET Versions]
  <2>1. snapshots \in [DOMAIN snapshots -> SUBSET Versions]
    BY <1>2, OldShape
  <2>2. CASE snapshots' = Minus(snapshots, {t})
    BY <2>1, <2>2 DEF Minus
  <2>3. QED
    BY <1>1, <2>1, <2>2
<1>4. t \notin DOMAIN artifacts
  BY <1>1, <1>2 DEF ListShape
<1>5. ListShape'
  <2>1. UNCHANGED artifactFaults \/ Breaks
    BY <1>1
  <2>2. unlinking' \subseteq 1..issued' /\ unlinking' \cap DOMAIN artifacts' = {}
    BY <1>1, <1>2, OldShape
  <2>3. DOMAIN snapshots' \subseteq 1..issued'
    BY <1>1, <1>2, <1>3, OldShape
  <2>4. QED
    BY <1>1, <1>2, <1>3, <2>1, <2>2, <2>3, OldShape, ShapeKept
<1>6. TokensOwned'
  BY <1>1, <1>2, <1>3 DEF TokensOwned, HasToken
<1>7. ListedWhole'
  BY <1>1, <1>2, <1>3, <1>4 DEF ListedWhole
<1>8. SendsPromised'
  BY <1>1, <1>2, <1>3 DEF SendsPromised, HasToken
<1>9. RoomLeft'
  BY <1>1, <1>2, RoomKept DEF Past
<1>10. FewOrphans'
  <2>1. CASE snapshots' = Minus(snapshots, {t}) /\ UNCHANGED artifactFaults
    <3>1. t \notin DOMAIN snapshots'
      BY <2>1 DEF Minus
    <3>2. Orphans' \subseteq Orphans
      BY <1>1, <1>3, <3>1 DEF Orphans, Publishing
    <3>3. QED
      BY <1>2, <2>1, <3>2, OrphansKept
  <2>2. CASE UNCHANGED snapshots /\ Breaks
    <3>1. Orphans' \subseteq Orphans \cup {t}
      BY <1>1, <2>2 DEF Orphans, Publishing
    <3>2. QED
      BY <1>2, <2>2, <3>1, OrphanLeft
  <2>3. QED
    BY <1>1, <2>1, <2>2
<1>11. ShutIsEmpty'
  BY <1>1, <1>2 DEF ShutIsEmpty
<1>12. QED
  BY <1>5, <1>6, <1>7, <1>8, <1>9, <1>10, <1>11 DEF ArtifactInv

LEMMA BeginInv ==
  ASSUME ArtifactInv, NEW p \in Publishers, Begin(p)
  PROVE  ArtifactInv'
<1> DEFINE r == [NoPublish EXCEPT !.pc = "check", !.awaits = Overdue]
<1>1. /\ ~shut /\ publish[p].pc = "idle" /\ PruneList /\ publish' = [publish EXCEPT ![p] = r]
      /\ UNCHANGED <<source, shut, hour, root, snapshots, download, issued, artifactFaults>>
  BY DEF Begin, outsideVars, Works, Publishing
<1>2. ListShape /\ TokensOwned /\ ListedWhole /\ SendsPromised /\ RoomLeft /\ FewOrphans /\ ShutIsEmpty
  BY DEF ArtifactInv
<1>3. publish \in [Publishers -> PublishRecord]
  BY <1>2, OldShape
<1>4. r.pc = "check" /\ r.token = 0 /\ r \in PublishRecord
  <2>1. Overdue \in SUBSET Nat
    BY <1>1, <1>2, Prunes, ListFacts
  <2>2. QED
    BY <2>1 DEF NoPublish, PublishRecord
<1> HIDE DEF r
<1>5. /\ publish' \in [Publishers -> PublishRecord] /\ publish'[p].pc = "check" /\ publish'[p].token = 0
      /\ \A q \in Publishers : q # p => publish'[q] = publish[q]
  BY <1>1, <1>3, <1>4
<1>6. publish[p].token = 0
  BY <1>1, <1>2 DEF TokensOwned, HasToken
<1>7. \A q \in Publishers : /\ HasToken(q)' <=> HasToken(q)
                            /\ publish'[q].token = publish[q].token
                            /\ HasToken(q) => (publish'[q].pc = publish[q].pc)
  BY <1>1, <1>5, <1>6 DEF HasToken
<1>8. ListShape'
  BY <1>1, <1>2, <1>5, Prunes, OldShape, ShapeKept
<1>9. TokensOwned'
  BY <1>1, <1>2, <1>7, Prunes, TokensKept
<1>10. ListedWhole'
  BY <1>1, <1>2, Prunes DEF ListedWhole
<1>11. SendsPromised'
  BY <1>1, <1>2, <1>7 DEF SendsPromised
<1>12. RoomLeft'
  BY <1>1, <1>2, <1>5, Prunes, RoomKept DEF Past
<1>13. FewOrphans'
  <2>1. Orphans' \subseteq Orphans
    <3>1. SUFFICES ASSUME NEW t \in Orphans' PROVE t \in Orphans
      OBVIOUS
    <3>2. t \in DOMAIN snapshots \ (DOMAIN artifacts \cup unlinking)
      BY <1>1, <1>2, Prunes DEF Orphans
    <3>3. \A q \in Publishers : publish[q].pc = "idle" \/ publish[q].token # t
      BY <1>1, <1>5 DEF Orphans, Publishing
    <3>4. QED
      BY <3>2, <3>3 DEF Orphans, Publishing
  <2>2. QED
    BY <1>1, <1>2, <2>1, OrphansKept
<1>14. ShutIsEmpty'
  BY <1>1 DEF ShutIsEmpty
<1>15. QED
  BY <1>8, <1>9, <1>10, <1>11, <1>12, <1>13, <1>14 DEF ArtifactInv

\* A step that only moves a call, which keeps its token or is refused.
LEMMA CallMoves ==
  ASSUME ArtifactInv, NEW p \in Publishers,
         UNCHANGED <<source, shut, hour, artifacts, unlinking, root, snapshots, download, issued>>,
         UNCHANGED artifactFaults \/ Breaks,
         publish' \in [Publishers -> PublishRecord],
         \A q \in Publishers : q # p => publish'[q] = publish[q],
         publish[p].pc # "idle",
         \/ publish'[p].pc = "idle" /\ publish'[p].token = 0
         \/ /\ publish'[p].token = publish[p].token
            /\ HasToken(p)' <=> HasToken(p)
            /\ publish'[p].pc = "hash" => (HasToken(p) => Content(p) \cap Oversized = {})
            /\ HasToken(p) => (publish[p].pc = "copy" <=> publish'[p].pc = "copy")
            /\ publish'[p].pc # "idle",
         RoomLeft',
         Orphans' \subseteq Orphans \/ (Breaks /\ Orphans' \subseteq Orphans \cup {publish[p].token})
  PROVE  ArtifactInv'
<1>2. ListShape /\ TokensOwned /\ ListedWhole /\ SendsPromised /\ RoomLeft /\ FewOrphans /\ ShutIsEmpty
  BY DEF ArtifactInv
<1>3. ListShape'
  BY <1>2, OldShape, ShapeKept
<1>4. \A q \in Publishers : HasToken(q)' => /\ HasToken(q) /\ publish'[q].token = publish[q].token
  BY DEF HasToken
<1>5. TokensOwned'
  <2>1. \A q \in Publishers : HasToken(q)' =>
       /\ publish'[q].token \in 1..issued' /\ publish'[q].token \notin DOMAIN artifacts' \cup unlinking'
       /\ (publish'[q].token \in DOMAIN snapshots') <=> (publish'[q].pc # "copy")
       /\ (publish'[q].pc = "hash") => (snapshots'[publish'[q].token] \cap Oversized = {})
    BY <1>2, <1>4 DEF TokensOwned, HasToken, Content
  <2>2. \A q \in Publishers : ~HasToken(q)' => publish'[q].token = 0
    BY <1>2 DEF TokensOwned, HasToken
  <2>3. \A q, r \in Publishers : q # r /\ HasToken(q)' /\ HasToken(r)' => publish'[q].token # publish'[r].token
    BY <1>2, <1>4 DEF TokensOwned
  <2>4. QED
    BY <2>1, <2>2, <2>3 DEF TokensOwned
<1>6. ListedWhole' /\ SendsPromised'
  BY <1>2, <1>4 DEF ListedWhole, SendsPromised
<1>7. FewOrphans'
  BY <1>2, OrphansKept, OrphanLeft
<1>8. ShutIsEmpty'
  BY <1>2 DEF ShutIsEmpty
<1>9. QED
  BY <1>3, <1>5, <1>6, <1>7, <1>8 DEF ArtifactInv

LEMMA CheckInv ==
  ASSUME ArtifactInv, NEW p \in Publishers, Check(p)
  PROVE  ArtifactInv'
<1>1. /\ publish[p].pc = "check"
      /\ UNCHANGED <<source, shut, hour, artifacts, unlinking, root, snapshots, download, issued, artifactFaults>>
      /\ \/ Cardinality(DOMAIN artifacts) < MaxActive /\ PublishAt(p, "lstat")
         \/ RefusePublication(p)
  BY DEF Check, outsideVars, listVars, Works, Publishing
<1>2. ListShape /\ TokensOwned /\ RoomLeft
  BY DEF ArtifactInv
<1>3. ~HasToken(p) /\ publish[p].token = 0
  BY <1>1, <1>2 DEF HasToken, TokensOwned
<1>4. /\ publish' \in [Publishers -> PublishRecord] /\ publish'[p].token = 0
      /\ \A q \in Publishers : q # p => publish'[q] = publish[q]
      /\ publish'[p].pc = "lstat" \/ publish'[p].pc = "idle"
  <2>1. CASE PublishAt(p, "lstat")
    BY <1>2, <1>3, <2>1, GoesOn DEF PublishSteps
  <2>2. CASE RefusePublication(p)
    BY <1>2, <2>2, Returns DEF RefusePublication
  <2>3. QED
    BY <1>1, <2>1, <2>2
<1>5. RoomLeft'
  <2>1. CASE Cardinality(DOMAIN artifacts) < MaxActive
    BY <1>1, <1>2, <2>1, RoomTested
  <2>2. CASE RefusePublication(p)
    <3>1. publish'[p].pc = "idle"
      BY <1>2, <2>2, Returns DEF RefusePublication
    <3>2. Past' \subseteq Past
      BY <1>4, <3>1 DEF Past
    <3>3. QED
      BY <1>1, <1>2, <3>2, RoomKept
  <2>3. QED
    BY <1>1, <2>1, <2>2
<1>6. Orphans' \subseteq Orphans
  <2>1. SUFFICES ASSUME NEW t \in Orphans' PROVE t \in Orphans
    OBVIOUS
  <2>2. t \in DOMAIN snapshots \ (DOMAIN artifacts \cup unlinking)
    BY <1>1 DEF Orphans
  <2>3. t # 0
    BY <1>2, <2>2, ListFacts
  <2>4. \A q \in Publishers : publish[q].pc = "idle" \/ publish[q].token # t
    BY <1>3, <1>4, <2>3 DEF Orphans, Publishing
  <2>5. QED
    BY <2>2, <2>4 DEF Orphans, Publishing
<1>7. ~HasToken(p)'
  BY <1>4 DEF HasToken
<1>8. publish'[p].pc # "hash"
  BY <1>4
<1>9. QED
  BY <1>1, <1>3, <1>4, <1>5, <1>6, <1>7, <1>8, CallMoves

\* A new token is on no list, and no call has it yet.
LEMMA TokenIssued ==
  ASSUME ArtifactInv, NEW p \in Publishers, publish[p].pc = "lstat",
         issued' = issued + 1, issued < MaxTokens, root' = "made",
         publish' = [publish EXCEPT ![p].pc = "copy", ![p].token = issued'],
         UNCHANGED <<source, shut, hour, artifacts, unlinking, snapshots, download, artifactFaults>>
  PROVE  ArtifactInv'
<1>1. ListShape /\ TokensOwned /\ ListedWhole /\ SendsPromised /\ RoomLeft /\ FewOrphans /\ ShutIsEmpty
  BY DEF ArtifactInv
<1>2. issued \in Nat /\ issued' \in Nat /\ MaxTokens \in Nat /\ issued' \in 0..MaxTokens
  BY <1>1, ListFacts, ArtifactAssumption
<1>3. 1..issued \subseteq 1..issued' /\ issued' \in 1..issued' /\ issued' \notin 1..issued
  BY <1>2
<1>4. /\ publish' \in [Publishers -> PublishRecord]
      /\ publish'[p].pc = "copy" /\ publish'[p].token = issued'
      /\ \A q \in Publishers : q # p => publish'[q] = publish[q]
  <2>1. publish \in [Publishers -> PublishRecord] /\ publish[p] \in PublishRecord
    BY <1>1, OldShape
  <2>2. QED
    BY <1>2, <2>1 DEF PublishRecord
<1>5. HasToken(p)' /\ ~HasToken(p)
  BY <1>4 DEF HasToken
<1>6. ListShape'
  BY <1>1, <1>2, <1>3, <1>4, OldShape, ShapeKept
<1>7. TokensOwned'
  <2>1. /\ publish'[p].token \in 1..issued' /\ publish'[p].token \notin DOMAIN artifacts' \cup unlinking'
        /\ publish'[p].token \notin DOMAIN snapshots'
    BY <1>1, <1>3, <1>4, OldShape
  <2>2. \A q \in Publishers : HasToken(q)' =>
       /\ publish'[q].token \in 1..issued' /\ publish'[q].token \notin DOMAIN artifacts' \cup unlinking'
       /\ (publish'[q].token \in DOMAIN snapshots') <=> (publish'[q].pc # "copy")
       /\ (publish'[q].pc = "hash") => (snapshots'[publish'[q].token] \cap Oversized = {})
    BY <1>1, <1>3, <1>4, <2>1 DEF TokensOwned, HasToken
  <2>3. \A q \in Publishers : ~HasToken(q)' => publish'[q].token = 0
    BY <1>1, <1>4, <1>5 DEF TokensOwned, HasToken
  <2>4. \A q \in Publishers : q # p /\ HasToken(q)' => publish'[q].token \in 1..issued
    BY <1>1, <1>4 DEF TokensOwned, HasToken
  <2>5. \A q, r \in Publishers : q # r /\ HasToken(q)' /\ HasToken(r)' => publish'[q].token # publish'[r].token
    BY <1>1, <1>3, <1>4, <2>4 DEF TokensOwned, HasToken
  <2>6. QED
    BY <2>2, <2>3, <2>5 DEF TokensOwned
<1>8. ListedWhole'
  BY <1>1 DEF ListedWhole
<1>9. SendsPromised'
  BY <1>1, <1>3, <1>4 DEF SendsPromised, HasToken
<1>10. RoomLeft'
  <2>1. Past' \subseteq Past
    BY <1>4 DEF Past
  <2>2. QED
    BY <1>1, <2>1, RoomKept
<1>11. FewOrphans'
  <2>1. Orphans' \subseteq Orphans
    <3>1. SUFFICES ASSUME NEW t \in Orphans' PROVE t \in Orphans
      OBVIOUS
    <3>2. t \in DOMAIN snapshots \ (DOMAIN artifacts \cup unlinking) /\ publish[p].token = 0
      BY <1>1, <1>5 DEF Orphans, TokensOwned
    <3>3. t # 0
      BY <1>1, <3>2, ListFacts
    <3>4. \A q \in Publishers : publish[q].pc = "idle" \/ publish[q].token # t
      BY <1>4, <3>2, <3>3 DEF Orphans, Publishing
    <3>5. QED
      BY <3>2, <3>4 DEF Orphans, Publishing
  <2>2. QED
    BY <1>1, <2>1, OrphansKept
<1>12. ShutIsEmpty'
  BY <1>1 DEF ShutIsEmpty
<1>13. QED
  BY <1>6, <1>7, <1>8, <1>9, <1>10, <1>11, <1>12 DEF ArtifactInv

LEMMA LstatInv ==
  ASSUME ArtifactInv, NEW p \in Publishers, Lstat(p)
  PROVE  ArtifactInv'
<1>1. /\ publish[p].pc = "lstat"
      /\ UNCHANGED <<source, shut, hour, artifacts, unlinking, snapshots, download>>
  BY DEF Lstat, outsideVars, listVars, Publishing
<1>2. CASE /\ issued < MaxTokens /\ issued' = issued + 1 /\ root' = "made" /\ UNCHANGED artifactFaults
           /\ publish' = [publish EXCEPT ![p].pc = "copy", ![p].token = issued']
  BY <1>1, <1>2, TokenIssued
<1>3. CASE /\ root' \in {root, "failed"} /\ RefusePublication(p) /\ UNCHANGED issued
           /\ UNCHANGED artifactFaults \/ Breaks
  <2>1. ListShape /\ TokensOwned /\ ListedWhole /\ SendsPromised /\ RoomLeft /\ FewOrphans /\ ShutIsEmpty
    BY DEF ArtifactInv
  <2>2. /\ publish' \in [Publishers -> PublishRecord] /\ publish'[p].pc = "idle" /\ publish'[p].token = 0
        /\ \A q \in Publishers : q # p => publish'[q] = publish[q]
    BY <1>3, <2>1, Returns DEF RefusePublication
  <2>3. ~HasToken(p) /\ publish[p].token = 0 /\ ~HasToken(p)'
    BY <1>1, <2>1, <2>2 DEF HasToken, TokensOwned
  <2>4. ListShape'
    <3>1. root' \in {"none", "made", "failed"}
      BY <1>3, <2>1, OldShape
    <3>2. QED
      BY <1>1, <1>3, <2>1, <2>2, <3>1, OldShape, ShapeKept
  <2>5. \A q \in Publishers : /\ HasToken(q)' <=> HasToken(q)
                              /\ publish'[q].token = publish[q].token
                              /\ HasToken(q) => (publish'[q].pc = publish[q].pc)
    BY <2>2, <2>3 DEF HasToken
  <2>6. TokensOwned'
    BY <1>1, <1>3, <2>5, TokensKept
  <2>7. ListedWhole' /\ SendsPromised'
    BY <1>1, <1>3, <2>1, <2>5 DEF ListedWhole, SendsPromised
  <2>8. RoomLeft'
    <3>1. Past' \subseteq Past
      BY <2>2 DEF Past
    <3>2. QED
      BY <1>1, <2>1, <3>1, RoomKept
  <2>9. FewOrphans'
    <3>1. SUFFICES ASSUME NEW t \in Orphans' PROVE t \in Orphans
      BY <1>3, <2>1, OrphansKept
    <3>2. t \in DOMAIN snapshots \ (DOMAIN artifacts \cup unlinking)
      BY <1>1 DEF Orphans
    <3>3. t # 0
      BY <2>1, <3>2, ListFacts
    <3>4. \A q \in Publishers : publish[q].pc = "idle" \/ publish[q].token # t
      BY <2>2, <2>3, <3>3 DEF Orphans, Publishing
    <3>5. QED
      BY <3>2, <3>4 DEF Orphans, Publishing
  <2>10. ShutIsEmpty'
    BY <1>1, <2>1 DEF ShutIsEmpty
  <2>11. QED
    BY <2>4, <2>6, <2>7, <2>8, <2>9, <2>10 DEF ArtifactInv
<1>4. QED
  BY <1>2, <1>3 DEF Lstat, Works

\* The copy of a call is there, and says content; the call goes on.
LEMMA CopyHeld ==
  ASSUME ArtifactInv, NEW p \in Publishers, HasToken(p), publish[p].pc # "hash",
         NEW content \in SUBSET Versions, Holds(p, content),
         NEW pc \in {"copying", "stat"}, PublishAt(p, pc),
         UNCHANGED <<source, shut, hour, artifacts, unlinking, root, download, issued, artifactFaults>>
  PROVE  ArtifactInv'
<1>1. ListShape /\ TokensOwned /\ ListedWhole /\ SendsPromised /\ RoomLeft /\ FewOrphans /\ ShutIsEmpty
  BY DEF ArtifactInv
<1>2. PICK mine \in 1..issued : mine = publish[p].token
  BY <1>1 DEF TokensOwned
<1>3. /\ publish' \in [Publishers -> PublishRecord] /\ publish'[p].pc = pc /\ publish'[p].token = mine
      /\ \A q \in Publishers : q # p => publish'[q] = publish[q]
  BY <1>1, <1>2, GoesOn DEF PublishSteps
<1>4. /\ DOMAIN snapshots' = DOMAIN snapshots \cup {mine}
      /\ \A t \in DOMAIN snapshots : t # mine => snapshots'[t] = snapshots[t]
      /\ snapshots' \in [DOMAIN snapshots' -> SUBSET Versions]
  <2>1. snapshots \in [DOMAIN snapshots -> SUBSET Versions]
    BY <1>1, OldShape
  <2>2. QED
    BY <1>2, <2>1 DEF Holds
<1>5. mine \notin DOMAIN artifacts /\ mine \notin unlinking
  BY <1>1, <1>2 DEF TokensOwned
<1>6. /\ HasToken(p)'
      /\ \A q \in Publishers : HasToken(q)' <=> HasToken(q)
      /\ \A q \in Publishers : publish'[q].token = publish[q].token
  BY <1>2, <1>3 DEF HasToken
<1>7. ListShape'
  <2>1. DOMAIN snapshots' \subseteq 1..issued'
    BY <1>1, <1>4, OldShape
  <2>2. QED
    BY <1>1, <1>3, <1>4, <2>1, OldShape, ShapeKept
<1>8. TokensOwned'
  <2>1. \A q \in Publishers : q # p /\ HasToken(q) => publish[q].token # mine
    BY <1>1, <1>2 DEF TokensOwned
  <2>2. \A q \in Publishers : HasToken(q)' =>
       /\ publish'[q].token \in 1..issued' /\ publish'[q].token \notin DOMAIN artifacts' \cup unlinking'
       /\ (publish'[q].token \in DOMAIN snapshots') <=> (publish'[q].pc # "copy")
       /\ (publish'[q].pc = "hash") => (snapshots'[publish'[q].token] \cap Oversized = {})
    <3>1. SUFFICES ASSUME NEW q \in Publishers, HasToken(q), q # p
          PROVE  /\ publish[q].token \in DOMAIN snapshots' <=> publish[q].token \in DOMAIN snapshots
                 /\ (publish[q].pc = "hash") => (snapshots'[publish[q].token] = snapshots[publish[q].token])
      BY <1>1, <1>3, <1>4, <1>5, <1>6 DEF TokensOwned
    <3>2. QED
      BY <1>1, <1>4, <2>1, <3>1 DEF TokensOwned
  <2>3. \A q \in Publishers : ~HasToken(q)' => publish'[q].token = 0
    BY <1>1, <1>6 DEF TokensOwned
  <2>4. \A q, r \in Publishers : q # r /\ HasToken(q)' /\ HasToken(r)' => publish'[q].token # publish'[r].token
    BY <1>1, <1>6 DEF TokensOwned
  <2>5. QED
    BY <2>2, <2>3, <2>4 DEF TokensOwned
<1>9. ListedWhole'
  BY <1>1, <1>4, <1>5 DEF ListedWhole
<1>10. SendsPromised'
  <2>1. \A d \in Downloaders : download[d].pc = "send" => download[d].token # mine
    BY <1>1, <1>2 DEF SendsPromised
  <2>2. \A d \in Downloaders : download'[d].pc = "sent" => download'[d].got = download'[d].promised
    BY <1>1 DEF SendsPromised
  <2>3. ASSUME NEW d \in Downloaders, download'[d].pc = "send"
        PROVE  /\ download'[d].token \in 1..issued'
               /\ \A q \in Publishers : HasToken(q)' => publish'[q].token # download'[d].token
               /\ (download'[d].token \in DOMAIN snapshots') => (snapshots'[download'[d].token] = download'[d].promised)
    BY <1>1, <1>4, <1>6, <2>1, <2>3 DEF SendsPromised
  <2>4. QED
    BY <2>2, <2>3 DEF SendsPromised
<1>11. RoomLeft'
  <2>1. Past' \subseteq Past
    BY <1>3 DEF Past, HasToken
  <2>2. QED
    BY <1>1, <2>1, RoomKept
<1>12. FewOrphans'
  <2>1. Orphans' \subseteq Orphans
    <3>1. SUFFICES ASSUME NEW t \in Orphans' PROVE t \in Orphans
      OBVIOUS
    <3>2. t \in DOMAIN snapshots' \ (DOMAIN artifacts \cup unlinking)
      BY DEF Orphans
    <3>3. t # mine
      BY <1>3 DEF Orphans, Publishing
    <3>4. \A q \in Publishers : publish[q].pc = "idle" \/ publish[q].token # t
      BY <1>2, <1>3, <3>3 DEF Orphans, Publishing
    <3>5. QED
      BY <1>4, <3>2, <3>3, <3>4 DEF Orphans, Publishing
  <2>2. QED
    BY <1>1, <2>1, OrphansKept
<1>13. ShutIsEmpty'
  BY <1>1 DEF ShutIsEmpty, HasToken
<1>14. QED
  BY <1>7, <1>8, <1>9, <1>10, <1>11, <1>12, <1>13 DEF ArtifactInv

\* The copy of a call is removed, and the call fails.
LEMMA CopyDropped ==
  ASSUME ArtifactInv, NEW p \in Publishers, HasToken(p), Drops(p), RefusePublication(p),
         UNCHANGED artifactFaults \/ Breaks,
         UNCHANGED <<source, shut, hour, artifacts, unlinking, root, download, issued>>
  PROVE  ArtifactInv'
<1>1. ListShape /\ TokensOwned /\ ListedWhole /\ SendsPromised /\ RoomLeft /\ FewOrphans /\ ShutIsEmpty
  BY DEF ArtifactInv
<1>2. PICK mine \in 1..issued : mine = publish[p].token
  BY <1>1 DEF TokensOwned
<1>3. /\ publish' \in [Publishers -> PublishRecord] /\ publish'[p].pc = "idle" /\ publish'[p].token = 0
      /\ \A q \in Publishers : q # p => publish'[q] = publish[q]
  BY <1>1, Returns DEF RefusePublication
<1>4. /\ DOMAIN snapshots' = DOMAIN snapshots \ {mine}
      /\ \A t \in DOMAIN snapshots' : snapshots'[t] = snapshots[t]
      /\ snapshots' \in [DOMAIN snapshots' -> SUBSET Versions]
  <2>1. snapshots \in [DOMAIN snapshots -> SUBSET Versions]
    BY <1>1, OldShape
  <2>2. QED
    BY <1>2, <2>1 DEF Drops, Minus
<1>5. mine \notin DOMAIN artifacts /\ mine \notin unlinking
  BY <1>1, <1>2 DEF TokensOwned
<1>6. ~HasToken(p)' /\ \A q \in Publishers : q # p => (HasToken(q)' <=> HasToken(q))
  BY <1>3 DEF HasToken
<1>7. \A q \in Publishers : q # p /\ HasToken(q) => publish[q].token # mine
  BY <1>1, <1>2 DEF TokensOwned
<1>8. ListShape'
  BY <1>1, <1>3, <1>4, OldShape, ShapeKept
<1>9. TokensOwned'
  <2>1. ASSUME NEW q \in Publishers, HasToken(q)'
        PROVE  /\ publish'[q].token \in 1..issued'
               /\ publish'[q].token \notin DOMAIN artifacts' \cup unlinking'
               /\ (publish'[q].token \in DOMAIN snapshots') <=> (publish'[q].pc # "copy")
               /\ (publish'[q].pc = "hash") => (snapshots'[publish'[q].token] \cap Oversized = {})
    <3>1. q # p /\ HasToken(q) /\ publish'[q] = publish[q] /\ publish[q].token # mine
      BY <1>3, <1>6, <1>7, <2>1
    <3>2. publish[q].token \in DOMAIN snapshots' <=> publish[q].token \in DOMAIN snapshots
      BY <1>4, <3>1
    <3>3. QED
      BY <1>1, <1>4, <3>1, <3>2 DEF TokensOwned
  <2>2. \A q \in Publishers : ~HasToken(q)' => publish'[q].token = 0
    BY <1>1, <1>3, <1>6 DEF TokensOwned
  <2>3. \A q, r \in Publishers : q # r /\ HasToken(q)' /\ HasToken(r)' => publish'[q].token # publish'[r].token
    BY <1>1, <1>3, <1>6 DEF TokensOwned
  <2>4. QED
    BY <2>1, <2>2, <2>3 DEF TokensOwned
<1>10. ListedWhole'
  BY <1>1, <1>4, <1>5 DEF ListedWhole
<1>11. SendsPromised'
  BY <1>1, <1>3, <1>4, <1>6 DEF SendsPromised
<1>12. RoomLeft'
  <2>1. Past' \subseteq Past
    BY <1>3 DEF Past
  <2>2. QED
    BY <1>1, <2>1, RoomKept
<1>13. FewOrphans'
  <2>1. Orphans' \subseteq Orphans
    <3>1. SUFFICES ASSUME NEW t \in Orphans' PROVE t \in Orphans
      OBVIOUS
    <3>2. t \in DOMAIN snapshots \ (DOMAIN artifacts \cup unlinking) /\ t # mine
      BY <1>4 DEF Orphans
    <3>3. \A q \in Publishers : publish[q].pc = "idle" \/ publish[q].token # t
      BY <1>2, <1>3, <3>2 DEF Orphans, Publishing
    <3>4. QED
      BY <3>2, <3>3 DEF Orphans, Publishing
  <2>2. QED
    BY <1>1, <2>1, OrphansKept
<1>14. ShutIsEmpty'
  BY <1>1 DEF ShutIsEmpty, HasToken
<1>15. QED
  BY <1>8, <1>9, <1>10, <1>11, <1>12, <1>13, <1>14 DEF ArtifactInv

\* A call with a token goes on, or leaves its copy behind.
LEMMA CallGoesOn ==
  ASSUME ArtifactInv, NEW p \in Publishers, HasToken(p), publish[p].pc # "copy",
         NEW pc \in {"stat", "hash"}, PublishAt(p, pc), pc = "hash" => Content(p) \cap Oversized = {},
         UNCHANGED <<source, shut, hour, artifacts, unlinking, root, snapshots, download, issued, artifactFaults>>
  PROVE  ArtifactInv'
<1>1. ListShape /\ RoomLeft
  BY DEF ArtifactInv
<1>2. /\ publish' \in [Publishers -> PublishRecord] /\ publish'[p].pc = pc
      /\ publish'[p].token = publish[p].token
      /\ \A q \in Publishers : q # p => publish'[q] = publish[q]
  BY <1>1, GoesOn DEF PublishSteps
<1>3. HasToken(p)' /\ publish[p].pc # "idle"
  BY <1>2 DEF HasToken
<1>4. RoomLeft'
  <2>1. Past' \subseteq Past
    BY <1>2 DEF Past, HasToken
  <2>2. QED
    BY <1>1, <2>1, RoomKept
<1>5. Orphans' \subseteq Orphans
  BY <1>2, <1>3 DEF Orphans, Publishing
<1>6. QED
  BY <1>2, <1>3, <1>4, <1>5, CallMoves

LEMMA CallFails ==
  ASSUME ArtifactInv, NEW p \in Publishers, HasToken(p), RefusePublication(p),
         Breaks \/ (publish[p].pc = "copy" /\ UNCHANGED artifactFaults),
         UNCHANGED <<source, shut, hour, artifacts, unlinking, root, snapshots, download, issued>>
  PROVE  ArtifactInv'
<1>1. ListShape /\ RoomLeft /\ TokensOwned
  BY DEF ArtifactInv
<1>2. /\ publish' \in [Publishers -> PublishRecord] /\ publish'[p].pc = "idle" /\ publish'[p].token = 0
      /\ \A q \in Publishers : q # p => publish'[q] = publish[q]
  BY <1>1, Returns DEF RefusePublication
<1>3. RoomLeft'
  <2>1. Past' \subseteq Past
    BY <1>2 DEF Past
  <2>2. QED
    BY <1>1, <2>1, RoomKept
<1>4. Orphans' \subseteq Orphans \cup {publish[p].token}
  BY <1>2 DEF Orphans, Publishing
<1>5. publish[p].pc = "copy" => Orphans' \subseteq Orphans
  <2>1. publish[p].pc = "copy" => publish[p].token \notin DOMAIN snapshots
    BY <1>1 DEF TokensOwned, HasToken
  <2>2. publish[p].pc = "copy" => publish[p].token \notin Orphans'
    BY <2>1 DEF Orphans
  <2>3. QED
    BY <1>4, <2>2
<1>6. publish[p].pc # "idle"
  BY DEF HasToken
<1>7. UNCHANGED artifactFaults \/ Breaks
  OBVIOUS
<1>8. Orphans' \subseteq Orphans \/ (Breaks /\ Orphans' \subseteq Orphans \cup {publish[p].token})
  BY <1>4, <1>5
<1>9. QED
  BY <1>2, <1>3, <1>6, <1>7, <1>8, CallMoves

LEMMA ContentOf ==
  ASSUME ArtifactInv, NEW p \in Publishers, HasToken(p), publish[p].pc # "copy"
  PROVE  publish[p].token \in DOMAIN snapshots /\ Content(p) \in SUBSET Versions
BY OldShape DEF ArtifactInv, TokensOwned, Content

LEMMA OpenCopyInv ==
  ASSUME ArtifactInv, NEW p \in Publishers, OpenCopy(p)
  PROVE  ArtifactInv'
<1>1. /\ publish[p].pc = "copy"
      /\ UNCHANGED <<source, shut, hour, artifacts, unlinking, root, download, issued, artifactFaults>>
      /\ \/ source # Missing /\ Holds(p, {source}) /\ PublishAt(p, "copying")
         \/ source = Missing /\ RefusePublication(p) /\ UNCHANGED snapshots
  BY DEF OpenCopy, outsideVars, listVars, Works, Publishing
<1>2. HasToken(p)
  BY <1>1 DEF HasToken
<1>3. CASE source # Missing /\ Holds(p, {source}) /\ PublishAt(p, "copying")
  <2>1. {source} \in SUBSET Versions
    BY <1>3, OldShape DEF ArtifactInv
  <2>2. QED
    BY <1>1, <1>2, <1>3, <2>1, CopyHeld
<1>4. CASE source = Missing /\ RefusePublication(p) /\ UNCHANGED snapshots
  BY <1>1, <1>2, <1>4, CallFails
<1>5. QED
  BY <1>1, <1>3, <1>4

LEMMA EndCopyInv ==
  ASSUME ArtifactInv, NEW p \in Publishers, EndCopy(p)
  PROVE  ArtifactInv'
<1>1. /\ publish[p].pc = "copying"
      /\ UNCHANGED <<source, shut, hour, artifacts, unlinking, root, download, issued>>
  BY DEF EndCopy, outsideVars, listVars, Publishing
<1>2. HasToken(p) /\ publish[p].pc # "copy" /\ publish[p].pc # "hash"
  BY <1>1 DEF HasToken
<1>3. CASE PublishAt(p, "stat") /\ UNCHANGED snapshots /\ UNCHANGED artifactFaults
  BY <1>1, <1>2, <1>3, CallGoesOn
<1>4. CASE source # Missing /\ Holds(p, Content(p) \cup {source}) /\ PublishAt(p, "stat") /\ UNCHANGED artifactFaults
  <2>1. Content(p) \cup {source} \in SUBSET Versions
    BY <1>2, <1>4, OldShape, ContentOf DEF ArtifactInv
  <2>2. QED
    BY <1>1, <1>2, <1>4, <2>1, CopyHeld
<1>5. CASE Drops(p) /\ RefusePublication(p) /\ Breaks
  BY <1>1, <1>2, <1>5, CopyDropped
<1>6. QED
  BY <1>3, <1>4, <1>5 DEF EndCopy, Works

LEMMA StatSnapshotInv ==
  ASSUME ArtifactInv, NEW p \in Publishers, StatSnapshot(p)
  PROVE  ArtifactInv'
<1>1. /\ publish[p].pc = "stat"
      /\ UNCHANGED <<source, shut, hour, artifacts, unlinking, root, download, issued>>
  BY DEF StatSnapshot, outsideVars, listVars, Publishing
<1>2. HasToken(p) /\ publish[p].pc # "copy"
  BY <1>1 DEF HasToken
<1>3. CASE /\ Content(p) \cap Oversized = {} /\ PublishAt(p, "hash")
           /\ UNCHANGED snapshots /\ UNCHANGED artifactFaults
  BY <1>1, <1>2, <1>3, CallGoesOn
<1>4. CASE RefusePublication(p) /\ Drops(p) /\ UNCHANGED artifactFaults
  BY <1>1, <1>2, <1>4, CopyDropped
<1>5. CASE RefusePublication(p) /\ UNCHANGED snapshots /\ Breaks
  BY <1>1, <1>2, <1>5, CallFails
<1>6. QED
  BY <1>3, <1>4, <1>5 DEF StatSnapshot, Works

\* What is listed is the call's own copy, and no other call has its token.
LEMMA ListInv ==
  ASSUME ArtifactInv, NEW p \in Publishers, List(p)
  PROVE  ArtifactInv'
<1>1. /\ publish[p].pc = "hash" /\ publish' = [publish EXCEPT ![p] = NoPublish]
      /\ UNCHANGED <<source, shut, hour, unlinking, root, snapshots, download, issued>>
  BY DEF List, outsideVars, Publishing
<1>2. ListShape /\ TokensOwned /\ ListedWhole /\ SendsPromised /\ RoomLeft /\ FewOrphans /\ ShutIsEmpty
  BY DEF ArtifactInv
<1>3. HasToken(p)
  BY <1>1 DEF HasToken
<1>4. CASE UNCHANGED artifacts /\ Breaks
  BY <1>1, <1>3, <1>4, CallFails DEF RefusePublication
<1>5. CASE /\ artifacts' = [t \in DOMAIN artifacts \cup {publish[p].token} |->
                             IF t = publish[p].token
                             THEN [digest |-> Digest(p), expires |-> hour + ArtifactTtl] ELSE artifacts[t]]
           /\ UNCHANGED artifactFaults
  <2>1. PICK mine \in 1..issued : mine = publish[p].token
    BY <1>2, <1>3 DEF TokensOwned
  <2>2. /\ mine \notin DOMAIN artifacts /\ mine \notin unlinking /\ mine \in DOMAIN snapshots
        /\ snapshots[mine] \cap Oversized = {}
    BY <1>1, <1>2, <1>3, <2>1 DEF TokensOwned
  <2>3. /\ DOMAIN artifacts' = DOMAIN artifacts \cup {mine}
        /\ artifacts'[mine] = [digest |-> Digest(p), expires |-> hour + ArtifactTtl]
        /\ \A t \in DOMAIN artifacts : artifacts'[t] = artifacts[t]
        /\ artifacts' = [t \in DOMAIN artifacts' |-> artifacts'[t]]
    BY <1>5, <2>1, <2>2
  <2>4. Digest(p) = snapshots[mine] /\ Digest(p) \in SUBSET Versions
    BY <1>1, <1>3, <2>1, ContentOf DEF Digest, Content
  <2>5. artifacts'[mine].digest = snapshots[mine] /\ artifacts'[mine] \in ListedRecord
    <3>1. hour + ArtifactTtl \in Nat
      BY <1>2, ListFacts, ArtifactAssumption
    <3>2. QED
      BY <2>3, <2>4, <3>1 DEF ListedRecord
  <2>6. artifacts' \in [DOMAIN artifacts' -> ListedRecord]
    <3>1. \A t \in DOMAIN artifacts : artifacts[t] \in ListedRecord
      BY <1>2, OldShape
    <3>2. QED
      BY <2>3, <2>5, <3>1
  <2>7. /\ publish' \in [Publishers -> PublishRecord] /\ publish'[p].pc = "idle" /\ publish'[p].token = 0
        /\ \A q \in Publishers : q # p => publish'[q] = publish[q]
    BY <1>1, <1>2, Returns
  <2>8. ~HasToken(p)' /\ \A q \in Publishers : q # p => (HasToken(q)' <=> HasToken(q))
    BY <2>7 DEF HasToken
  <2>9. ListShape'
    <3>1. DOMAIN artifacts' \subseteq 1..issued' /\ unlinking' \cap DOMAIN artifacts' = {}
      BY <1>1, <1>2, <2>2, <2>3, OldShape
    <3>2. QED
      BY <1>1, <1>2, <1>5, <2>6, <2>7, <3>1, OldShape, ShapeKept
  <2>10. TokensOwned'
    <3>1. ASSUME NEW q \in Publishers, HasToken(q)'
          PROVE  /\ publish'[q].token \in 1..issued'
                 /\ publish'[q].token \notin DOMAIN artifacts' \cup unlinking'
                 /\ (publish'[q].token \in DOMAIN snapshots') <=> (publish'[q].pc # "copy")
                 /\ (publish'[q].pc = "hash") => (snapshots'[publish'[q].token] \cap Oversized = {})
      <4>1. q # p /\ HasToken(q) /\ publish'[q] = publish[q]
        BY <2>7, <2>8, <3>1
      <4>2. publish[q].token # mine
        BY <1>2, <1>3, <2>1, <4>1 DEF TokensOwned
      <4>3. QED
        BY <1>1, <1>2, <2>3, <4>1, <4>2 DEF TokensOwned
    <3>2. \A q \in Publishers : ~HasToken(q)' => publish'[q].token = 0
      BY <1>2, <2>7, <2>8 DEF TokensOwned
    <3>3. \A q, r \in Publishers : q # r /\ HasToken(q)' /\ HasToken(r)' => publish'[q].token # publish'[r].token
      BY <1>2, <2>7, <2>8 DEF TokensOwned
    <3>4. QED
      BY <3>1, <3>2, <3>3 DEF TokensOwned
  <2>11. ListedWhole'
    BY <1>1, <1>2, <2>2, <2>3, <2>5 DEF ListedWhole
  <2>12. SendsPromised'
    BY <1>1, <1>2, <2>7, <2>8 DEF SendsPromised
  <2>13. RoomLeft'
    <3>1. p \in Past /\ Past' = Past \ {p}
      BY <1>1, <2>7 DEF Past
    <3>2. QED
      BY <1>2, <2>3, <3>1, RoomTaken
  <2>14. FewOrphans'
    <3>1. SUFFICES ASSUME NEW t \in Orphans' PROVE t \in Orphans
      BY <1>2, <1>5, OrphansKept
    <3>2. t \in DOMAIN snapshots \ (DOMAIN artifacts \cup unlinking) /\ t # mine
      BY <1>1, <2>3 DEF Orphans
    <3>3. \A q \in Publishers : publish[q].pc = "idle" \/ publish[q].token # t
      BY <2>1, <2>7, <3>2 DEF Orphans, Publishing
    <3>4. QED
      BY <3>2, <3>3 DEF Orphans, Publishing
  <2>15. ShutIsEmpty'
    BY <1>1, <1>2 DEF ShutIsEmpty
  <2>16. QED
    BY <2>9, <2>10, <2>11, <2>12, <2>13, <2>14, <2>15 DEF ArtifactInv
<1>6. QED
  BY <1>4, <1>5 DEF List, Works

\* A step that only moves a download, and may prune the list.
LEMMA DownloadMoves ==
  ASSUME ArtifactInv, NEW d \in Downloaders,
         UNCHANGED <<source, shut, hour, root, snapshots, publish, issued>>,
         PruneList \/ UNCHANGED <<artifacts, unlinking>>,
         UNCHANGED artifactFaults \/ Breaks,
         ~shut,
         download' \in [Downloaders -> DownloadRecord],
         \A e \in Downloaders : e # d => download'[e] = download[e],
         download'[d].pc = "sent" => download'[d].got = download'[d].promised,
         download'[d].pc = "send" =>
           /\ download'[d].token \in DOMAIN artifacts
           /\ download'[d].promised = artifacts[download'[d].token].digest
  PROVE  ArtifactInv'
<1>1. ListShape /\ TokensOwned /\ ListedWhole /\ SendsPromised /\ RoomLeft /\ FewOrphans /\ ShutIsEmpty
  BY DEF ArtifactInv
<1>2. /\ artifacts' \in [DOMAIN artifacts' -> ListedRecord]
      /\ DOMAIN artifacts' \subseteq DOMAIN artifacts
      /\ \A t \in DOMAIN artifacts' : artifacts'[t] = artifacts[t]
      /\ DOMAIN artifacts' \cup unlinking' = DOMAIN artifacts \cup unlinking
      /\ unlinking' \cap DOMAIN artifacts' = {} /\ unlinking' \subseteq 1..issued
  BY <1>1, Prunes, OldShape
<1>3. ListShape'
  BY <1>1, <1>2, OldShape, ShapeKept
<1>4. TokensOwned'
  BY <1>2, TokensKept DEF HasToken
<1>5. ListedWhole'
  BY <1>1, <1>2 DEF ListedWhole
<1>6. SendsPromised'
  <2>1. ASSUME NEW e \in Downloaders
        PROVE  /\ download'[e].pc = "sent" => download'[e].got = download'[e].promised
               /\ download'[e].pc = "send" =>
                    /\ download'[e].token \in 1..issued'
                    /\ \A p \in Publishers : HasToken(p)' => publish'[p].token # download'[e].token
                    /\ (download'[e].token \in DOMAIN snapshots') =>
                         (snapshots'[download'[e].token] = download'[e].promised)
    <3>1. CASE e = d
      BY <1>1, <3>1, OldShape DEF TokensOwned, ListedWhole, HasToken
    <3>2. CASE e # d
      BY <1>1, <3>2 DEF SendsPromised, HasToken
    <3>3. QED
      BY <3>1, <3>2
  <2>2. QED
    BY <2>1 DEF SendsPromised
<1>7. RoomLeft'
  <2>1. Past' \subseteq Past
    BY DEF Past
  <2>2. QED
    BY <1>1, <1>2, <2>1, RoomKept
<1>8. FewOrphans'
  <2>1. Orphans' \subseteq Orphans
    BY <1>2 DEF Orphans, Publishing
  <2>2. QED
    BY <1>1, <2>1, OrphansKept
<1>9. ShutIsEmpty'
  BY DEF ShutIsEmpty
<1>10. QED
  BY <1>3, <1>4, <1>5, <1>6, <1>7, <1>8, <1>9 DEF ArtifactInv

LEMMA NoDownloadKept ==
  ASSUME ArtifactInv, NEW d \in Downloaders, download' = [download EXCEPT ![d] = NoDownload]
  PROVE  /\ download' \in [Downloaders -> DownloadRecord] /\ download'[d].pc = "idle"
         /\ \A e \in Downloaders : e # d => download'[e] = download[e]
BY OldShape DEF ArtifactInv, NoDownload, DownloadRecord

LEMMA ResolveInv ==
  ASSUME ArtifactInv, NEW d \in Downloaders, NEW t \in 1..issued, Resolve(d, t)
  PROVE  ArtifactInv'
<1> DEFINE r == [NoDownload EXCEPT !.pc = "look", !.token = t, !.awaits = Overdue]
<1>1. /\ ~shut /\ PruneList /\ download' = [download EXCEPT ![d] = r]
      /\ UNCHANGED <<source, shut, hour, root, snapshots, publish, issued, artifactFaults>>
  BY DEF Resolve, outsideVars, Works
<1>2. ListShape
  BY DEF ArtifactInv
<1>3. r.pc = "look" /\ r \in DownloadRecord
  <2>1. Overdue \in SUBSET Nat /\ t \in Nat
    BY <1>1, <1>2, Prunes, ListFacts
  <2>2. QED
    BY <2>1 DEF NoDownload, DownloadRecord
<1> HIDE DEF r
<1>4. /\ download' \in [Downloaders -> DownloadRecord] /\ download'[d].pc = "look"
      /\ \A e \in Downloaders : e # d => download'[e] = download[e]
  BY <1>1, <1>2, <1>3, OldShape
<1>5. QED
  BY <1>1, <1>4, DownloadMoves

LEMMA LookUpTokenInv ==
  ASSUME ArtifactInv, NEW d \in Downloaders, LookUpToken(d)
  PROVE  ArtifactInv'
<1>1. /\ download[d].pc = "look"
      /\ UNCHANGED <<source, shut, hour, artifacts, unlinking, root, snapshots, publish, issued, artifactFaults>>
  BY DEF LookUpToken, outsideVars, listVars, Works
<1>2. ListShape /\ ~shut
  BY <1>1 DEF ArtifactInv, ShutIsEmpty
<1>3. CASE download[d].token \notin DOMAIN artifacts
  <2>1. download' = [download EXCEPT ![d] = NoDownload]
    BY <1>3 DEF LookUpToken
  <2>2. QED
    BY <1>1, <1>2, <2>1, NoDownloadKept, DownloadMoves
<1>4. CASE download[d].token \in DOMAIN artifacts
  <2>1. download \in [Downloaders -> DownloadRecord] /\ download[d] \in DownloadRecord
    BY <1>2, OldShape
  <2>2. artifacts[download[d].token].digest \in SUBSET Versions
    BY <1>2, <1>4, OldShape DEF ListedRecord
  <2>3. download' = [download EXCEPT ![d].pc = "send", ![d].awaits = {},
                                     ![d].promised = artifacts[download[d].token].digest]
    BY <1>4 DEF LookUpToken
  <2>4. /\ download' \in [Downloaders -> DownloadRecord]
        /\ download'[d].pc = "send" /\ download'[d].token = download[d].token
        /\ download'[d].promised = artifacts[download[d].token].digest
        /\ \A e \in Downloaders : e # d => download'[e] = download[e]
    BY <2>1, <2>2, <2>3 DEF DownloadRecord
  <2>5. QED
    BY <1>1, <1>2, <1>4, <2>4, DownloadMoves
<1>5. QED
  BY <1>3, <1>4

LEMMA SendInv ==
  ASSUME ArtifactInv, NEW d \in Downloaders, Send(d)
  PROVE  ArtifactInv'
<1>1. /\ download[d].pc = "send"
      /\ UNCHANGED <<source, shut, hour, artifacts, unlinking, root, snapshots, publish, issued>>
  BY DEF Send, outsideVars, listVars
<1>2. ListShape /\ SendsPromised /\ ~shut
  BY <1>1 DEF ArtifactInv, ShutIsEmpty
<1>3. CASE /\ download[d].token \in DOMAIN snapshots /\ UNCHANGED artifactFaults
           /\ download' = [download EXCEPT ![d].pc = "sent", ![d].got = snapshots[download[d].token]]
  <2>1. download \in [Downloaders -> DownloadRecord] /\ download[d] \in DownloadRecord
    BY <1>2, OldShape
  <2>2. snapshots[download[d].token] \in SUBSET Versions
    BY <1>2, <1>3, OldShape
  <2>3. snapshots[download[d].token] = download[d].promised
    BY <1>1, <1>2, <1>3 DEF SendsPromised
  <2>4. /\ download' \in [Downloaders -> DownloadRecord] /\ download'[d].pc = "sent"
        /\ download'[d].got = download[d].promised /\ download'[d].promised = download[d].promised
        /\ \A e \in Downloaders : e # d => download'[e] = download[e]
    BY <1>3, <2>1, <2>2, <2>3 DEF DownloadRecord
  <2>5. QED
    BY <1>1, <1>2, <1>3, <2>4, DownloadMoves
<1>4. CASE download' = [download EXCEPT ![d] = NoDownload] /\ (UNCHANGED artifactFaults \/ Breaks)
  BY <1>1, <1>2, <1>4, NoDownloadKept, DownloadMoves
<1>5. QED
  BY <1>3, <1>4 DEF Send, Works

LEMMA CloseInv ==
  ASSUME ArtifactInv, CloseArtifacts
  PROVE  ArtifactInv'
<1>1. /\ shut' = TRUE /\ unlinking = {} /\ \A p \in Publishers : publish[p].pc = "idle"
      /\ \A d \in Downloaders : download[d].pc \in {"idle", "sent"}
      /\ artifacts' = <<>> /\ snapshots' = <<>> /\ root' = "none"
      /\ UNCHANGED <<source, hour, unlinking, publish, download, issued, artifactFaults>>
  BY DEF CloseArtifacts, Works, Publishing
<1>2. ListShape /\ TokensOwned /\ SendsPromised /\ RoomLeft /\ FewOrphans
  BY DEF ArtifactInv
<1>3. /\ DOMAIN artifacts' = {} /\ DOMAIN snapshots' = {}
      /\ artifacts' \in [DOMAIN artifacts' -> ListedRecord]
      /\ snapshots' \in [DOMAIN snapshots' -> SUBSET Versions]
  BY <1>1
<1>4. ListShape'
  BY <1>1, <1>2, <1>3, OldShape, ShapeKept
<1>5. TokensOwned' /\ ListedWhole'
  BY <1>1, <1>2, <1>3 DEF TokensOwned, ListedWhole, HasToken
<1>6. SendsPromised'
  BY <1>1, <1>2 DEF SendsPromised
<1>7. RoomLeft' /\ FewOrphans'
  <2>1. Past' \subseteq Past /\ Orphans' \subseteq Orphans
    BY <1>1, <1>3 DEF Past, Orphans
  <2>2. QED
    BY <1>1, <1>2, <1>3, <2>1, RoomKept, OrphansKept
<1>8. ShutIsEmpty'
  BY <1>1 DEF ShutIsEmpty
<1>9. QED
  BY <1>4, <1>5, <1>6, <1>7, <1>8 DEF ArtifactInv

\* The source is edited, or time passes.
LEMMA OutsideInv ==
  ASSUME ArtifactInv, EditSource \/ Passes \/ UNCHANGED artifactVars
  PROVE  ArtifactInv'
<1>1. /\ UNCHANGED <<artifacts, unlinking, root, snapshots, publish, download, issued, shut, artifactFaults>>
      /\ source' \in Versions \cup {Missing} /\ hour' \in 0..MaxHour
  <2>1. source \in Versions \cup {Missing} /\ hour \in 0..MaxHour /\ MaxHour \in Nat
    BY OldShape, ArtifactAssumption DEF ArtifactInv
  <2>2. QED
    BY <2>1 DEF EditSource, Passes, artifactVars, listVars, Works
<1>2. ListShape /\ TokensOwned /\ ListedWhole /\ SendsPromised /\ RoomLeft /\ FewOrphans /\ ShutIsEmpty
  BY DEF ArtifactInv
<1>3. ListShape'
  BY <1>1, <1>2, OldShape, ShapeKept
<1>4. TokensOwned' /\ ListedWhole' /\ SendsPromised' /\ ShutIsEmpty'
  BY <1>1, <1>2 DEF TokensOwned, ListedWhole, SendsPromised, ShutIsEmpty, HasToken
<1>5. RoomLeft' /\ FewOrphans'
  <2>1. Past' = Past /\ Orphans' = Orphans
    BY <1>1 DEF Past, Orphans, Publishing
  <2>2. QED
    BY <1>1, <1>2, <2>1, RoomKept, OrphansKept
<1>6. QED
  BY <1>3, <1>4, <1>5 DEF ArtifactInv

LEMMA ArtifactsInitInv == ArtifactsInit => ArtifactInv
<1> SUFFICES ASSUME ArtifactsInit PROVE ArtifactInv
  OBVIOUS
<1>1. /\ source \in Versions \cup {Missing} /\ artifacts = <<>> /\ root = "none" /\ snapshots = <<>>
      /\ unlinking = {} /\ issued = 0 /\ shut = FALSE /\ hour = 0 /\ artifactFaults = 0
      /\ publish = [p \in Publishers |-> NoPublish] /\ download = [d \in Downloaders |-> NoDownload]
  BY DEF ArtifactsInit
<1>2. DOMAIN artifacts = {} /\ DOMAIN snapshots = {}
  BY <1>1
<1>3. ListShape
  <2>1. {DOMAIN artifacts, DOMAIN snapshots, unlinking} \subseteq SUBSET (1..issued)
    BY <1>1, <1>2
  <2>2. issued \in 0..MaxTokens /\ hour \in 0..MaxHour /\ artifactFaults \in 0..MaxArtifactFaults
    BY <1>1, ArtifactAssumption
  <2>3. ArtifactsTypeOK
    BY <1>1, <2>1, <2>2 DEF ArtifactsTypeOK
  <2>4. publish \in [Publishers -> PublishRecord] /\ download \in [Downloaders -> DownloadRecord]
    BY <1>1 DEF NoPublish, NoDownload, PublishRecord, DownloadRecord
  <2>5. artifacts \in [DOMAIN artifacts -> [digest : SUBSET Versions, expires : Nat]]
        /\ snapshots \in [DOMAIN snapshots -> SUBSET Versions]
    BY <1>1
  <2>6. QED
    BY <1>1, <2>3, <2>4, <2>5 DEF ListShape
<1>4. /\ \A p \in Publishers : publish[p].pc = "idle" /\ publish[p].token = 0
      /\ \A d \in Downloaders : download[d].pc = "idle"
  BY <1>1 DEF NoPublish, NoDownload
<1>5. TokensOwned /\ ListedWhole /\ SendsPromised /\ ShutIsEmpty
  BY <1>1, <1>2, <1>4 DEF TokensOwned, ListedWhole, SendsPromised, ShutIsEmpty, HasToken
<1>6. Past = {} /\ Orphans = {}
  BY <1>2, <1>4 DEF Past, Orphans
<1>7. RoomLeft /\ FewOrphans
  <2>1. Cardinality(Past) = 0 /\ Cardinality(Orphans) = 0 /\ Cardinality(DOMAIN artifacts) = 0
    BY <1>2, <1>6, FS_EmptySet
  <2>2. Cardinality(Publishers) \in Nat /\ MaxActive \in Nat \ {0}
    BY <1>3, TokensAreFinite, ArtifactAssumption
  <2>3. QED
    BY <1>1, <2>1, <2>2 DEF RoomLeft, FewOrphans
<1>8. QED
  BY <1>3, <1>5, <1>7 DEF ArtifactInv

\* What a token lists is whole, within the limit and has the hash that was answered; a
\* download gets it or fails; the list exceeds its capacity by less than the number of
\* calls; and what no token leads to was left by a call to the file system that failed.
THEOREM SnapshotsAreWholeThm == ArtifactsSpec => []SnapshotsAreWhole
<1>1. ASSUME ArtifactInv, [ArtifactsNext]_artifactVars
      PROVE  ArtifactInv'
  <2>1. CASE Cleanup
    BY <1>1, <2>1, CleanupInv
  <2>2. CASE CloseArtifacts
    BY <1>1, <2>2, CloseInv
  <2>3. CASE EditSource \/ Passes \/ UNCHANGED artifactVars
    BY <1>1, <2>3, OutsideInv
  <2>4. CASE \E t \in 1..issued : RemoveSnapshot(t)
    BY <1>1, <2>4, RemoveSnapshotInv
  <2>5. CASE \E p \in Publishers : Begin(p) \/ Check(p) \/ Lstat(p) \/ OpenCopy(p)
    BY <1>1, <2>5, BeginInv, CheckInv, LstatInv, OpenCopyInv
  <2>6. CASE \E p \in Publishers : EndCopy(p) \/ StatSnapshot(p) \/ List(p)
    BY <1>1, <2>6, EndCopyInv, StatSnapshotInv, ListInv
  <2>7. CASE \E d \in Downloaders : LookUpToken(d) \/ Send(d) \/ \E t \in 1..issued : Resolve(d, t)
    BY <1>1, <2>7, LookUpTokenInv, SendInv, ResolveInv
  <2>8. QED
    BY <1>1, <2>1, <2>2, <2>3, <2>4, <2>5, <2>6, <2>7 DEF ArtifactsNext
<1>2. ArtifactInv => SnapshotsAreWhole
  <2>1. SUFFICES ASSUME ArtifactInv PROVE SnapshotsAreWhole
    OBVIOUS
  <2>2. ListShape /\ TokensOwned /\ ListedWhole /\ SendsPromised /\ RoomLeft /\ FewOrphans /\ ShutIsEmpty
    BY <2>1 DEF ArtifactInv
  <2>3. Cardinality(DOMAIN artifacts) < MaxActive + Cardinality(Publishers)
    <3>1. Cardinality(DOMAIN artifacts) \in Nat /\ Cardinality(Publishers) \in Nat /\ MaxActive \in Nat
      BY <2>2, TokensAreFinite, ListFacts, ArtifactAssumption
    <3>2. Cardinality(Past) \in Nat
      BY <2>2, TokensAreFinite DEF Past
    <3>3. QED
      BY <2>2, <3>1, <3>2 DEF RoomLeft
  <2>4. \A t \in DOMAIN artifacts :
          /\ t \in DOMAIN snapshots \ unlinking /\ snapshots[t] = artifacts[t].digest
          /\ snapshots[t] \cap Oversized = {}
    BY <2>2 DEF ListedWhole, ListShape
  <2>5. QED
    BY <2>2, <2>3, <2>4 DEF SnapshotsAreWhole, ListShape, SendsPromised, FewOrphans, ShutIsEmpty
<1>3. QED
  BY ArtifactsInitInv, <1>1, <1>2, PTL DEF ArtifactsSpec

-----------------------------------------------------------------------------
(* Moves: the inductive invariant. Two calls on one destination may undo     *)
(* each other (MCFileMoves.cfg); what a call set aside is safe from all of   *)
(* them, and its destination is as it left it while no other call has it.    *)

MoveRecord ==
  [pc : {"idle", "look", "aside", "rename", "copy", "remove", "uncopy",
         "clear", "putback", "moved", "failed", "done"},
   from : Sources, to : Destinations,
   overwrite : BOOLEAN, aside : BOOLEAN, partial : BOOLEAN, broken : BOOLEAN]

\* What the call found is in its backup, or it found nothing.
BackedUp(c) ==
  /\ move[c].aside => tree[AsideOf(c)] = kept[c]
  /\ ~move[c].aside => kept[c] = None

CallOK(c) ==
  /\ move[c].pc \in {"idle", "look", "aside"} => ~move[c].aside /\ tree[AsideOf(c)] = None
  /\ move[c].pc \in {"rename", "copy", "remove", "uncopy", "clear", "putback", "moved"} => BackedUp(c)
  /\ move[c].pc \in {"copy", "remove", "uncopy"} => move[c].partial

\* The destination of a call that is the only one there.
AloneOK(c) ==
  Alone(c) =>
    /\ move[c].pc \in {"rename", "copy"} => Dst(c) = None
    /\ On(c, "clear") /\ ~move[c].aside /\ ~move[c].partial => Dst(c) = None
    /\ On(c, "putback") /\ ~move[c].aside => Dst(c) = None \/ move[c].broken

Trees == SUBSET (Paths \X Pieces)

MovesShape ==
  /\ tree \in [Places -> Trees] /\ remote \subseteq Sources /\ moveFaults \in 0..MaxMoveFaults
  /\ move \in [Movers -> MoveRecord] /\ kept \in [Movers -> Trees]

MovesInv == MovesShape /\ \A c \in Movers : CallOK(c) /\ AloneOK(c)

\* What a step of a call leaves alone.
StepOf(c) ==
  /\ move'[c].to = move[c].to /\ move'[c].pc # "idle"
  /\ \A d \in Movers \ {c} : move'[d] = move[d] /\ kept'[d] = kept[d]
  /\ \A q \in Places \ {move[c].from, move[c].to, AsideOf(c)} : tree'[q] = tree[q]

\* The places of a call are three.
LEMMA PlacesOf ==
  ASSUME MovesShape, NEW c \in Movers
  PROVE  /\ move[c] \in MoveRecord /\ kept[c] \in Trees
         /\ move[c].from \in Places /\ move[c].to \in Places /\ AsideOf(c) \in Places
         /\ move[c].from # move[c].to /\ move[c].from # AsideOf(c) /\ move[c].to # AsideOf(c)
         /\ Src(c) \in Trees /\ Dst(c) \in Trees /\ tree[AsideOf(c)] \in Trees
<1>1. move[c] \in MoveRecord /\ kept[c] \in Trees
  BY DEF MovesShape
<1>2. move[c].from \in Sources /\ move[c].to \in Destinations
  BY <1>1 DEF MoveRecord
<1>3. AsideOf(c) \notin Sources \cup Destinations /\ Sources \cap Destinations = {}
  BY MovesAssumption DEF AsideOf
<1>4. move[c].from \in Places /\ move[c].to \in Places /\ AsideOf(c) \in Places
  BY <1>2 DEF Places, Paths
<1>5. Src(c) \in Trees /\ Dst(c) \in Trees /\ tree[AsideOf(c)] \in Trees
  BY <1>4 DEF MovesShape, Src, Dst
<1>6. QED
  BY <1>1, <1>2, <1>3, <1>4, <1>5

\* A call moves on: its record, with the step and the flags that it sets.
LEMMA GoesFacts ==
  ASSUME MovesShape, NEW c \in Movers,
         NEW pc \in {"rename", "aside", "failed", "moved", "copy", "clear", "remove", "uncopy", "putback", "done"},
         Goes(c, pc)
  PROVE  /\ move' \in [Movers -> MoveRecord] /\ move'[c].pc = pc
         /\ move'[c].from = move[c].from /\ move'[c].to = move[c].to /\ move'[c].aside = move[c].aside
         /\ move'[c].partial = move[c].partial /\ move'[c].broken = move[c].broken
         /\ \A d \in Movers : d # c => move'[d] = move[d]
<1>1. move \in [Movers -> MoveRecord] /\ move[c] \in MoveRecord
  BY PlacesOf DEF MovesShape
<1>2. move' = [move EXCEPT ![c].pc = pc]
  BY DEF Goes
<1>3. QED
  BY <1>1, <1>2 DEF MoveRecord

LEMMA PutsFacts ==
  ASSUME MovesShape, NEW q \in Places, NEW t \in Trees, Puts(q, t)
  PROVE  /\ tree' \in [Places -> Trees] /\ tree'[q] = t
         /\ \A r \in Places : r # q => tree'[r] = tree[r]
BY DEF MovesShape, Puts

LEMMA MovesFacts ==
  ASSUME MovesShape, NEW q \in Places, NEW r \in Places, q # r, Moves(q, r)
  PROVE  /\ tree' \in [Places -> Trees] /\ tree'[q] = None /\ tree'[r] = tree[q]
         /\ \A s \in Places : s # q /\ s # r => tree'[s] = tree[s]
<1>1. None \in Trees
  BY DEF None, Trees
<1>2. tree \in [Places -> Trees] /\ tree[q] \in Trees
  BY DEF MovesShape
<1>3. QED
  BY <1>1, <1>2 DEF Moves

LEMMA FaultsKept ==
  ASSUME MovesShape, Sound \/ Fault
  PROVE  moveFaults' \in 0..MaxMoveFaults
BY MovesAssumption DEF MovesShape, Sound, Fault

\* A call that is alone after another one's step was so before.
LEMMA AloneBefore ==
  ASSUME NEW c \in Movers, ~On(c, "idle"), StepOf(c), NEW d \in Movers, Alone(d)'
  PROVE  Alone(d) /\ (d # c => move[d].to # move[c].to)
BY DEF StepOf, Alone, On

\* The other calls keep what they have.
LEMMA OthersKept ==
  ASSUME MovesInv, NEW c \in Movers, ~On(c, "idle"), StepOf(c), NEW d \in Movers, d # c
  PROVE  CallOK(d)' /\ AloneOK(d)'
<1>1. move'[d] = move[d] /\ kept'[d] = kept[d] /\ CallOK(d) /\ AloneOK(d) /\ MovesShape
  BY DEF StepOf, MovesInv
<1>2. move[d].to \in Destinations /\ move[c].to \in Destinations /\ move[c].from \in Sources
      /\ Sources \cap Destinations = {}
  BY <1>1, PlacesOf, MovesAssumption DEF MoveRecord
<1>3. AsideOf(d) # AsideOf(c) /\ AsideOf(d) # move[c].to /\ AsideOf(d) # move[c].from /\ AsideOf(c) # move[d].to
  BY <1>2, MovesAssumption DEF AsideOf
<1>4. tree'[AsideOf(d)] = tree[AsideOf(d)]
  BY <1>1, <1>3, PlacesOf DEF StepOf
<1>5. BackedUp(d)' <=> BackedUp(d)
  BY <1>1, <1>4 DEF BackedUp, AsideOf
<1>6. CallOK(d)'
  BY <1>1, <1>4, <1>5 DEF CallOK, AsideOf
<1>7. ASSUME Alone(d)' PROVE Alone(d) /\ Dst(d)' = Dst(d)
  <2>1. Alone(d) /\ move[d].to # move[c].to
    BY <1>7, AloneBefore
  <2>2. tree'[move[d].to] = tree[move[d].to]
    BY <1>1, <1>2, <1>3, <2>1, PlacesOf DEF StepOf
  <2>3. QED
    BY <1>1, <2>1, <2>2 DEF Dst
<1>8. AloneOK(d)'
  BY <1>1, <1>7 DEF AloneOK, On
<1>9. QED
  BY <1>6, <1>8

\* A step in which the call goes on, the tree has its type, and the rest is as it was.
LEMMA StepKept ==
  ASSUME MovesInv, NEW c \in Movers, ~On(c, "idle"),
         tree' \in [Places -> Trees], UNCHANGED remote, Sound \/ Fault,
         move' \in [Movers -> MoveRecord], kept' \in [Movers -> Trees],
         StepOf(c), CallOK(c)', AloneOK(c)'
  PROVE  MovesInv'
<1>1. MovesShape'
  BY FaultsKept DEF MovesInv, MovesShape
<1>2. \A d \in Movers : CallOK(d)' /\ AloneOK(d)'
  BY OthersKept
<1>3. QED
  BY <1>1, <1>2 DEF MovesInv

LEMMA StartMoveInv ==
  ASSUME MovesInv, NEW c \in Movers, NEW s \in Sources, NEW d \in Destinations, NEW overwrite \in BOOLEAN,
         StartMove(c, s, d, overwrite)
  PROVE  MovesInv'
<1> DEFINE r == [NoMove EXCEPT !.pc = "look", !.from = s, !.to = d, !.overwrite = overwrite]
<1>1. /\ move' = [move EXCEPT ![c] = r] /\ kept' = [kept EXCEPT ![c] = None]
      /\ UNCHANGED <<tree, remote, moveFaults>>
  BY DEF StartMove, Sound
<1>2. r.pc = "look" /\ r.aside = FALSE /\ r \in MoveRecord
  BY DEF NoMove, MoveRecord
<1> HIDE DEF r
<1>3. MovesShape /\ move \in [Movers -> MoveRecord] /\ kept \in [Movers -> Trees] /\ None \in Trees
  BY DEF MovesInv, MovesShape, None, Trees
<1>4. /\ move' \in [Movers -> MoveRecord] /\ move'[c].pc = "look" /\ move'[c].aside = FALSE
      /\ kept' \in [Movers -> Trees]
      /\ \A e \in Movers : e # c => move'[e] = move[e] /\ kept'[e] = kept[e]
  BY <1>1, <1>2, <1>3
<1>5. MovesShape'
  BY <1>1, <1>3, <1>4 DEF MovesShape
<1>6. CallOK(c)' /\ AloneOK(c)'
  <2>1. CallOK(c) /\ On(c, "idle") /\ tree' = tree
    BY <1>1 DEF StartMove, MovesInv
  <2>2. tree'[AsideOf(c)] = None
    BY <2>1 DEF CallOK, On
  <2>3. QED
    BY <1>4, <2>2 DEF CallOK, AloneOK, On, AsideOf
<1>7. ASSUME NEW e \in Movers, e # c PROVE CallOK(e)' /\ AloneOK(e)'
  <2>1. CallOK(e) /\ AloneOK(e) /\ move'[e] = move[e] /\ kept'[e] = kept[e] /\ tree' = tree
    BY <1>1, <1>4, <1>7 DEF MovesInv
  <2>2. CallOK(e)'
    BY <2>1 DEF CallOK, BackedUp, On, AsideOf
  <2>3. Alone(e)' => Alone(e)
    <3>1. On(c, "idle")
      BY DEF StartMove
    <3>2. QED
      BY <1>4, <2>1, <3>1 DEF Alone, On
  <2>4. Dst(e)' = Dst(e)
    BY <2>1 DEF Dst
  <2>5. QED
    BY <2>1, <2>2, <2>3, <2>4 DEF AloneOK, On
<1>8. QED
  BY <1>5, <1>6, <1>7 DEF MovesInv

LEMMA LookInv ==
  ASSUME MovesInv, NEW c \in Movers, Look(c)
  PROVE  MovesInv'
<1>1. /\ On(c, "look") /\ ~On(c, "idle") /\ kept' = [kept EXCEPT ![c] = Dst(c)]
      /\ UNCHANGED <<tree, remote>> /\ (Sound \/ Fault)
  BY DEF Look, On
<1>2. MovesShape /\ ~move[c].aside /\ tree[AsideOf(c)] = None /\ tree \in [Places -> Trees]
      /\ kept \in [Movers -> Trees]
  BY <1>1 DEF MovesInv, CallOK, MovesShape, On
<1>3. PICK pc \in {"rename", "aside", "failed"} : Goes(c, pc) /\ (pc = "rename" => Dst(c) = None)
  BY DEF Look
<1>4. /\ move' \in [Movers -> MoveRecord] /\ move'[c].pc = pc
      /\ move'[c].to = move[c].to /\ move'[c].aside = move[c].aside
      /\ \A d \in Movers : d # c => move'[d] = move[d]
  BY <1>2, <1>3, GoesFacts
<1>5. /\ kept' \in [Movers -> Trees] /\ kept'[c] = Dst(c)
      /\ \A d \in Movers : d # c => kept'[d] = kept[d]
  BY <1>1, <1>2, PlacesOf
<1>6. Dst(c)' = Dst(c) /\ tree'[AsideOf(c)] = None
  BY <1>1, <1>2, <1>4 DEF Dst
<1>7. CallOK(c)'
  BY <1>2, <1>3, <1>4, <1>5, <1>6 DEF CallOK, BackedUp, AsideOf
<1>8. AloneOK(c)'
  BY <1>3, <1>4, <1>6 DEF AloneOK, On
<1>9. StepOf(c)
  BY <1>1, <1>4, <1>5 DEF StepOf
<1>10. QED
  BY <1>1, <1>2, <1>4, <1>5, <1>7, <1>8, <1>9, StepKept

LEMMA SetAsideInv ==
  ASSUME MovesInv, NEW c \in Movers, SetAside(c)
  PROVE  MovesInv'
<1>1. /\ On(c, "aside") /\ ~On(c, "idle") /\ kept' = [kept EXCEPT ![c] = Dst(c)]
      /\ UNCHANGED remote /\ (Sound \/ Fault)
  BY DEF SetAside, On
<1>2. MovesShape /\ tree[AsideOf(c)] = None /\ move \in [Movers -> MoveRecord]
      /\ kept \in [Movers -> Trees] /\ tree \in [Places -> Trees]
  BY <1>1 DEF MovesInv, CallOK, MovesShape, On
<1>3. /\ kept' \in [Movers -> Trees] /\ kept'[c] = Dst(c)
      /\ \A d \in Movers : d # c => kept'[d] = kept[d]
  BY <1>1, <1>2, PlacesOf
<1>4. CASE /\ Moves(move[c].to, AsideOf(c)) \/ (Dst(c) = None /\ UNCHANGED tree)
           /\ move' = [move EXCEPT ![c].pc = "rename", ![c].aside = TRUE]
  <2>1. /\ tree' \in [Places -> Trees] /\ tree'[move[c].to] = None /\ tree'[AsideOf(c)] = Dst(c)
        /\ \A s \in Places : s # move[c].to /\ s # AsideOf(c) => tree'[s] = tree[s]
    <3>1. CASE Moves(move[c].to, AsideOf(c))
      BY <1>2, <3>1, PlacesOf, MovesFacts DEF Dst
    <3>2. CASE Dst(c) = None /\ UNCHANGED tree
      BY <1>2, <3>2 DEF Dst
    <3>3. QED
      BY <1>4, <3>1, <3>2
  <2>2. /\ move' \in [Movers -> MoveRecord] /\ move'[c].pc = "rename" /\ move'[c].aside = TRUE
        /\ move'[c].to = move[c].to /\ \A d \in Movers : d # c => move'[d] = move[d]
    <3> DEFINE r == [move[c] EXCEPT !.pc = "rename", !.aside = TRUE]
    <3>1. r \in MoveRecord /\ r.pc = "rename" /\ r.aside = TRUE /\ r.to = move[c].to
      BY <1>2, PlacesOf DEF MoveRecord
    <3>2. move' = [move EXCEPT ![c] = r]
      BY <1>2, <1>4
    <3> HIDE DEF r
    <3>3. QED
      BY <1>2, <3>1, <3>2
  <2>3. Dst(c)' = None
    BY <2>1, <2>2 DEF Dst
  <2>4. BackedUp(c)'
    BY <1>3, <2>1, <2>2 DEF BackedUp, AsideOf
  <2>5. CallOK(c)' /\ AloneOK(c)'
    BY <2>2, <2>3, <2>4 DEF CallOK, AloneOK, On
  <2>6. StepOf(c)
    BY <1>3, <2>1, <2>2 DEF StepOf
  <2>7. QED
    BY <1>1, <1>3, <2>1, <2>2, <2>5, <2>6, StepKept
<1>5. CASE Goes(c, "failed") /\ UNCHANGED tree
  <2>1. /\ move' \in [Movers -> MoveRecord] /\ move'[c].pc = "failed" /\ move'[c].to = move[c].to
        /\ \A d \in Movers : d # c => move'[d] = move[d]
    BY <1>2, <1>5, GoesFacts
  <2>2. CallOK(c)' /\ AloneOK(c)'
    BY <2>1 DEF CallOK, AloneOK, On
  <2>3. StepOf(c)
    BY <1>3, <1>5, <2>1 DEF StepOf
  <2>4. QED
    BY <1>1, <1>2, <1>3, <1>5, <2>1, <2>2, <2>3, StepKept
<1>6. QED
  BY <1>4, <1>5 DEF SetAside

\* A step that leaves kept alone; where it may leave the destination, and at which step.
LEMMA GoesKept ==
  ASSUME MovesInv, NEW c \in Movers, ~On(c, "idle"), UNCHANGED <<kept, remote>>, Sound \/ Fault,
         tree' \in [Places -> Trees], move' \in [Movers -> MoveRecord],
         \A d \in Movers : d # c => move'[d] = move[d],
         move'[c].to = move[c].to, move'[c].aside = move[c].aside,
         move'[c].pc \in {"copy", "remove", "uncopy", "clear", "putback", "moved", "done"},
         \A q \in Places \ {move[c].from, move[c].to} :
            tree'[q] = tree[q] \/ (q = AsideOf(c) /\ move'[c].pc = "done"),
         BackedUp(c),
         move'[c].pc \in {"copy", "remove", "uncopy"} => move'[c].partial,
         Alone(c) => /\ move'[c].pc = "copy" => tree'[move[c].to] = None
                     /\ move'[c].pc = "clear" /\ ~move[c].aside /\ ~move'[c].partial
                        => tree'[move[c].to] = None
                     /\ move'[c].pc = "putback" /\ ~move[c].aside
                        => tree'[move[c].to] = None \/ move'[c].broken
  PROVE  MovesInv'
<1>1. MovesShape
  BY DEF MovesInv
<1>2. StepOf(c)
  BY DEF StepOf
<1>3. Dst(c)' = tree'[move[c].to]
  BY DEF Dst
<1>4. move'[c].pc # "done" => BackedUp(c)'
  <2>1. SUFFICES ASSUME move'[c].pc # "done" PROVE BackedUp(c)'
    OBVIOUS
  <2>2. tree'[AsideOf(c)] = tree[AsideOf(c)]
    BY <1>1, <2>1, PlacesOf
  <2>3. QED
    BY <2>1, <2>2 DEF BackedUp, AsideOf
<1>5. CallOK(c)'
  BY <1>4 DEF CallOK
<1>6. AloneOK(c)'
  <2>1. Alone(c)' => Alone(c)
    BY <1>2, AloneBefore
  <2>2. QED
    BY <1>3, <2>1 DEF AloneOK, On
<1>7. kept' \in [Movers -> Trees]
  BY <1>1 DEF MovesShape
<1>8. QED
  BY <1>2, <1>5, <1>6, <1>7, StepKept

LEMMA RenameInv ==
  ASSUME MovesInv, NEW c \in Movers, Rename(c)
  PROVE  MovesInv'
<1>1. On(c, "rename") /\ UNCHANGED <<remote, kept>> /\ (Sound \/ Fault)
  BY DEF Rename
<1>2. MovesShape /\ BackedUp(c) /\ (Alone(c) => Dst(c) = None) /\ ~On(c, "idle")
      /\ tree \in [Places -> Trees] /\ move \in [Movers -> MoveRecord]
  BY <1>1 DEF MovesInv, CallOK, AloneOK, MovesShape, On
<1>3. CASE Moves(move[c].from, move[c].to) /\ Goes(c, "moved")
  <2>1. /\ tree' \in [Places -> Trees]
        /\ \A s \in Places : s # move[c].from /\ s # move[c].to => tree'[s] = tree[s]
    BY <1>2, <1>3, PlacesOf, MovesFacts
  <2>2. /\ move' \in [Movers -> MoveRecord] /\ move'[c].pc = "moved"
        /\ move'[c].to = move[c].to /\ move'[c].aside = move[c].aside
        /\ \A d \in Movers : d # c => move'[d] = move[d]
    BY <1>2, <1>3, GoesFacts
  <2>3. QED
    BY <1>1, <1>2, <2>1, <2>2, GoesKept
<1>4. CASE UNCHANGED tree /\ move' = [move EXCEPT ![c].pc = "copy", ![c].partial = TRUE]
  <2>1. /\ move' \in [Movers -> MoveRecord] /\ move'[c].pc = "copy" /\ move'[c].partial = TRUE
        /\ move'[c].to = move[c].to /\ move'[c].aside = move[c].aside
        /\ \A d \in Movers : d # c => move'[d] = move[d]
    BY <1>2, <1>4, PlacesOf DEF MoveRecord
  <2>2. Alone(c) => tree'[move[c].to] = None
    BY <1>2, <1>4 DEF Dst
  <2>3. QED
    BY <1>1, <1>2, <1>4, <2>1, <2>2, GoesKept
<1>5. CASE UNCHANGED tree /\ Goes(c, "clear")
  <2>1. /\ move' \in [Movers -> MoveRecord] /\ move'[c].pc = "clear"
        /\ move'[c].to = move[c].to /\ move'[c].aside = move[c].aside
        /\ \A d \in Movers : d # c => move'[d] = move[d]
    BY <1>2, <1>5, GoesFacts
  <2>2. Alone(c) => tree'[move[c].to] = None
    BY <1>2, <1>5 DEF Dst
  <2>3. QED
    BY <1>1, <1>2, <1>5, <2>1, <2>2, GoesKept
<1>6. QED
  BY <1>3, <1>4, <1>5 DEF Rename

LEMMA PartOf ==
  ASSUME NEW whole \in Trees, NEW part \in SUBSET whole
  PROVE  part \in Trees
BY DEF Trees

LEMMA CopyInv ==
  ASSUME MovesInv, NEW c \in Movers, Copy(c)
  PROVE  MovesInv'
<1>1. On(c, "copy") /\ UNCHANGED <<remote, kept>> /\ (Sound \/ Fault)
  BY DEF Copy
<1>2. MovesShape /\ BackedUp(c) /\ move[c].partial /\ ~On(c, "idle")
      /\ tree \in [Places -> Trees]
  BY <1>1 DEF MovesInv, CallOK, MovesShape, On
<1>3. PICK t \in Trees, pc \in {"remove", "clear"} :
        Goes(c, pc) /\ (Puts(move[c].to, t) \/ UNCHANGED tree)
  <2>1. CASE Puts(move[c].to, Src(c)) /\ Goes(c, "remove")
    BY <1>2, <2>1, PlacesOf
  <2>2. CASE UNCHANGED tree /\ Goes(c, "clear")
    BY <1>2, <2>2, PlacesOf
  <2>3. CASE (\E part \in SUBSET Src(c) : Puts(move[c].to, part)) /\ Goes(c, "clear")
    BY <1>2, <2>3, PlacesOf, PartOf
  <2>4. QED
    BY <2>1, <2>2, <2>3 DEF Copy
<1>4. /\ move' \in [Movers -> MoveRecord] /\ move'[c].pc = pc /\ move'[c].partial
      /\ move'[c].to = move[c].to /\ move'[c].aside = move[c].aside
      /\ \A d \in Movers : d # c => move'[d] = move[d]
  BY <1>2, <1>3, GoesFacts
<1>5. tree' \in [Places -> Trees] /\ \A s \in Places : s # move[c].to => tree'[s] = tree[s]
  BY <1>2, <1>3, PlacesOf, PutsFacts
<1>6. QED
  BY <1>1, <1>2, <1>3, <1>4, <1>5, GoesKept

LEMMA RemoveSourceInv ==
  ASSUME MovesInv, NEW c \in Movers, RemoveSource(c)
  PROVE  MovesInv'
<1>1. On(c, "remove") /\ UNCHANGED <<remote, kept>> /\ (Sound \/ Fault)
  BY DEF RemoveSource
<1>2. MovesShape /\ BackedUp(c) /\ move[c].partial /\ ~On(c, "idle")
  BY <1>1 DEF MovesInv, CallOK, On
<1>3. PICK t \in Trees, pc \in {"moved", "uncopy"} : Goes(c, pc) /\ Puts(move[c].from, t)
  <2>1. None \in Trees
    BY DEF None, Trees
  <2>2. CASE Puts(move[c].from, None) /\ Goes(c, "moved")
    BY <2>1, <2>2
  <2>3. CASE (\E part \in SUBSET Src(c) : Puts(move[c].from, part)) /\ Goes(c, "uncopy")
    BY <1>2, <2>3, PlacesOf, PartOf
  <2>4. QED
    BY <2>2, <2>3 DEF RemoveSource
<1>4. /\ move' \in [Movers -> MoveRecord] /\ move'[c].pc = pc /\ move'[c].partial
      /\ move'[c].to = move[c].to /\ move'[c].aside = move[c].aside
      /\ \A d \in Movers : d # c => move'[d] = move[d]
  BY <1>2, <1>3, GoesFacts
<1>5. tree' \in [Places -> Trees] /\ \A s \in Places : s # move[c].from => tree'[s] = tree[s]
  BY <1>2, <1>3, PlacesOf, PutsFacts
<1>6. QED
  BY <1>1, <1>2, <1>3, <1>4, <1>5, GoesKept

\* rm() of the destination: it is gone, or the failure is noted if the caller notes it.
LEMMA RemovalFacts ==
  ASSUME MovesShape, NEW c \in Movers, NEW pc \in {"clear", "putback"}, NEW broken \in BOOLEAN,
         Removal(c, pc, broken)
  PROVE  /\ move' \in [Movers -> MoveRecord] /\ move'[c].pc = pc /\ move'[c].partial = move[c].partial
         /\ move'[c].to = move[c].to /\ move'[c].aside = move[c].aside
         /\ \A d \in Movers : d # c => move'[d] = move[d]
         /\ tree' \in [Places -> Trees] /\ \A s \in Places : s # move[c].to => tree'[s] = tree[s]
         /\ tree'[move[c].to] = None \/ move'[c].broken = broken
         /\ Sound \/ Fault
<1>1. None \in Trees
  BY DEF None, Trees
<1>2. CASE Puts(move[c].to, None) /\ Goes(c, pc) /\ Sound
  BY <1>1, <1>2, GoesFacts, PlacesOf, PutsFacts
<1>3. CASE /\ (\E part \in SUBSET Dst(c) : Puts(move[c].to, part)) /\ Fault
           /\ move' = [move EXCEPT ![c].pc = pc, ![c].broken = broken]
  <2>1. PICK t \in Trees : Puts(move[c].to, t)
    BY <1>3, PlacesOf, PartOf
  <2>2. move \in [Movers -> MoveRecord] /\ move[c] \in MoveRecord
    BY PlacesOf DEF MovesShape
  <2>3. /\ move' \in [Movers -> MoveRecord] /\ move'[c].pc = pc /\ move'[c].partial = move[c].partial
        /\ move'[c].to = move[c].to /\ move'[c].aside = move[c].aside /\ move'[c].broken = broken
        /\ \A d \in Movers : d # c => move'[d] = move[d]
    BY <1>3, <2>2 DEF MoveRecord
  <2>4. QED
    BY <1>3, <2>1, <2>3, PlacesOf, PutsFacts
<1>4. QED
  BY <1>2, <1>3 DEF Removal

LEMMA UndoCopyInv ==
  ASSUME MovesInv, NEW c \in Movers, UndoCopy(c)
  PROVE  MovesInv'
<1> DEFINE broken == move[c].broken
<1>1. On(c, "uncopy") /\ UNCHANGED <<remote, kept>> /\ Removal(c, "clear", broken)
  BY DEF UndoCopy
<1>2. MovesShape /\ BackedUp(c) /\ move[c].partial /\ ~On(c, "idle")
  BY <1>1 DEF MovesInv, CallOK, On
<1>3. broken \in BOOLEAN
  BY <1>2, PlacesOf DEF MoveRecord
<1> HIDE DEF broken
<1>4. /\ move' \in [Movers -> MoveRecord] /\ move'[c].pc = "clear" /\ move'[c].partial = move[c].partial
      /\ move'[c].to = move[c].to /\ move'[c].aside = move[c].aside
      /\ \A d \in Movers : d # c => move'[d] = move[d]
      /\ tree' \in [Places -> Trees] /\ \A s \in Places : s # move[c].to => tree'[s] = tree[s]
      /\ Sound \/ Fault
  BY <1>1, <1>2, <1>3, RemovalFacts
<1>5. QED
  BY <1>1, <1>2, <1>4, GoesKept

LEMMA ClearDestinationInv ==
  ASSUME MovesInv, NEW c \in Movers, ClearDestination(c)
  PROVE  MovesInv'
<1>1. On(c, "clear") /\ UNCHANGED <<remote, kept>>
  BY DEF ClearDestination
<1>2. MovesShape /\ BackedUp(c) /\ ~On(c, "idle") /\ tree \in [Places -> Trees]
      /\ (Alone(c) /\ ~move[c].aside /\ ~move[c].partial => Dst(c) = None)
  BY <1>1 DEF MovesInv, CallOK, AloneOK, On, MovesShape
<1>3. CASE Removal(c, "putback", TRUE)
  <2> DEFINE yes == TRUE
  <2>1. yes \in BOOLEAN /\ Removal(c, "putback", yes) /\ yes
    BY <1>3
  <2> HIDE DEF yes
  <2>2. /\ move' \in [Movers -> MoveRecord] /\ move'[c].pc = "putback"
        /\ move'[c].to = move[c].to /\ move'[c].aside = move[c].aside
        /\ \A d \in Movers : d # c => move'[d] = move[d]
        /\ tree' \in [Places -> Trees] /\ \A s \in Places : s # move[c].to => tree'[s] = tree[s]
        /\ tree'[move[c].to] = None \/ move'[c].broken = yes
        /\ Sound \/ Fault
    BY <1>2, <2>1, RemovalFacts
  <2>3. QED
    BY <1>1, <1>2, <2>1, <2>2, GoesKept
<1>4. CASE ~move[c].aside /\ ~move[c].partial /\ Goes(c, "putback") /\ UNCHANGED tree /\ Sound
  <2>1. /\ move' \in [Movers -> MoveRecord] /\ move'[c].pc = "putback"
        /\ move'[c].to = move[c].to /\ move'[c].aside = move[c].aside
        /\ \A d \in Movers : d # c => move'[d] = move[d]
    BY <1>2, <1>4, GoesFacts
  <2>2. Alone(c) => tree'[move[c].to] = None
    BY <1>2, <1>4 DEF Dst
  <2>3. QED
    BY <1>1, <1>2, <1>4, <2>1, <2>2, GoesKept
<1>5. QED
  BY <1>3, <1>4 DEF ClearDestination

\* A rollback that fails is told.
LEMMA RollbackBroken ==
  ASSUME MovesShape, NEW c \in Movers, move' = [move EXCEPT ![c].pc = "failed", ![c].broken = TRUE]
  PROVE  /\ move' \in [Movers -> MoveRecord] /\ move'[c].pc = "failed" /\ move'[c].broken = TRUE
         /\ move'[c].to = move[c].to /\ \A d \in Movers : d # c => move'[d] = move[d]
<1>1. move \in [Movers -> MoveRecord] /\ move[c] \in MoveRecord
  BY PlacesOf DEF MovesShape
<1> DEFINE r == [move[c] EXCEPT !.pc = "failed", !.broken = TRUE]
<1>2. r \in MoveRecord /\ r.pc = "failed" /\ r.broken = TRUE /\ r.to = move[c].to
  BY <1>1 DEF MoveRecord
<1>3. move' = [move EXCEPT ![c] = r]
  BY <1>1
<1> HIDE DEF r
<1>4. QED
  BY <1>1, <1>2, <1>3

\* After a step to the end of a call, only the others matter.
LEMMA OverKept ==
  ASSUME MovesInv, NEW c \in Movers, ~On(c, "idle"), UNCHANGED <<kept, remote>>, Sound \/ Fault,
         tree' \in [Places -> Trees], move' \in [Movers -> MoveRecord],
         move'[c].pc = "failed", move'[c].to = move[c].to, \A d \in Movers : d # c => move'[d] = move[d],
         \A q \in Places \ {move[c].to, AsideOf(c)} : tree'[q] = tree[q]
  PROVE  MovesInv'
<1>1. CallOK(c)' /\ AloneOK(c)'
  BY DEF CallOK, AloneOK, On
<1>2. StepOf(c)
  BY DEF StepOf
<1>3. kept' \in [Movers -> Trees]
  BY DEF MovesInv, MovesShape
<1>4. QED
  BY <1>1, <1>2, <1>3, StepKept

\* The end of a rollback: what was found is back, or in the backup.
PutBackOK(c) ==
  IF kept'[c] # None
  THEN Dst(c)' = kept'[c] \/ (move'[c].broken /\ tree'[AsideOf(c)] = kept'[c])
  ELSE Alone(c) => Dst(c)' = None \/ move'[c].broken

LEMMA PutBackInv ==
  ASSUME MovesInv, NEW c \in Movers, PutBack(c)
  PROVE  MovesInv' /\ PutBackOK(c)
<1>1. On(c, "putback") /\ UNCHANGED <<remote, kept>> /\ (Sound \/ Fault)
  BY DEF PutBack
<1>2. MovesShape /\ BackedUp(c) /\ ~On(c, "idle")
      /\ (Alone(c) /\ ~move[c].aside => Dst(c) = None \/ move[c].broken)
      /\ tree \in [Places -> Trees] /\ move \in [Movers -> MoveRecord] /\ kept \in [Movers -> Trees]
  BY <1>1 DEF MovesInv, CallOK, AloneOK, On, MovesShape
<1>3. CASE ~move[c].aside /\ UNCHANGED tree /\ Goes(c, "failed")
  <2>1. /\ move' \in [Movers -> MoveRecord] /\ move'[c].pc = "failed" /\ move'[c].to = move[c].to
        /\ move'[c].broken = move[c].broken /\ \A d \in Movers : d # c => move'[d] = move[d]
    BY <1>2, <1>3, GoesFacts
  <2>2. kept'[c] = None
    BY <1>1, <1>2, <1>3 DEF BackedUp
  <2>3. Dst(c)' = Dst(c)
    BY <1>3, <2>1 DEF Dst
  <2>4. PutBackOK(c)
    BY <1>2, <1>3, <2>1, <2>2, <2>3 DEF PutBackOK
  <2>5. QED
    BY <1>1, <1>2, <1>3, <2>1, <2>4, OverKept
<1>4. CASE move[c].aside /\ tree[AsideOf(c)] # None /\ Moves(AsideOf(c), move[c].to) /\ Goes(c, "failed")
  <2>1. /\ move' \in [Movers -> MoveRecord] /\ move'[c].pc = "failed" /\ move'[c].to = move[c].to
        /\ \A d \in Movers : d # c => move'[d] = move[d]
    BY <1>2, <1>4, GoesFacts
  <2>2. /\ tree' \in [Places -> Trees] /\ tree'[move[c].to] = tree[AsideOf(c)]
        /\ \A s \in Places : s # AsideOf(c) /\ s # move[c].to => tree'[s] = tree[s]
    BY <1>2, <1>4, PlacesOf, MovesFacts
  <2>3. Dst(c)' = kept'[c] /\ kept'[c] # None
    BY <1>1, <1>2, <1>4, <2>1, <2>2 DEF Dst, BackedUp
  <2>4. PutBackOK(c)
    BY <2>3 DEF PutBackOK
  <2>5. QED
    BY <1>1, <1>2, <2>1, <2>2, <2>4, OverKept
<1>5. CASE move[c].aside /\ UNCHANGED tree /\ move' = [move EXCEPT ![c].pc = "failed", ![c].broken = TRUE]
  <2>1. /\ move' \in [Movers -> MoveRecord] /\ move'[c].pc = "failed" /\ move'[c].broken = TRUE
        /\ move'[c].to = move[c].to /\ \A d \in Movers : d # c => move'[d] = move[d]
    BY <1>2, <1>5, RollbackBroken
  <2>2. tree'[AsideOf(c)] = kept'[c]
    BY <1>1, <1>2, <1>5 DEF BackedUp
  <2>3. PutBackOK(c)
    BY <2>1, <2>2 DEF PutBackOK
  <2>4. QED
    BY <1>1, <1>2, <1>5, <2>1, <2>3, OverKept
<1>6. QED
  BY <1>3, <1>4, <1>5 DEF PutBack

LEMMA DropBackupInv ==
  ASSUME MovesInv, NEW c \in Movers, DropBackup(c)
  PROVE  MovesInv'
<1>1. On(c, "moved") /\ Goes(c, "done") /\ UNCHANGED <<remote, kept>> /\ (Sound \/ Fault)
  BY DEF DropBackup
<1>2. MovesShape /\ BackedUp(c) /\ ~On(c, "idle") /\ tree \in [Places -> Trees]
  BY <1>1 DEF MovesInv, CallOK, On, MovesShape
<1>3. tree' \in [Places -> Trees] /\ \A s \in Places : s # AsideOf(c) => tree'[s] = tree[s]
  <2>1. CASE UNCHANGED tree
    BY <1>2, <2>1
  <2>2. CASE \E t \in Trees : Puts(AsideOf(c), t)
    BY <1>2, <2>2, PlacesOf, PutsFacts
  <2>3. None \in Trees
    BY DEF None, Trees
  <2>4. QED
    BY <1>2, <2>1, <2>2, <2>3, PlacesOf, PartOf DEF DropBackup
<1>4. /\ move' \in [Movers -> MoveRecord] /\ move'[c].pc = "done"
      /\ move'[c].to = move[c].to /\ move'[c].aside = move[c].aside
      /\ \A d \in Movers : d # c => move'[d] = move[d]
  BY <1>1, <1>2, GoesFacts
<1>5. QED
  BY <1>1, <1>2, <1>3, <1>4, GoesKept

LEMMA MovesInitInv == MovesInit => MovesInv
<1> SUFFICES ASSUME MovesInit PROVE MovesInv
  OBVIOUS
<1>1. PICK present \in SUBSET Paths : tree = [p \in Places |-> IF p \in present THEN {p} \X Pieces ELSE None]
  BY DEF MovesInit
<1>2. tree \in [Places -> Trees]
  BY <1>1 DEF Trees, None
<1>3. NoMove \in MoveRecord /\ NoMove.pc = "idle"
  BY MovesAssumption DEF NoMove, MoveRecord
<1>4. MovesShape
  BY <1>2, <1>3, MovesAssumption DEF MovesInit, MovesShape, None, Trees
<1>5. ASSUME NEW c \in Movers PROVE CallOK(c) /\ AloneOK(c)
  <2>1. move[c] = NoMove /\ NoMove.aside = FALSE
    BY DEF MovesInit, NoMove
  <2>2. AsideOf(c) \in Places /\ AsideOf(c) \notin present
    BY MovesAssumption DEF Places, Paths, AsideOf
  <2>3. tree[AsideOf(c)] = None
    BY <1>1, <2>2
  <2>4. QED
    BY <1>3, <2>1, <2>3 DEF CallOK, AloneOK, On
<1>6. QED
  BY <1>4, <1>5 DEF MovesInv

LEMMA MovesStep == MovesInv /\ [MovesNext]_moveVars => MovesInv'
<1> SUFFICES ASSUME MovesInv, [MovesNext]_moveVars PROVE MovesInv'
  OBVIOUS
<1>1. CASE UNCHANGED moveVars
  BY <1>1 DEF moveVars, MovesInv, MovesShape, CallOK, AloneOK, Alone, BackedUp, On, Dst, AsideOf
<1>2. ASSUME NEW c \in Movers,
             \/ \E s \in Sources, d \in Destinations, overwrite \in BOOLEAN : StartMove(c, s, d, overwrite)
             \/ Look(c) \/ SetAside(c) \/ Rename(c) \/ Copy(c) \/ RemoveSource(c) \/ UndoCopy(c)
             \/ ClearDestination(c) \/ PutBack(c) \/ DropBackup(c)
      PROVE  MovesInv'
  BY <1>2, StartMoveInv, LookInv, SetAsideInv, RenameInv, CopyInv, RemoveSourceInv, UndoCopyInv,
     ClearDestinationInv, PutBackInv, DropBackupInv
<1>3. QED
  BY <1>1, <1>2 DEF MovesNext

\* The types of the moves' state, and: what a call has set aside is whole in its backup until
\* it is back or the move is over, whatever the other calls do.
THEOREM BackupIsWholeThm == MovesSpec => []BackupIsWhole
<1>1. MovesInv => BackupIsWhole
  <2>1. SUFFICES ASSUME MovesInv PROVE BackupIsWhole
    OBVIOUS
  <2>2. \A c \in Movers : move[c] \in MoveRecord
    BY <2>1 DEF MovesInv, MovesShape
  <2>3. MovesTypeOK
    BY <2>1, <2>2 DEF MovesInv, MovesShape, MovesTypeOK, MoveRecord, Trees
  <2>4. QED
    BY <2>1, <2>3 DEF MovesInv, CallOK, BackedUp, BackupIsWhole
<1>2. QED
  BY MovesInitInv, MovesStep, <1>1, PTL DEF MovesSpec

\* Only a call's own step ends it in a failure: before its destination was touched, or at the
\* end of its rollback.
LEMMA FailingStep ==
  ASSUME MovesInv, [MovesNext]_moveVars, NEW c \in Movers, ~On(c, "failed"), On(c, "failed")'
  PROVE  PutBackOK(c)
<1>1. MovesShape /\ move \in [Movers -> MoveRecord] /\ kept \in [Movers -> Trees]
  BY DEF MovesInv, MovesShape
<1>2. PICK d \in Movers :
             \/ \E s \in Sources, e \in Destinations, overwrite \in BOOLEAN : StartMove(d, s, e, overwrite)
             \/ Look(d) \/ SetAside(d) \/ Rename(d) \/ Copy(d) \/ RemoveSource(d) \/ UndoCopy(d)
             \/ ClearDestination(d) \/ PutBack(d) \/ DropBackup(d)
  <2>1. ~UNCHANGED moveVars
    BY DEF moveVars, On
  <2>2. QED
    BY <2>1 DEF MovesNext
<1>3. d = c
  <2>1. SUFFICES ASSUME d # c PROVE move'[c] = move[c]
    BY DEF On
  <2>2. \E r : move' = [move EXCEPT ![d] = r]
    BY <1>1, <1>2 DEF StartMove, Look, SetAside, Rename, Copy, RemoveSource, UndoCopy, ClearDestination,
       Removal, PutBack, DropBackup, Goes
  <2>3. QED
    BY <1>1, <2>1, <2>2
<1>4. CASE Look(c) \/ SetAside(c)
  <2>1. kept' = [kept EXCEPT ![c] = Dst(c)]
    BY <1>4 DEF Look, SetAside
  <2>2. UNCHANGED tree /\ Goes(c, "failed")
    <3>1. CASE Look(c)
      BY <1>1, <3>1 DEF Look, Goes, On
    <3>2. CASE SetAside(c)
      <4>1. move' # [move EXCEPT ![c].pc = "rename", ![c].aside = TRUE]
        <5> DEFINE r == [move[c] EXCEPT !.pc = "rename", !.aside = TRUE]
        <5>1. r.pc = "rename"
          BY <1>1, PlacesOf DEF MoveRecord
        <5>2. [move EXCEPT ![c].pc = "rename", ![c].aside = TRUE] = [move EXCEPT ![c] = r]
          BY <1>1
        <5> HIDE DEF r
        <5>3. [move EXCEPT ![c] = r][c].pc # "failed"
          BY <1>1, <5>1
        <5>4. QED
          BY <5>2, <5>3 DEF On
      <4>2. QED
        BY <3>2, <4>1 DEF SetAside
    <3>3. QED
      BY <1>4, <3>1, <3>2
  <2>3. Dst(c)' = Dst(c) /\ kept'[c] = Dst(c)
    BY <1>1, <2>1, <2>2, GoesFacts DEF Dst
  <2>4. QED
    BY <2>3 DEF PutBackOK
<1>5. CASE PutBack(c)
  BY <1>5, PutBackInv
<1>6. CASE \/ \E s \in Sources, e \in Destinations, overwrite \in BOOLEAN : StartMove(c, s, e, overwrite)
           \/ Rename(c) \/ Copy(c) \/ RemoveSource(c) \/ UndoCopy(c) \/ ClearDestination(c) \/ DropBackup(c)
  <2>1. \E pc \in {"look", "moved", "copy", "clear", "remove", "uncopy", "putback", "done"} : move'[c].pc = pc
    <3>1. ASSUME NEW pc \in {"look", "moved", "copy", "clear", "remove", "uncopy", "putback", "done"},
                 \/ Goes(c, pc)
                 \/ \E r : r.pc = pc /\ move' = [move EXCEPT ![c] = r]
          PROVE  move'[c].pc = pc
      BY <1>1, <3>1, PlacesOf DEF Goes, MoveRecord
    <3>2. CASE \E s \in Sources, e \in Destinations, overwrite \in BOOLEAN : StartMove(c, s, e, overwrite)
      BY <3>1, <3>2 DEF StartMove, NoMove
    <3>3. CASE Rename(c)
      <4>1. (\E pc \in {"moved", "clear"} : Goes(c, pc)) \/ move' = [move EXCEPT ![c].pc = "copy", ![c].partial = TRUE]
        BY <3>3 DEF Rename
      <4>2. [move[c] EXCEPT !.pc = "copy", !.partial = TRUE].pc = "copy"
        BY <1>1, PlacesOf DEF MoveRecord
      <4>3. QED
        BY <1>1, <3>1, <4>1, <4>2
    <3>4. CASE Copy(c) \/ RemoveSource(c) \/ DropBackup(c)
      BY <3>1, <3>4 DEF Copy, RemoveSource, DropBackup
    <3>5. CASE UndoCopy(c) \/ ClearDestination(c)
      <4>1. \E pc \in {"clear", "putback"}, broken \in BOOLEAN : Removal(c, pc, broken) \/ Goes(c, pc)
        BY <1>1, <3>5, PlacesOf DEF UndoCopy, ClearDestination, MoveRecord
      <4>2. QED
        BY <1>1, <3>1, <4>1, RemovalFacts
    <3>6. QED
      BY <1>6, <3>2, <3>3, <3>4, <3>5
  <2>2. QED
    BY <2>1 DEF On
<1>7. QED
  BY <1>2, <1>3, <1>4, <1>5, <1>6

\* Whatever fails, and whatever other calls do, a move that fails leaves what it found at its
\* destination there, or its error tells of the backup that holds it; it leaves nothing of its
\* own at a destination that no other call has, unless its error says so.
THEOREM FailedMoveKeepsDestinationThm == MovesSpec => FailedMoveKeepsDestination
<1>1. MovesInv /\ [MovesNext]_moveVars
      => [\A c \in Movers :
            ~On(c, "failed") /\ On(c, "failed")' =>
              IF kept'[c] # None
              THEN Dst(c)' = kept'[c] \/ (move'[c].broken /\ tree'[AsideOf(c)] = kept'[c])
              ELSE Alone(c) => Dst(c)' = None \/ move'[c].broken]_moveVars
  BY FailingStep DEF PutBackOK
<1>2. QED
  BY MovesInitInv, MovesStep, <1>1, PTL DEF MovesSpec, FailedMoveKeepsDestination

-----------------------------------------------------------------------------
(***************************************************************************)
(* A migration or a restore that is interrupted anywhere loses nothing and *)
(* can go on: for any number of edits, failed writes, deaths and losses of *)
(* power.                                                                  *)
(*                                                                         *)
(* The inductive invariant has two parts. DiskInv speaks of the disk alone,*)
(* as programs see it and as a loss of power leaves it, and holds whatever *)
(* program runs: a marker vouches for its backups; without a marker on     *)
(* both, every file is of version 1; with it, but without the pending file *)
(* on both, every file is of version 2. It is closed under a loss of power,*)
(* since it says of each object what the two disks have in common. StepInv *)
(* says what the program that runs has done so far.                        *)
(***************************************************************************)
-----------------------------------------------------------------------------
(* The inductive invariant.                                                 *)

Has(dk, o) == Held(dk, o) # Nil

NoNil(dk) == \A x \in DOMAIN dk : dk[x] # Nil

\* A migration changes a file's schema only: what it says is the last edit.
Exact(dk, lt) ==
  \A f \in Files :
    /\ lt[f] = 0 => Held(dk, f) = Nil
    /\ lt[f] > 0 => Held(dk, f) \in {V(1, lt[f]), V(2, lt[f])}

Is(s, f, sn, dr, lt) == Held(sn, f) = V(s, lt[f]) /\ Held(dr, f) = V(s, lt[f])

One(s, sn, dr, lt) == \A f \in Files : lt[f] > 0 => Is(s, f, sn, dr, lt)

Original(c) == \E n \in Nat : c = V(1, n)

\* A backup is on both disks: no step changes it any more.
Stored(p, f, sn, dr) ==
  /\ Original(p.before[f])
  /\ Held(sn, Backup(p.dir, f)) = p.before[f] /\ Held(dr, Backup(p.dir, f)) = p.before[f]

\* A plan for the files as they are.
Current(p, lt) ==
  /\ p.files = {f \in Files : lt[f] > 0} /\ p.dir \in Dirs
  /\ \A f \in p.files : p.before[f] = V(1, lt[f])

MarkerOK(p, sn, dr, lt) ==
  /\ p.files \subseteq Files /\ p.dir \in Dirs
  /\ \A f \in p.files : Stored(p, f, sn, dr)
  /\ Has(sn, Pending) \/ Has(dr, Pending) => Current(p, lt)

Markers(sn, dr, lt) ==
  /\ Has(sn, Marker) => MarkerOK(Held(sn, Marker).plan, sn, dr, lt)
  /\ Has(dr, Marker) => MarkerOK(Held(dr, Marker).plan, sn, dr, lt)
  /\ Has(sn, Marker) /\ Has(dr, Marker) => Held(sn, Marker) = Held(dr, Marker)

Schemas(sn, dr, lt) ==
  /\ ~(Has(sn, Marker) /\ Has(dr, Marker)) => One(1, sn, dr, lt)
  /\ Has(sn, Marker) /\ ~Has(dr, Marker) => Has(sn, Pending) /\ Has(dr, Pending)
  /\ ~Has(sn, Marker) /\ Has(dr, Marker) => Has(sn, Pending) /\ Has(dr, Pending)
  /\ Has(sn, Marker) /\ Has(dr, Marker) /\ ~(Has(sn, Pending) /\ Has(dr, Pending)) => One(2, sn, dr, lt)

DiskInv(sn, dr, lt) ==
  /\ lt \in [Files -> 0..MaxEdits] /\ lt[StateFile] > 0
  /\ NoNil(sn) /\ NoNil(dr) /\ Exact(sn, lt) /\ Exact(dr, lt)
  /\ Markers(sn, dr, lt) /\ Schemas(sn, dr, lt)

PlanSteps == {"backup", "marker", "replace", "undo", "originals", "forget"}

StepInv(md, st, pl, td, sn, dr, lt) ==
  /\ md \in {"down", "v1", "v2", "migrating", "restoring"}
  /\ md \in {"down", "v1", "v2"} => st = "none"
  /\ md = "migrating" => st \in {"backup", "marker", "replace"}
  /\ md = "restoring" => st \in {"undo", "originals", "forget", "settle"}
  /\ td \subseteq Files
  /\ st \in {"none", "settle"} => td = {}
  /\ md = "v1" => ~Has(sn, Marker)
  /\ md = "v2" => Has(sn, Marker) /\ Has(dr, Marker) /\ ~Has(sn, Pending) /\ ~Has(dr, Pending)
  /\ st \in PlanSteps => Current(pl, lt) /\ td \subseteq pl.files
  /\ st \in {"backup", "marker"} => \A f \in pl.files \ td : Stored(pl, f, sn, dr)
  /\ st = "backup" => ~Has(sn, Marker)
  /\ st = "marker" =>
       td = {} /\ ~Has(sn, Marker) /\ ~Has(dr, Marker) /\ Has(sn, Pending) /\ Has(dr, Pending)
  /\ st = "replace" =>
       /\ Has(sn, Marker) /\ Held(sn, Marker).plan = pl /\ Has(sn, Pending)
       /\ \A f \in pl.files \ td : Is(2, f, sn, dr, lt)
       /\ td # pl.files => Has(dr, Marker)
  /\ st \in {"undo", "originals", "forget"} =>
       Has(sn, Marker) /\ Has(dr, Marker) /\ Held(sn, Marker).plan = pl
  /\ st = "undo" => ~Has(sn, Pending) /\ ~Has(dr, Pending)
  /\ st \in {"originals", "forget", "settle"} => Has(sn, Pending) /\ Has(dr, Pending)
  /\ st = "originals" => \A f \in pl.files \ td : Is(1, f, sn, dr, lt)
  /\ st = "forget" => One(1, sn, dr, lt)
  /\ st = "settle" => ~Has(sn, Marker) /\ ~Has(dr, Marker)

MigrationInv ==
  DiskInv(seen, durable, latest) /\ StepInv(mode, step, plan, todo, seen, durable, latest)

-----------------------------------------------------------------------------
(* The disk.                                                                *)

LEMMA Objects ==
  /\ StateFile \in Files /\ Receipt \in Files /\ StateFile # Receipt
  /\ \A f \in Files : f = StateFile \/ f = Receipt
  /\ Marker # Pending /\ Marker # Rollback /\ Pending # Rollback
  /\ \A f \in Files : f # Marker /\ f # Pending /\ f # Rollback
  /\ \A d, f : Backup(d, f) # Marker /\ Backup(d, f) # Pending /\ Backup(d, f) # Rollback
  /\ \A d \in Dirs : \A f, g \in Files : Backup(d, f) # g
  /\ \A d, f, e, g : Backup(d, f) = Backup(e, g) => d = e /\ f = g
<1>1. StateFile # Receipt
      /\ Files \cap ({Marker, Pending, Rollback} \cup {Backup(d, f) : d \in Dirs, f \in Files}) = {}
  BY MigrationAssumption
<1>2. Marker # Pending /\ Marker # Rollback /\ Pending # Rollback
  BY DEF Marker, Pending, Rollback
<1>3. \A d, f : Backup(d, f) # Marker /\ Backup(d, f) # Pending /\ Backup(d, f) # Rollback
  <2>1. \A d, f : Len(Backup(d, f)) = 2
    BY DEF Backup
  <2>2. Len(Marker) = 1 /\ Len(Pending) = 1 /\ Len(Rollback) = 1
    BY DEF Marker, Pending, Rollback
  <2>3. QED
    BY <2>1, <2>2
<1>4. \A d, f, e, g : Backup(d, f) = Backup(e, g) => d = e /\ f = g
  BY DEF Backup
<1>5. \A d \in Dirs : \A f, g \in Files : Backup(d, f) # g
  BY <1>1
<1>6. StateFile \in Files /\ Receipt \in Files /\ \A f \in Files : f = StateFile \/ f = Receipt
  BY DEF Files
<1>7. QED
  BY <1>1, <1>2, <1>3, <1>4, <1>5, <1>6

\* One object of a disk becomes c.
Changed(dk, new, o, c) ==
  NoNil(new) /\ \A x : Held(new, x) = IF x = o THEN c ELSE Held(dk, x)

\* The objects of S are synced: the workspace directory is.
Synced(sn, dr, new, S) ==
  /\ Top \subseteq S /\ NoNil(new)
  /\ \A x : Held(new, x) = IF x \in S THEN Held(sn, x) ELSE Held(dr, x)

LEMMA BecomesHeld ==
  ASSUME NEW dk, NoNil(dk), NEW o, NEW c
  PROVE  Changed(dk, Becomes(dk, o, c), o, c)
<1> DEFINE new == Becomes(dk, o, c)
<1>1. new = [x \in (DOMAIN dk \ {o}) \cup (IF c = Nil THEN {} ELSE {o}) |-> IF x = o THEN c ELSE dk[x]]
  BY DEF Becomes
<1>2. DOMAIN new = (DOMAIN dk \ {o}) \cup (IF c = Nil THEN {} ELSE {o})
  BY <1>1
<1>3. \A x \in DOMAIN new : new[x] = IF x = o THEN c ELSE dk[x]
  BY <1>1, <1>2
<1> HIDE DEF new
<1>4. NoNil(new)
  BY <1>2, <1>3 DEF NoNil
<1>5. ASSUME NEW x PROVE Held(new, x) = IF x = o THEN c ELSE Held(dk, x)
  <2>1. CASE x = o /\ c = Nil
    BY <1>2, <2>1 DEF Held
  <2>2. CASE x = o /\ c # Nil
    BY <1>2, <1>3, <2>2 DEF Held
  <2>3. CASE x # o
    BY <1>2, <1>3, <2>3 DEF Held
  <2>4. QED
    BY <2>1, <2>2, <2>3
<1>6. QED
  BY <1>4, <1>5 DEF Changed, new

LEMMA SyncHeld ==
  ASSUME NEW dk, NoNil(dk), NoNil(durable), NEW S, Top \subseteq S, SyncAll(dk, S)
  PROVE  Synced(dk, durable, durable', S)
<1> DEFINE new == durable'
<1>1. new = [x \in (DOMAIN dk \cap S) \cup (DOMAIN durable \ S) |-> IF x \in S THEN dk[x] ELSE durable[x]]
  BY DEF SyncAll
<1>2. DOMAIN new = (DOMAIN dk \cap S) \cup (DOMAIN durable \ S)
  BY <1>1
<1>3. \A x \in DOMAIN new : new[x] = IF x \in S THEN dk[x] ELSE durable[x]
  BY <1>1, <1>2
<1> HIDE DEF new
<1>4. NoNil(new)
  BY <1>2, <1>3 DEF NoNil
<1>5. ASSUME NEW x PROVE Held(new, x) = IF x \in S THEN Held(dk, x) ELSE Held(durable, x)
  BY <1>2, <1>3 DEF Held
<1>6. QED
  BY <1>4, <1>5 DEF Synced, new

-----------------------------------------------------------------------------
(* What keeps DiskInv: a sync, and each kind of write before its sync.      *)

LEMMA TopObjects == Marker \in Top /\ Pending \in Top /\ Rollback \in Top /\ StateFile \in Top
BY DEF Top

LEMMA Schema12 ==
  /\ \A n, k : V(1, n) # V(2, k)
  /\ \A s, n : V(s, n) # Nil /\ V(s, n).schema = s /\ V(s, n).n = n
  /\ \A n : Transformed(V(1, n)) = V(2, n)
  /\ \A c : Original(c) => c # Nil
BY DEF V, Nil, Transformed, Original

\* The backups of a marker's plan stay, if nothing but such a backup is written.
LEMMA SyncKeeps ==
  ASSUME NEW sn, NEW dr, NEW lt, NEW new, NEW S, DiskInv(sn, dr, lt), Synced(sn, dr, new, S)
  PROVE  DiskInv(sn, new, lt)
<1>1. /\ \A x : x \in S => Held(new, x) = Held(sn, x)
      /\ \A x : x \notin S => Held(new, x) = Held(dr, x)
      /\ NoNil(new) /\ Marker \in S /\ Pending \in S
  BY TopObjects DEF Synced
<1>2. /\ lt \in [Files -> 0..MaxEdits] /\ lt[StateFile] > 0 /\ NoNil(sn) /\ Exact(sn, lt) /\ Exact(dr, lt)
      /\ Markers(sn, dr, lt) /\ Schemas(sn, dr, lt)
  BY DEF DiskInv
<1>3. Held(new, Marker) = Held(sn, Marker) /\ Held(new, Pending) = Held(sn, Pending)
  BY <1>1
<1>4. \A x : Held(new, x) = Held(sn, x) \/ Held(new, x) = Held(dr, x)
  BY <1>1
<1>5. Exact(new, lt)
  BY <1>2, <1>4 DEF Exact
<1>6. \A s : One(s, sn, dr, lt) => One(s, sn, new, lt)
  BY <1>4 DEF One, Is
<1>7. \A p, f : Stored(p, f, sn, dr) => Stored(p, f, sn, new)
  BY <1>4 DEF Stored
<1>8. Markers(sn, new, lt)
  BY <1>2, <1>3, <1>7 DEF Markers, MarkerOK, Has
<1>9. Schemas(sn, new, lt)
  BY <1>2, <1>3, <1>6 DEF Schemas, Has
<1>10. QED
  BY <1>1, <1>2, <1>5, <1>8, <1>9 DEF DiskInv

\* A write of an object that is no file and no backup.
LEMMA PutElsewhere ==
  ASSUME NEW sn, NEW dr, NEW lt, NEW new, NEW o \in {Marker, Pending, Rollback}, NEW c,
         DiskInv(sn, dr, lt), Changed(sn, new, o, c)
  PROVE  /\ NoNil(new) /\ Exact(new, lt)
         /\ \A s : One(s, sn, dr, lt) => One(s, new, dr, lt)
         /\ \A p, f : Stored(p, f, sn, dr) => Stored(p, f, new, dr)
<1>1. \A x : x # o => Held(new, x) = Held(sn, x)
  BY DEF Changed
<1>2. \A f \in Files : Held(new, f) = Held(sn, f)
  BY <1>1, Objects
<1>3. \A d, f : Held(new, Backup(d, f)) = Held(sn, Backup(d, f))
  BY <1>1, Objects
<1>4. Exact(new, lt)
  BY <1>2 DEF Exact, DiskInv
<1>5. QED
  BY <1>2, <1>3, <1>4 DEF One, Is, Stored, Changed

LEMMA PutRollback ==
  ASSUME NEW sn, NEW dr, NEW lt, NEW new, NEW c,
         DiskInv(sn, dr, lt), Changed(sn, new, Rollback, c)
  PROVE  DiskInv(new, dr, lt)
<1>1. Held(new, Marker) = Held(sn, Marker) /\ Held(new, Pending) = Held(sn, Pending)
  BY Objects DEF Changed
<1>2. /\ NoNil(new) /\ Exact(new, lt)
      /\ \A s : One(s, sn, dr, lt) => One(s, new, dr, lt)
      /\ \A p, f : Stored(p, f, sn, dr) => Stored(p, f, new, dr)
  BY PutElsewhere
<1>3. Markers(new, dr, lt)
  BY <1>1, <1>2 DEF DiskInv, Markers, MarkerOK, Has
<1>4. Schemas(new, dr, lt)
  BY <1>1, <1>2 DEF DiskInv, Schemas, Has
<1>5. QED
  BY <1>2, <1>3, <1>4 DEF DiskInv

\* A backup is written where none is, or the same.
LEMMA PutBackup ==
  ASSUME NEW sn, NEW dr, NEW lt, NEW new, NEW d \in Dirs, NEW g \in Files, NEW c, c # Nil,
         DiskInv(sn, dr, lt), Changed(sn, new, Backup(d, g), c), Held(sn, Backup(d, g)) \in {Nil, c}
  PROVE  DiskInv(new, dr, lt)
<1>1. /\ \A x : x # Backup(d, g) => Held(new, x) = Held(sn, x)
      /\ \A x : Held(sn, x) # Nil => Held(new, x) = Held(sn, x)
  BY DEF Changed
<1>2. Held(new, Marker) = Held(sn, Marker) /\ Held(new, Pending) = Held(sn, Pending)
  BY <1>1, Objects
<1>3. \A f \in Files : Held(new, f) = Held(sn, f)
  BY <1>1, Objects
<1>4. Exact(new, lt)
  BY <1>3 DEF Exact, DiskInv
<1>5. \A s : One(s, sn, dr, lt) => One(s, new, dr, lt)
  BY <1>3 DEF One, Is
<1>6. \A p, f : Stored(p, f, sn, dr) => Stored(p, f, new, dr)
  BY <1>1, Schema12 DEF Stored
<1>7. Markers(new, dr, lt)
  BY <1>2, <1>6 DEF DiskInv, Markers, MarkerOK, Has
<1>8. Schemas(new, dr, lt)
  BY <1>2, <1>5 DEF DiskInv, Schemas, Has
<1>9. QED
  BY <1>4, <1>7, <1>8 DEF DiskInv, Changed

LEMMA PutPending ==
  ASSUME NEW sn, NEW dr, NEW lt, NEW new, NEW c, c # Nil,
         DiskInv(sn, dr, lt), Changed(sn, new, Pending, c),
         Has(sn, Marker) => Has(dr, Marker) /\ Current(Held(sn, Marker).plan, lt)
  PROVE  DiskInv(new, dr, lt)
<1>1. Held(new, Marker) = Held(sn, Marker) /\ Has(new, Pending)
  BY Objects DEF Changed, Has
<1>2. /\ NoNil(new) /\ Exact(new, lt)
      /\ \A s : One(s, sn, dr, lt) => One(s, new, dr, lt)
      /\ \A p, f : Stored(p, f, sn, dr) => Stored(p, f, new, dr)
  BY PutElsewhere
<1>3. Markers(sn, dr, lt) /\ Schemas(sn, dr, lt)
  BY DEF DiskInv
<1>4. Has(dr, Marker) => Current(Held(dr, Marker).plan, lt)
  BY <1>3 DEF Markers, MarkerOK, Schemas
<1>5. Markers(new, dr, lt)
  BY <1>1, <1>2, <1>3, <1>4 DEF Markers, MarkerOK, Has
<1>6. Schemas(new, dr, lt)
  BY <1>1, <1>2, <1>3 DEF Schemas, Has
<1>7. QED
  BY <1>2, <1>5, <1>6 DEF DiskInv

LEMMA DropPending ==
  ASSUME NEW sn, NEW dr, NEW lt, NEW new,
         DiskInv(sn, dr, lt), Changed(sn, new, Pending, Nil),
         \/ Has(sn, Marker) /\ Has(dr, Marker) /\ One(2, sn, dr, lt)
         \/ ~Has(sn, Marker) /\ ~Has(dr, Marker)
  PROVE  DiskInv(new, dr, lt)
<1>1. Held(new, Marker) = Held(sn, Marker) /\ ~Has(new, Pending)
  BY Objects DEF Changed, Has
<1>2. /\ NoNil(new) /\ Exact(new, lt)
      /\ \A s : One(s, sn, dr, lt) => One(s, new, dr, lt)
      /\ \A p, f : Stored(p, f, sn, dr) => Stored(p, f, new, dr)
  BY PutElsewhere
<1>3. Markers(sn, dr, lt) /\ Schemas(sn, dr, lt)
  BY DEF DiskInv
<1>4. Markers(new, dr, lt)
  BY <1>1, <1>2, <1>3 DEF Markers, MarkerOK, Has
<1>5. Schemas(new, dr, lt)
  BY <1>1, <1>2, <1>3 DEF Schemas, Has
<1>6. QED
  BY <1>2, <1>4, <1>5 DEF DiskInv

LEMMA PutMarker ==
  ASSUME NEW sn, NEW dr, NEW lt, NEW new, NEW c, c # Nil,
         DiskInv(sn, dr, lt), Changed(sn, new, Marker, c),
         ~Has(sn, Marker), ~Has(dr, Marker), Has(sn, Pending), Has(dr, Pending),
         Current(c.plan, lt), \A f \in c.plan.files : Stored(c.plan, f, sn, dr)
  PROVE  DiskInv(new, dr, lt)
<1>1. Held(new, Marker) = c /\ Has(new, Marker) /\ Held(new, Pending) = Held(sn, Pending)
  BY Objects DEF Changed, Has
<1>2. /\ NoNil(new) /\ Exact(new, lt)
      /\ \A s : One(s, sn, dr, lt) => One(s, new, dr, lt)
      /\ \A p, f : Stored(p, f, sn, dr) => Stored(p, f, new, dr)
  BY PutElsewhere
<1>3. Schemas(sn, dr, lt)
  BY DEF DiskInv
<1>4. MarkerOK(c.plan, new, dr, lt)
  BY <1>2 DEF MarkerOK, Current
<1>5. Markers(new, dr, lt)
  BY <1>1, <1>4 DEF Markers, Has
<1>6. Schemas(new, dr, lt)
  BY <1>1, <1>2, <1>3 DEF Schemas, Has
<1>7. QED
  BY <1>2, <1>5, <1>6 DEF DiskInv

LEMMA DropMarker ==
  ASSUME NEW sn, NEW dr, NEW lt, NEW new,
         DiskInv(sn, dr, lt), Changed(sn, new, Marker, Nil),
         Has(sn, Pending), Has(dr, Pending), One(1, sn, dr, lt)
  PROVE  DiskInv(new, dr, lt)
<1>1. ~Has(new, Marker) /\ Held(new, Pending) = Held(sn, Pending)
  BY Objects DEF Changed, Has
<1>2. /\ NoNil(new) /\ Exact(new, lt)
      /\ \A s : One(s, sn, dr, lt) => One(s, new, dr, lt)
      /\ \A p, f : Stored(p, f, sn, dr) => Stored(p, f, new, dr)
  BY PutElsewhere
<1>3. Markers(sn, dr, lt) /\ Schemas(sn, dr, lt)
  BY DEF DiskInv
<1>4. Markers(new, dr, lt)
  BY <1>1, <1>2, <1>3 DEF Markers, MarkerOK, Has
<1>5. Schemas(new, dr, lt)
  BY <1>1, <1>2 DEF Schemas, Has
<1>6. QED
  BY <1>2, <1>4, <1>5 DEF DiskInv

\* A file changes its schema while the marker and the pending file are on both disks.
LEMMA PutFile ==
  ASSUME NEW sn, NEW dr, NEW lt, NEW new, NEW f \in Files, NEW s \in {1, 2}, lt[f] > 0,
         DiskInv(sn, dr, lt), Changed(sn, new, f, V(s, lt[f])),
         Has(sn, Marker), Has(dr, Marker), Has(sn, Pending), Has(dr, Pending)
  PROVE  DiskInv(new, dr, lt)
<1>1. /\ \A x : x # f => Held(new, x) = Held(sn, x)
      /\ Held(new, f) = V(s, lt[f])
  BY DEF Changed
<1>2. Held(new, Marker) = Held(sn, Marker) /\ Held(new, Pending) = Held(sn, Pending)
  BY <1>1, Objects
<1>3. Exact(new, lt)
  BY <1>1 DEF Exact, DiskInv
<1>4. \A p, g : p.dir \in Dirs /\ g \in Files /\ Stored(p, g, sn, dr) => Stored(p, g, new, dr)
  BY <1>1, Objects DEF Stored
<1>5. Markers(new, dr, lt)
  BY <1>2, <1>4 DEF DiskInv, Markers, MarkerOK, Has
<1>6. Schemas(new, dr, lt)
  BY <1>2 DEF Schemas, Has
<1>7. QED
  BY <1>3, <1>5, <1>6 DEF DiskInv, Changed

-----------------------------------------------------------------------------
(* A durable write, and one that fails.                                     *)

LEMMA WriteFacts ==
  ASSUME NEW o, NEW c, NoNil(seen), NoNil(durable), Writes(o, c)
  PROVE  Changed(seen, seen', o, c) /\ Synced(seen', durable, durable', Top \cup {o})
<1>1. seen' = Becomes(seen, o, c) /\ SyncAll(seen', Top \cup {o})
  BY DEF Writes, Put, Sync
<1>2. Changed(seen, seen', o, c)
  BY <1>1, BecomesHeld
<1>3. NoNil(seen')
  BY <1>2 DEF Changed
<1>4. QED
  BY <1>1, <1>2, <1>3, SyncHeld

LEMMA WriteHeld ==
  ASSUME NEW sn, NEW dr, NEW new, NEW nd, NEW o, NEW c,
         Changed(sn, new, o, c), Synced(new, dr, nd, Top \cup {o})
  PROVE  /\ Held(new, o) = c /\ Held(nd, o) = c
         /\ \A x : x # o => Held(new, x) = Held(sn, x)
         /\ \A x \in Top : Held(nd, x) = Held(new, x)
         /\ \A x : x # o => Held(nd, x) = Held(dr, x) \/ Held(nd, x) = Held(sn, x)
BY DEF Changed, Synced

\* What the two disks agree about is still there after a write of something else.
LEMMA WriteCarries ==
  ASSUME NEW sn, NEW dr, NEW lt, NEW new, NEW nd, NEW o, NEW c,
         Changed(sn, new, o, c), Synced(new, dr, nd, Top \cup {o})
  PROVE  /\ \A s, f : f # o /\ Is(s, f, sn, dr, lt) => Is(s, f, new, nd, lt)
         /\ \A p, f : Stored(p, f, sn, dr) /\ (Backup(p.dir, f) # o \/ c = p.before[f]) => Stored(p, f, new, nd)
<1>1. /\ Held(new, o) = c /\ Held(nd, o) = c
      /\ \A x : x # o => Held(new, x) = Held(sn, x)
      /\ \A x : x # o => Held(nd, x) = Held(dr, x) \/ Held(nd, x) = Held(sn, x)
  BY WriteHeld
<1>2. QED
  BY <1>1 DEF Is, Stored

LEMMA StepDown ==
  ASSUME NEW sn, NEW dr, NEW lt PROVE StepInv("down", "none", Quiet, {}, sn, dr, lt)
BY DEF StepInv, PlanSteps

LEMMA ResetsKeeps ==
  ASSUME Resets, DiskInv(seen', durable', latest')
  PROVE  MigrationInv'
BY StepDown DEF Resets, MigrationInv

LEMMA FailedKeeps ==
  ASSUME NEW o, NEW c, MigrationInv, WriteFailed(o, c), latest' = latest,
         \A new : Changed(seen, new, o, c) => DiskInv(new, durable, latest)
  PROVE  MigrationInv'
<1>1. DiskInv(seen, durable, latest) /\ NoNil(seen)
  BY DEF MigrationInv, DiskInv
<1>2. Changed(seen, Put(o, c), o, c)
  BY <1>1, BecomesHeld DEF Put
<1>3. (seen' = seen \/ seen' = Put(o, c)) /\ durable' = durable /\ Resets
  BY DEF WriteFailed
<1>4. DiskInv(seen', durable', latest')
  BY <1>1, <1>2, <1>3
<1>5. QED
  BY <1>3, <1>4, ResetsKeeps

LEMMA WriteKeeps ==
  ASSUME NEW o, NEW c, DiskInv(seen, durable, latest), Writes(o, c), latest' = latest,
         \A new : Changed(seen, new, o, c) => DiskInv(new, durable, latest)
  PROVE  DiskInv(seen', durable', latest')
<1>1. Changed(seen, seen', o, c) /\ Synced(seen', durable, durable', Top \cup {o})
  BY WriteFacts DEF DiskInv
<1>2. DiskInv(seen', durable, latest)
  BY <1>1
<1>3. QED
  BY <1>1, <1>2, SyncKeeps

LEMMA StepKeeps ==
  ASSUME NEW o, NEW c, NEW ns, NEW nt, MigrationInv, Step(o, c, ns, nt), latest' = latest,
         \A new : Changed(seen, new, o, c) => DiskInv(new, durable, latest),
         \A new, nd : Changed(seen, new, o, c) /\ Synced(new, durable, nd, Top \cup {o})
                        => StepInv(mode, ns, plan, nt, new, nd, latest)
  PROVE  MigrationInv'
<1>1. CASE WriteFailed(o, c)
  BY <1>1, FailedKeeps
<1>2. CASE Writes(o, c) /\ step' = ns /\ todo' = nt /\ UNCHANGED <<mode, plan>>
  <2>1. DiskInv(seen, durable, latest) /\ NoNil(seen) /\ NoNil(durable)
    BY DEF MigrationInv, DiskInv
  <2>2. DiskInv(seen', durable', latest')
    BY <1>2, <2>1, WriteKeeps
  <2>3. Changed(seen, seen', o, c) /\ Synced(seen', durable, durable', Top \cup {o})
    BY <1>2, <2>1, WriteFacts
  <2>4. StepInv(mode', step', plan', todo', seen', durable', latest')
    BY <1>2, <2>3
  <2>5. QED
    BY <2>2, <2>4 DEF MigrationInv
<1>3. QED
  BY <1>1, <1>2 DEF Step

-----------------------------------------------------------------------------
(* The migration.                                                           *)

LEMMA PlanFacts ==
  ASSUME MigrationInv, step \in PlanSteps
  PROVE  /\ Current(plan, latest) /\ todo \subseteq plan.files /\ plan.files \subseteq Files
         /\ plan.dir \in Dirs
         /\ \A f \in plan.files : latest[f] > 0 /\ plan.before[f] = V(1, latest[f]) /\ plan.before[f] # Nil
         /\ \A f \in plan.files : Original(plan.before[f])
<1>1. Current(plan, latest) /\ todo \subseteq plan.files
  BY DEF MigrationInv, StepInv
<1>2. plan.files \subseteq Files /\ plan.dir \in Dirs
      /\ \A f \in plan.files : latest[f] > 0 /\ plan.before[f] = V(1, latest[f])
  BY <1>1 DEF Current
<1>3. \A f \in plan.files : latest[f] \in Nat
  <2>1. MaxEdits \in Nat /\ latest \in [Files -> 0..MaxEdits]
    BY MigrationAssumption DEF MigrationInv, DiskInv
  <2>2. QED
    BY <1>2, <2>1
<1>4. \A f \in plan.files : Original(plan.before[f])
  BY <1>2, <1>3 DEF Original
<1>5. QED
  BY <1>1, <1>2, <1>4, Schema12

LEMMA BackUpKeeps ==
  ASSUME MigrationInv, NEW f \in Files, BackUp(f)
  PROVE  MigrationInv'
<1> DEFINE b == Backup(plan.dir, f)
           c == plan.before[f]
<1>1. step = "backup" /\ f \in todo /\ latest' = latest
  BY DEF BackUp
<1>2. /\ Current(plan, latest) /\ todo \subseteq plan.files /\ plan.files \subseteq Files
      /\ plan.dir \in Dirs /\ c # Nil /\ Original(c)
  BY <1>1, PlanFacts DEF PlanSteps
<1>3. DiskInv(seen, durable, latest) /\ StepInv(mode, step, plan, todo, seen, durable, latest)
  BY DEF MigrationInv
<1>4. CASE Held(seen, b) \in {Nil, c} /\ Step(b, c, step, todo \ {f})
  <2>1. ASSUME NEW new, Changed(seen, new, b, c) PROVE DiskInv(new, durable, latest)
    BY <1>2, <1>3, <1>4, <2>1, PutBackup
  <2>2. ASSUME NEW new, NEW nd, Changed(seen, new, b, c), Synced(new, durable, nd, Top \cup {b})
        PROVE  StepInv(mode, step, plan, todo \ {f}, new, nd, latest)
    <3>1. Held(new, Marker) = Held(seen, Marker)
      BY <2>2, Objects, WriteHeld
    <3>2. \A p, g : Stored(p, g, seen, durable) /\ (Backup(p.dir, g) # b \/ c = p.before[g]) => Stored(p, g, new, nd)
      BY <2>2, WriteCarries
    <3>3. Held(new, b) = c /\ Held(nd, b) = c
      BY <2>2, WriteHeld
    <3>4. Stored(plan, f, new, nd)
      BY <1>2, <3>3 DEF Stored
    <3>5. ASSUME NEW g \in plan.files \ (todo \ {f}) PROVE Stored(plan, g, new, nd)
      <4>1. CASE g = f
        BY <3>4, <4>1
      <4>2. CASE g # f
        <5>1. Stored(plan, g, seen, durable)
          BY <1>1, <1>3, <3>5, <4>2 DEF StepInv
        <5>2. Backup(plan.dir, g) # b
          BY <4>2, Objects
        <5>3. QED
          BY <3>2, <5>1, <5>2
      <4>3. QED
        BY <4>1, <4>2
    <3>6. ~Has(seen, Marker) /\ mode = "migrating"
      BY <1>1, <1>3 DEF StepInv
    <3>7. ~Has(new, Marker)
      BY <3>1, <3>6 DEF Has
    <3>8. todo \ {f} \subseteq Files /\ todo \ {f} \subseteq plan.files
      BY <1>2
    <3>9. QED
      BY <1>1, <1>2, <3>5, <3>6, <3>7, <3>8 DEF StepInv
  <2>3. QED
    BY <1>1, <1>4, <2>1, <2>2, StepKeeps
<1>5. CASE GivesUp
  BY <1>1, <1>3, <1>5, ResetsKeeps DEF GivesUp
<1>6. QED
  BY <1>4, <1>5 DEF BackUp

LEMMA WritePendingKeeps ==
  ASSUME MigrationInv, WritePending
  PROVE  MigrationInv'
<1> DEFINE c == [kind |-> "migration"]
<1>1. step = "backup" /\ todo = {} /\ latest' = latest /\ Step(Pending, c, "marker", {})
  BY DEF WritePending
<1>2. c # Nil
  BY DEF Nil
<1> HIDE DEF c
<1>3. Current(plan, latest) /\ plan.files \subseteq Files
  BY <1>1, PlanFacts DEF PlanSteps
<1>4. DiskInv(seen, durable, latest) /\ StepInv(mode, step, plan, todo, seen, durable, latest)
  BY DEF MigrationInv
<1>5. mode = "migrating" /\ ~Has(seen, Marker) /\ \A g \in plan.files : Stored(plan, g, seen, durable)
  BY <1>1, <1>4 DEF StepInv
<1>6. ASSUME NEW new, Changed(seen, new, Pending, c) PROVE DiskInv(new, durable, latest)
  BY <1>2, <1>4, <1>5, <1>6, PutPending
<1>7. ASSUME NEW new, NEW nd, Changed(seen, new, Pending, c), Synced(new, durable, nd, Top \cup {Pending})
      PROVE  StepInv(mode, "marker", plan, {}, new, nd, latest)
  <2>1. Held(new, Marker) = Held(seen, Marker) /\ Held(nd, Marker) = Held(new, Marker)
    BY <1>7, Objects, TopObjects, WriteHeld
  <2>2. Has(new, Pending) /\ Has(nd, Pending)
    BY <1>2, <1>7, WriteHeld DEF Has
  <2>3. \A g \in plan.files : Stored(plan, g, new, nd)
    BY <1>5, <1>7, Objects, WriteCarries
  <2>4. QED
    BY <1>3, <1>5, <2>1, <2>2, <2>3 DEF StepInv, Has
<1>8. QED
  BY <1>1, <1>6, <1>7, StepKeeps

LEMMA WriteMarkerKeeps ==
  ASSUME MigrationInv, WriteMarker
  PROVE  MigrationInv'
<1> DEFINE c == [kind |-> "marker", plan |-> plan]
<1>1. step = "marker" /\ latest' = latest /\ Step(Marker, c, "replace", plan.files)
  BY DEF WriteMarker
<1>2. c # Nil /\ c.plan = plan
  BY DEF Nil
<1> HIDE DEF c
<1>3. Current(plan, latest) /\ plan.files \subseteq Files
  BY <1>1, PlanFacts DEF PlanSteps
<1>4. DiskInv(seen, durable, latest) /\ StepInv(mode, step, plan, todo, seen, durable, latest)
  BY DEF MigrationInv
<1>5. /\ mode = "migrating" /\ ~Has(seen, Marker) /\ ~Has(durable, Marker)
      /\ Has(seen, Pending) /\ Has(durable, Pending)
      /\ \A g \in plan.files : Stored(plan, g, seen, durable)
  BY <1>1, <1>4 DEF StepInv
<1>6. ASSUME NEW new, Changed(seen, new, Marker, c) PROVE DiskInv(new, durable, latest)
  BY <1>2, <1>3, <1>4, <1>5, <1>6, PutMarker
<1>7. ASSUME NEW new, NEW nd, Changed(seen, new, Marker, c), Synced(new, durable, nd, Top \cup {Marker})
      PROVE  StepInv(mode, "replace", plan, plan.files, new, nd, latest)
  <2>1. Held(new, Marker) = c
    BY <1>7, WriteHeld
  <2>2. Held(new, Pending) = Held(seen, Pending)
    BY <1>7, Objects, WriteHeld
  <2>3. Has(new, Marker) /\ Held(new, Marker).plan = plan /\ Has(new, Pending)
    BY <1>2, <1>5, <2>1, <2>2 DEF Has
  <2>4. QED
    BY <1>3, <1>5, <2>3 DEF StepInv
<1>8. QED
  BY <1>1, <1>6, <1>7, StepKeeps

LEMMA SomeSync ==
  ASSUME NEW sn, NEW dr, NoNil(sn), NoNil(dr), NEW S, Top \subseteq S
  PROVE  \E nd : Synced(sn, dr, nd, S)
<1> DEFINE nd == [x \in (DOMAIN sn \cap S) \cup (DOMAIN dr \ S) |-> IF x \in S THEN sn[x] ELSE dr[x]]
<1>1. DOMAIN nd = (DOMAIN sn \cap S) \cup (DOMAIN dr \ S)
      /\ \A x \in DOMAIN nd : nd[x] = IF x \in S THEN sn[x] ELSE dr[x]
  OBVIOUS
<1> HIDE DEF nd
<1>2. NoNil(nd)
  BY <1>1 DEF NoNil
<1>3. ASSUME NEW x PROVE Held(nd, x) = IF x \in S THEN Held(sn, x) ELSE Held(dr, x)
  BY <1>1 DEF Held
<1>4. QED
  BY <1>2, <1>3 DEF Synced

\* The backup and the marker are made durable, the file is replaced, and made durable.
LEMMA ReplacedKeeps ==
  ASSUME NEW sn, NEW dr, NEW lt, NEW new, NEW nd, NEW f \in Files, NEW d \in Dirs, lt[f] > 0,
         DiskInv(sn, dr, lt), Has(sn, Marker), Has(sn, Pending),
         Changed(sn, new, f, V(2, lt[f])), Synced(new, dr, nd, Top \cup {Backup(d, f), f})
  PROVE  DiskInv(new, nd, lt)
<1> DEFINE b == Backup(d, f)
<1>1. PICK mid : Synced(sn, dr, mid, Top \cup {b})
  BY SomeSync DEF DiskInv
<1>2. DiskInv(sn, mid, lt)
  BY <1>1, SyncKeeps
<1>3. Has(mid, Marker) /\ Has(mid, Pending)
  BY <1>1, TopObjects DEF Synced, Has
<1>4. DiskInv(new, mid, lt)
  <2>1. 2 \in {1, 2}
    OBVIOUS
  <2>2. QED
    BY <1>2, <1>3, <2>1, PutFile
<1>5. f # b /\ \A x : x # f => Held(new, x) = Held(sn, x)
  BY Objects DEF Changed
<1>6. /\ Top \subseteq Top \cup {f} /\ NoNil(nd)
      /\ \A x : Held(nd, x) = IF x \in Top \cup {b, f} THEN Held(new, x) ELSE Held(dr, x)
      /\ \A x : Held(mid, x) = IF x \in Top \cup {b} THEN Held(sn, x) ELSE Held(dr, x)
  BY <1>1 DEF Synced
<1>7. Synced(new, mid, nd, Top \cup {f})
  <2>1. ASSUME NEW x PROVE Held(nd, x) = IF x \in Top \cup {f} THEN Held(new, x) ELSE Held(mid, x)
    <3>1. CASE x \in Top \cup {f}
      BY <1>6, <3>1
    <3>2. CASE x = b /\ x \notin Top \cup {f}
      BY <1>5, <1>6, <3>2
    <3>3. CASE x \notin Top \cup {b, f}
      BY <1>6, <3>3
    <3>4. QED
      BY <3>1, <3>2, <3>3
  <2>2. QED
    BY <1>6, <2>1 DEF Synced
<1>8. QED
  BY <1>4, <1>7, SyncKeeps

LEMMA ReplaceKeeps ==
  ASSUME MigrationInv, NEW f \in Files, Replace(f)
  PROVE  MigrationInv'
<1> DEFINE b     == Backup(plan.dir, f)
           after == Transformed(plan.before[f])
<1>1. step = "replace" /\ f \in todo /\ latest' = latest
  BY DEF Replace
<1>2. /\ Current(plan, latest) /\ todo \subseteq plan.files /\ plan.files \subseteq Files
      /\ plan.dir \in Dirs /\ latest[f] > 0 /\ plan.before[f] = V(1, latest[f])
  BY <1>1, PlanFacts DEF PlanSteps
<1>3. after = V(2, latest[f])
  BY <1>2, Schema12
<1>4. DiskInv(seen, durable, latest) /\ StepInv(mode, step, plan, todo, seen, durable, latest)
      /\ NoNil(seen) /\ NoNil(durable)
  BY DEF MigrationInv, DiskInv
<1>5. /\ mode = "migrating" /\ Has(seen, Marker) /\ Held(seen, Marker).plan = plan /\ Has(seen, Pending)
      /\ \A g \in plan.files \ todo : Is(2, g, seen, durable, latest)
  BY <1>1, <1>4 DEF StepInv
<1>6. Changed(seen, Put(f, after), f, V(2, latest[f]))
  BY <1>3, <1>4, BecomesHeld DEF Put
<1>7. CASE /\ seen' = Put(f, after) /\ SyncAll(Put(f, after), Top \cup {b, f})
           /\ todo' = todo \ {f} /\ UNCHANGED <<mode, step, plan>>
  <2>1. Changed(seen, seen', f, V(2, latest[f])) /\ NoNil(seen')
    BY <1>6, <1>7 DEF Changed
  <2>2. Synced(seen', durable, durable', Top \cup {b, f})
    BY <1>4, <1>7, <2>1, SyncHeld
  <2>3. DiskInv(seen', durable', latest)
    BY <1>2, <1>4, <1>5, <2>1, <2>2, ReplacedKeeps
  <2>4. /\ Held(seen', f) = V(2, latest[f]) /\ Held(durable', f) = V(2, latest[f])
        /\ \A x : x # f => Held(seen', x) = Held(seen, x)
        /\ \A x : x # f => Held(durable', x) = Held(seen, x) \/ Held(durable', x) = Held(durable, x)
        /\ Held(durable', Marker) = Held(seen', Marker)
    BY <2>1, <2>2, TopObjects DEF Changed, Synced
  <2>5. Held(seen', Marker) = Held(seen, Marker) /\ Held(seen', Pending) = Held(seen, Pending)
    BY <2>4, Objects
  <2>6. \A g \in plan.files \ (todo \ {f}) : Is(2, g, seen', durable', latest)
    BY <1>5, <2>4 DEF Is
  <2>7. /\ Has(seen', Marker) /\ Held(seen', Marker).plan = plan /\ Has(seen', Pending)
        /\ Has(durable', Marker) /\ todo \ {f} \subseteq Files /\ todo \ {f} \subseteq plan.files
    BY <1>2, <1>5, <2>4, <2>5 DEF Has
  <2>8. StepInv(mode, "replace", plan, todo \ {f}, seen', durable', latest)
    BY <1>2, <1>5, <2>6, <2>7 DEF StepInv
  <2>9. QED
    BY <1>1, <1>7, <2>3, <2>8 DEF MigrationInv
<1>8. CASE Resets /\ UNCHANGED <<seen, durable>>
  BY <1>1, <1>4, <1>8, ResetsKeeps
<1>9. CASE Resets /\ seen' \in {seen, Put(f, after)} /\ Sync(seen, b)
  <2>1. Synced(seen, durable, durable', Top \cup {b})
    BY <1>4, <1>9, SyncHeld DEF Sync
  <2>2. DiskInv(seen, durable', latest)
    BY <1>4, <2>1, SyncKeeps
  <2>3. Has(durable', Marker) /\ Has(durable', Pending)
    BY <1>5, <2>1, TopObjects DEF Synced, Has
  <2>4. DiskInv(Put(f, after), durable', latest)
    <3>1. 2 \in {1, 2}
      OBVIOUS
    <3>2. QED
      BY <1>2, <1>5, <1>6, <2>2, <2>3, <3>1, PutFile
  <2>5. DiskInv(seen', durable', latest')
    BY <1>1, <1>9, <2>2, <2>4
  <2>6. QED
    BY <1>9, <2>5, ResetsKeeps
<1>10. CASE GivesUp
  BY <1>1, <1>4, <1>10, ResetsKeeps DEF GivesUp
<1>11. QED
  BY <1>7, <1>8, <1>9, <1>10 DEF Replace

LEMMA EndMigrationKeeps ==
  ASSUME MigrationInv, EndMigration
  PROVE  MigrationInv'
<1>1. step = "replace" /\ todo = {} /\ latest' = latest
  BY DEF EndMigration
<1>2. Current(plan, latest)
  BY <1>1, PlanFacts DEF PlanSteps
<1>3. DiskInv(seen, durable, latest) /\ StepInv(mode, step, plan, todo, seen, durable, latest)
      /\ NoNil(seen) /\ NoNil(durable) /\ latest[StateFile] > 0
  BY DEF MigrationInv, DiskInv
<1>4. plan.files # {} /\ \A f \in Files : latest[f] > 0 => f \in plan.files
  BY <1>2, <1>3, Objects DEF Current
<1>5. Has(seen, Marker) /\ Has(durable, Marker) /\ \A f \in plan.files : Is(2, f, seen, durable, latest)
  BY <1>1, <1>3, <1>4 DEF StepInv
<1>6. One(2, seen, durable, latest)
  BY <1>4, <1>5 DEF One
<1>7. \A new : Changed(seen, new, Pending, Nil) => DiskInv(new, durable, latest)
  BY <1>3, <1>5, <1>6, DropPending
<1>8. CASE WriteFailed(Pending, Nil)
  BY <1>1, <1>7, <1>8, FailedKeeps
<1>9. CASE Writes(Pending, Nil) /\ mode' = "v2" /\ step' = "none" /\ plan' = Quiet /\ UNCHANGED todo
  <2>1. DiskInv(seen', durable', latest')
    BY <1>1, <1>3, <1>7, <1>9, WriteKeeps
  <2>2. Changed(seen, seen', Pending, Nil) /\ Synced(seen', durable, durable', Top \cup {Pending})
    BY <1>3, <1>9, WriteFacts
  <2>3. /\ Held(seen', Pending) = Nil /\ Held(durable', Pending) = Nil
        /\ Held(seen', Marker) = Held(seen, Marker) /\ Held(durable', Marker) = Held(seen', Marker)
    BY <2>2, Objects, TopObjects, WriteHeld
  <2>4. StepInv(mode', step', plan', todo', seen', durable', latest')
    BY <1>1, <1>5, <1>9, <2>3 DEF StepInv, PlanSteps, Has
  <2>5. QED
    BY <2>1, <2>4 DEF MigrationInv
<1>10. QED
  BY <1>8, <1>9 DEF EndMigration

LEMMA HasDomain ==
  ASSUME NEW dk, NoNil(dk)
  PROVE  \A o : /\ Has(dk, o) <=> o \in DOMAIN dk
                /\ o \in DOMAIN dk => Held(dk, o) = dk[o]
BY DEF NoNil, Has, Held

LEMMA AlreadyMigratedKeeps ==
  ASSUME MigrationInv, AlreadyMigrated
  PROVE  MigrationInv'
<1>1. mode = "down" /\ mode' = "v2" /\ UNCHANGED <<step, plan, todo, seen, latest, losses>>
  BY DEF AlreadyMigrated
<1>2. DiskInv(seen, durable, latest) /\ StepInv(mode, step, plan, todo, seen, durable, latest)
      /\ NoNil(seen) /\ NoNil(durable) /\ latest[StateFile] > 0
  BY DEF MigrationInv, DiskInv
<1>3. Has(seen, Marker) <=> HasMarker
  BY <1>2, HasDomain DEF HasMarker
<1>4. CASE HasMarker
  <2>1. Sync(seen, StateFile) /\ Pending \notin DOMAIN seen
    BY <1>4 DEF AlreadyMigrated
  <2>2. Synced(seen, durable, durable', Top \cup {StateFile})
    BY <1>2, <2>1, SyncHeld DEF Sync
  <2>3. DiskInv(seen, durable', latest)
    BY <1>2, <2>2, SyncKeeps
  <2>4. Has(seen, Marker) /\ ~Has(seen, Pending)
    BY <1>2, <1>3, <1>4, <2>1, HasDomain
  <2>5. Has(durable', Marker) /\ ~Has(durable', Pending)
    BY <2>2, <2>4, TopObjects DEF Synced, Has
  <2>6. step = "none" /\ todo = {}
    BY <1>1, <1>2 DEF StepInv
  <2>7. StepInv(mode', step', plan', todo', seen', durable', latest')
    BY <1>1, <2>4, <2>5, <2>6 DEF StepInv, PlanSteps
  <2>8. QED
    BY <1>1, <2>3, <2>7 DEF MigrationInv
<1>5. CASE ~HasMarker
  <2>1. Held(seen, StateFile) = V(1, latest[StateFile])
    BY <1>2, <1>3, <1>5, Objects DEF DiskInv, Schemas, One, Is
  <2>2. Has(seen, StateFile) /\ Held(seen, StateFile).schema = 1
    BY <2>1, Schema12 DEF Has
  <2>3. StateFile \in Existing /\ seen[StateFile].schema = 1
    BY <1>2, <2>2, HasDomain, Objects DEF Existing
  <2>4. QED
    BY <1>5, <2>3 DEF AlreadyMigrated
<1>6. QED
  BY <1>4, <1>5

\* The files that are there are those that a server wrote.
LEMMA ExistingFiles ==
  ASSUME DiskInv(seen, durable, latest)
  PROVE  /\ Existing = {f \in Files : latest[f] > 0}
         /\ \A f \in Existing : seen[f] = Held(seen, f) /\ seen[f] \in {V(1, latest[f]), V(2, latest[f])}
<1>1. NoNil(seen) /\ Exact(seen, latest) /\ latest \in [Files -> 0..MaxEdits]
  BY DEF DiskInv
<1>2. ASSUME NEW f \in Files PROVE latest[f] = 0 \/ latest[f] > 0
  <2>1. latest[f] \in 0..MaxEdits
    BY <1>1
  <2>2. MaxEdits \in Nat
    BY MigrationAssumption
  <2>3. QED
    BY <2>1, <2>2
<1>3. ASSUME NEW f \in Files PROVE f \in DOMAIN seen <=> latest[f] > 0
  <2>1. latest[f] > 0 => Has(seen, f)
    BY <1>1, Schema12 DEF Exact, Has
  <2>2. latest[f] = 0 => ~Has(seen, f)
    BY <1>1 DEF Exact, Has
  <2>3. QED
    BY <1>1, <1>2, <2>1, <2>2, HasDomain
<1>4. \A f \in Existing : f \in Files /\ f \in DOMAIN seen /\ latest[f] > 0
  BY <1>3 DEF Existing
<1>5. QED
  BY <1>1, <1>3, <1>4, HasDomain DEF Existing, Exact

LEMMA NewPlanCurrent ==
  ASSUME DiskInv(seen, durable, latest), AllOf(1)
  PROVE  Current(NewPlan, latest) /\ NewPlan.files = Existing
<1>1. /\ Existing = {f \in Files : latest[f] > 0}
      /\ \A f \in Existing : seen[f] = Held(seen, f) /\ seen[f] \in {V(1, latest[f]), V(2, latest[f])}
  BY ExistingFiles
<1>2. \A f \in Existing : seen[f] = V(1, latest[f]) /\ seen[f].n = latest[f]
  BY <1>1, Schema12 DEF AllOf
<1> DEFINE c == [f \in Files |-> IF f \in Existing THEN seen[f].n ELSE 0]
<1>3. c \in [Files -> 0..MaxEdits]
  <2>1. MaxEdits \in Nat /\ latest \in [Files -> 0..MaxEdits]
    BY MigrationAssumption DEF DiskInv
  <2>2. ASSUME NEW f \in Files PROVE (IF f \in Existing THEN seen[f].n ELSE 0) \in 0..MaxEdits
    <3>1. CASE f \in Existing
      BY <1>2, <2>1, <3>1
    <3>2. CASE f \notin Existing
      BY <2>1, <3>2
    <3>3. QED
      BY <3>1, <3>2
  <2>3. QED
    BY <2>2
<1> HIDE DEF c
<1>4. NewPlan.dir \in {FirstDir, DirFor(c)}
  BY DEF NewPlan, c
<1>5. NewPlan.dir \in Dirs
  BY <1>3, <1>4 DEF Dirs
<1>6. NewPlan.files = Existing /\ \A f \in Existing : NewPlan.before[f] = seen[f]
  BY DEF NewPlan
<1>7. QED
  BY <1>1, <1>2, <1>5, <1>6 DEF Current

LEMMA StartMigrationKeeps ==
  ASSUME MigrationInv, StartMigration
  PROVE  MigrationInv'
<1>1. mode' = "migrating" /\ UNCHANGED <<seen, durable, latest>>
  BY DEF StartMigration
<1>2. DiskInv(seen, durable, latest) /\ NoNil(seen) /\ NoNil(durable)
  BY DEF MigrationInv, DiskInv
<1>3. Has(seen, Marker) <=> HasMarker
  BY <1>2, HasDomain DEF HasMarker
<1>4. CASE HasMarker
  <2>1. /\ Pending \in DOMAIN seen /\ plan' = seen[Marker].plan /\ step' = "replace" /\ todo' = plan'.files
    BY <1>4 DEF StartMigration
  <2>2. Has(seen, Marker) /\ Has(seen, Pending) /\ plan' = Held(seen, Marker).plan
    BY <1>2, <1>3, <1>4, <2>1, HasDomain DEF HasMarker
  <2>3. Current(plan', latest)
    BY <1>2, <2>2 DEF DiskInv, Markers, MarkerOK
  <2>4. plan'.files \subseteq Files
    BY <2>3 DEF Current
  <2>5. StepInv("migrating", "replace", plan', plan'.files, seen, durable, latest)
    BY <2>2, <2>3, <2>4 DEF StepInv
  <2>6. QED
    BY <1>1, <1>2, <2>1, <2>5 DEF MigrationInv
<1>5. CASE ~HasMarker
  <2>1. AllOf(1) /\ plan' = NewPlan /\ step' = "backup" /\ todo' = Existing
    BY <1>5 DEF StartMigration
  <2>2. Current(plan', latest) /\ plan'.files = Existing
    BY <1>2, <2>1, NewPlanCurrent
  <2>3. StepInv("migrating", "backup", plan', Existing, seen, durable, latest)
    BY <1>3, <1>5, <2>2 DEF StepInv, Existing
  <2>4. QED
    BY <1>1, <1>2, <2>1, <2>3 DEF MigrationInv
<1>6. QED
  BY <1>4, <1>5

-----------------------------------------------------------------------------
(* The restore.                                                             *)

LEMMA UnchangedCurrent ==
  ASSUME DiskInv(seen, durable, latest), HasMarker, Unchanged(seen[Marker].plan)
  PROVE  Current(seen[Marker].plan, latest) /\ Held(seen, Marker).plan = seen[Marker].plan
<1> DEFINE p == seen[Marker].plan
<1>1. NoNil(seen) /\ Has(seen, Marker) /\ Held(seen, Marker).plan = p
  BY HasDomain DEF DiskInv, HasMarker
<1>2. p.dir \in Dirs /\ \A f \in p.files : Stored(p, f, seen, durable)
  BY <1>1 DEF DiskInv, Markers, MarkerOK
<1>3. Existing = p.files /\ \A f \in p.files : seen[f] = Transformed(p.before[f])
  BY DEF Unchanged
<1>4. /\ Existing = {f \in Files : latest[f] > 0}
      /\ \A f \in Existing : seen[f] \in {V(1, latest[f]), V(2, latest[f])}
  BY ExistingFiles
<1> HIDE DEF p
<1>5. ASSUME NEW f \in p.files PROVE p.before[f] = V(1, latest[f])
  <2>1. PICK n \in Nat : p.before[f] = V(1, n)
    BY <1>2, <1>5 DEF Stored, Original
  <2>2. seen[f] = V(2, n) /\ seen[f] \in {V(1, latest[f]), V(2, latest[f])}
    BY <1>3, <1>4, <1>5, <2>1, Schema12
  <2>3. n = latest[f]
    <3>1. seen[f] # V(1, latest[f])
      BY <2>2, Schema12
    <3>2. QED
      BY <2>2, <3>1, Schema12
  <2>4. QED
    BY <2>1, <2>3
<1>6. QED
  BY <1>1, <1>2, <1>3, <1>4, <1>5 DEF Current, p

LEMMA StartRestoreKeeps ==
  ASSUME MigrationInv, StartRestore
  PROVE  MigrationInv'
<1>1. /\ mode = "v2" /\ HasMarker /\ Unchanged(seen[Marker].plan)
      /\ mode' = "restoring" /\ plan' = seen[Marker].plan /\ step' = "undo" /\ todo' = todo
      /\ UNCHANGED <<seen, durable, latest>>
  BY DEF StartRestore
<1>2. DiskInv(seen, durable, latest) /\ StepInv(mode, step, plan, todo, seen, durable, latest)
  BY DEF MigrationInv
<1>3. Current(plan', latest) /\ Held(seen, Marker).plan = plan'
  BY <1>1, <1>2, UnchangedCurrent
<1>4. /\ todo = {} /\ Has(seen, Marker) /\ Has(durable, Marker)
      /\ ~Has(seen, Pending) /\ ~Has(durable, Pending)
  BY <1>1, <1>2 DEF StepInv
<1>5. StepInv("restoring", "undo", plan', {}, seen, durable, latest)
  BY <1>3, <1>4 DEF StepInv
<1>6. QED
  BY <1>1, <1>2, <1>4, <1>5 DEF MigrationInv

\* From its first step to its last but one, the restore has the marker on both disks.
LEMMA RestoreFacts ==
  ASSUME MigrationInv, step \in {"undo", "originals", "forget"}
  PROVE  /\ mode = "restoring" /\ Has(seen, Marker) /\ Has(durable, Marker)
         /\ Held(seen, Marker).plan = plan
BY DEF MigrationInv, StepInv

LEMMA RestorePendingKeeps ==
  ASSUME MigrationInv, RestorePending
  PROVE  MigrationInv'
<1> DEFINE c == [kind |-> "rollback"]
<1>1. step = "undo" /\ latest' = latest /\ Step(Pending, c, "originals", plan.files)
  BY DEF RestorePending
<1>2. c # Nil
  BY DEF Nil
<1> HIDE DEF c
<1>3. Current(plan, latest) /\ plan.files \subseteq Files
  BY <1>1, PlanFacts DEF PlanSteps
<1>4. DiskInv(seen, durable, latest)
  BY DEF MigrationInv
<1>5. mode = "restoring" /\ Has(seen, Marker) /\ Has(durable, Marker) /\ Held(seen, Marker).plan = plan
  BY <1>1, RestoreFacts
<1>6. ASSUME NEW new, Changed(seen, new, Pending, c) PROVE DiskInv(new, durable, latest)
  BY <1>2, <1>3, <1>4, <1>5, <1>6, PutPending
<1>7. ASSUME NEW new, NEW nd, Changed(seen, new, Pending, c), Synced(new, durable, nd, Top \cup {Pending})
      PROVE  StepInv(mode, "originals", plan, plan.files, new, nd, latest)
  <2>1. Held(new, Marker) = Held(seen, Marker) /\ Held(nd, Marker) = Held(new, Marker)
    BY <1>7, Objects, TopObjects, WriteHeld
  <2>2. Has(new, Pending) /\ Has(nd, Pending)
    BY <1>2, <1>7, WriteHeld DEF Has
  <2>3. QED
    BY <1>3, <1>5, <2>1, <2>2 DEF StepInv, Has
<1>8. QED
  BY <1>1, <1>6, <1>7, StepKeeps

LEMMA RestoreFileKeeps ==
  ASSUME MigrationInv, NEW f \in Files, RestoreFile(f)
  PROVE  MigrationInv'
<1> DEFINE c == V(1, latest[f])
<1>1. step = "originals" /\ f \in todo /\ latest' = latest /\ Step(f, plan.before[f], step, todo \ {f})
  BY DEF RestoreFile
<1>2. /\ Current(plan, latest) /\ todo \subseteq plan.files /\ plan.files \subseteq Files
      /\ latest[f] > 0 /\ plan.before[f] = c
  BY <1>1, PlanFacts DEF PlanSteps
<1> HIDE DEF c
<1>3. DiskInv(seen, durable, latest) /\ StepInv(mode, step, plan, todo, seen, durable, latest)
  BY DEF MigrationInv
<1>4. /\ mode = "restoring" /\ Has(seen, Marker) /\ Has(durable, Marker) /\ Held(seen, Marker).plan = plan
      /\ Has(seen, Pending) /\ Has(durable, Pending)
      /\ \A g \in plan.files \ todo : Is(1, g, seen, durable, latest)
  BY <1>1, <1>3, RestoreFacts DEF StepInv
<1>5. ASSUME NEW new, Changed(seen, new, f, c) PROVE DiskInv(new, durable, latest)
  <2>1. 1 \in {1, 2}
    OBVIOUS
  <2>2. QED
    BY <1>2, <1>3, <1>4, <1>5, <2>1, PutFile DEF c
<1>6. ASSUME NEW new, NEW nd, Changed(seen, new, f, c), Synced(new, durable, nd, Top \cup {f})
      PROVE  StepInv(mode, "originals", plan, todo \ {f}, new, nd, latest)
  <2>1. /\ Held(new, f) = c /\ Held(nd, f) = c
        /\ \A x : x # f => Held(new, x) = Held(seen, x)
        /\ \A x \in Top : Held(nd, x) = Held(new, x)
    BY <1>6, WriteHeld
  <2>2. /\ Held(new, Marker) = Held(seen, Marker) /\ Held(nd, Marker) = Held(seen, Marker)
        /\ Held(new, Pending) = Held(seen, Pending) /\ Held(nd, Pending) = Held(seen, Pending)
    BY <2>1, Objects, TopObjects
  <2>3. \A s, g : g # f /\ Is(s, g, seen, durable, latest) => Is(s, g, new, nd, latest)
    BY <1>6, WriteCarries
  <2>4. Is(1, f, new, nd, latest)
    BY <2>1 DEF Is, c
  <2>5. \A g \in plan.files \ (todo \ {f}) : Is(1, g, new, nd, latest)
    BY <1>4, <2>3, <2>4
  <2>6. todo \ {f} \subseteq Files /\ todo \ {f} \subseteq plan.files
    BY <1>2
  <2>7. QED
    BY <1>2, <1>4, <2>2, <2>5, <2>6 DEF StepInv, Has
<1>7. QED
  BY <1>1, <1>2, <1>5, <1>6, StepKeeps

LEMMA RecordRollbackKeeps ==
  ASSUME MigrationInv, RecordRollback
  PROVE  MigrationInv'
<1> DEFINE c == [kind |-> "rollback", files |-> plan.files, before |-> plan.before, dir |-> plan.dir]
<1>1. step = "originals" /\ todo = {} /\ latest' = latest /\ Step(Rollback, c, "forget", {})
  BY DEF RecordRollback
<1> HIDE DEF c
<1>2. Current(plan, latest)
  BY <1>1, PlanFacts DEF PlanSteps
<1>3. DiskInv(seen, durable, latest) /\ StepInv(mode, step, plan, todo, seen, durable, latest)
  BY DEF MigrationInv
<1>4. /\ mode = "restoring" /\ Has(seen, Marker) /\ Has(durable, Marker) /\ Held(seen, Marker).plan = plan
      /\ Has(seen, Pending) /\ Has(durable, Pending)
      /\ \A g \in plan.files : Is(1, g, seen, durable, latest)
  BY <1>1, <1>3, RestoreFacts DEF StepInv
<1>5. ASSUME NEW new, Changed(seen, new, Rollback, c) PROVE DiskInv(new, durable, latest)
  BY <1>3, <1>5, PutRollback
<1>6. ASSUME NEW new, NEW nd, Changed(seen, new, Rollback, c), Synced(new, durable, nd, Top \cup {Rollback})
      PROVE  StepInv(mode, "forget", plan, {}, new, nd, latest)
  <2>1. /\ \A x : x # Rollback => Held(new, x) = Held(seen, x)
        /\ \A x \in Top : Held(nd, x) = Held(new, x)
    BY <1>6, WriteHeld
  <2>2. /\ Held(new, Marker) = Held(seen, Marker) /\ Held(nd, Marker) = Held(seen, Marker)
        /\ Held(new, Pending) = Held(seen, Pending) /\ Held(nd, Pending) = Held(seen, Pending)
    BY <2>1, Objects, TopObjects
  <2>3. \A g \in plan.files : Is(1, g, new, nd, latest)
    <3>1. \A s, g : g # Rollback /\ Is(s, g, seen, durable, latest) => Is(s, g, new, nd, latest)
      BY <1>6, WriteCarries
    <3>2. \A g \in plan.files : g # Rollback
      BY <1>2, Objects DEF Current
    <3>3. QED
      BY <1>4, <3>1, <3>2
  <2>4. One(1, new, nd, latest)
    BY <1>2, <2>3 DEF One, Current
  <2>5. QED
    BY <1>2, <1>4, <2>2, <2>4 DEF StepInv, Has
<1>7. QED
  BY <1>1, <1>5, <1>6, StepKeeps

LEMMA RemoveMarkerKeeps ==
  ASSUME MigrationInv, RemoveMarker
  PROVE  MigrationInv'
<1>1. step = "forget" /\ latest' = latest /\ Step(Marker, Nil, "settle", {})
  BY DEF RemoveMarker
<1>2. DiskInv(seen, durable, latest) /\ StepInv(mode, step, plan, todo, seen, durable, latest)
  BY DEF MigrationInv
<1>3. mode = "restoring" /\ Has(seen, Pending) /\ Has(durable, Pending) /\ One(1, seen, durable, latest)
  BY <1>1, <1>2 DEF StepInv
<1>4. ASSUME NEW new, Changed(seen, new, Marker, Nil) PROVE DiskInv(new, durable, latest)
  BY <1>2, <1>3, <1>4, DropMarker
<1>5. ASSUME NEW new, NEW nd, Changed(seen, new, Marker, Nil), Synced(new, durable, nd, Top \cup {Marker})
      PROVE  StepInv(mode, "settle", plan, {}, new, nd, latest)
  <2>1. /\ Held(new, Marker) = Nil /\ Held(nd, Marker) = Nil
        /\ Held(new, Pending) = Held(seen, Pending) /\ Held(nd, Pending) = Held(new, Pending)
    BY <1>5, Objects, TopObjects, WriteHeld
  <2>2. QED
    BY <1>3, <2>1 DEF StepInv, PlanSteps, Has
<1>6. QED
  BY <1>1, <1>4, <1>5, StepKeeps

LEMMA EndRestoreKeeps ==
  ASSUME MigrationInv, EndRestore
  PROVE  MigrationInv'
<1>1. step = "settle" /\ latest' = latest
  BY DEF EndRestore
<1>2. DiskInv(seen, durable, latest) /\ StepInv(mode, step, plan, todo, seen, durable, latest)
  BY DEF MigrationInv
<1>3. ~Has(seen, Marker) /\ ~Has(durable, Marker) /\ todo = {}
  BY <1>1, <1>2 DEF StepInv
<1>4. \A new : Changed(seen, new, Pending, Nil) => DiskInv(new, durable, latest)
  BY <1>2, <1>3, DropPending
<1>5. CASE WriteFailed(Pending, Nil)
  BY <1>1, <1>4, <1>5, FailedKeeps
<1>6. CASE Writes(Pending, Nil) /\ mode' = "down" /\ step' = "none" /\ plan' = Quiet /\ UNCHANGED todo
  <2>1. DiskInv(seen', durable', latest')
    BY <1>1, <1>2, <1>4, <1>6, WriteKeeps
  <2>2. QED
    BY <1>3, <1>6, <2>1, StepDown DEF MigrationInv
<1>7. QED
  BY <1>5, <1>6 DEF EndRestore

-----------------------------------------------------------------------------
(* The servers, and what interrupts a program.                              *)

LEMMA StartV1Keeps ==
  ASSUME MigrationInv, StartV1
  PROVE  MigrationInv'
<1>1. mode = "down" /\ ~HasMarker /\ mode' = "v1" /\ UNCHANGED <<step, plan, todo, seen, durable, latest>>
  BY DEF StartV1
<1>2. DiskInv(seen, durable, latest) /\ StepInv(mode, step, plan, todo, seen, durable, latest) /\ NoNil(seen)
  BY DEF MigrationInv, DiskInv
<1>3. ~Has(seen, Marker) /\ step = "none" /\ todo = {}
  BY <1>1, <1>2, HasDomain DEF HasMarker, StepInv
<1>4. StepInv("v1", "none", plan, {}, seen, durable, latest)
  BY <1>3 DEF StepInv, PlanSteps
<1>5. QED
  BY <1>1, <1>2, <1>3, <1>4 DEF MigrationInv

\* A server that runs alone changes a file and keeps its schema.
LEMMA EditFile ==
  ASSUME NEW sn, NEW dr, NEW lt, NEW new, NEW nd, NEW lt2, NEW f \in Files, NEW s \in {1, 2},
         DiskInv(sn, dr, lt), lt2 \in [Files -> 0..MaxEdits],
         lt2[f] > 0, \A g \in Files : g # f => lt2[g] = lt[g],
         Changed(sn, new, f, V(s, lt2[f])), Synced(new, dr, nd, Top \cup {f}), One(s, sn, dr, lt),
         \/ s = 1 /\ ~Has(sn, Marker)
         \/ s = 2 /\ Has(sn, Marker) /\ Has(dr, Marker) /\ ~Has(sn, Pending) /\ ~Has(dr, Pending)
  PROVE  /\ DiskInv(new, nd, lt2)
         /\ Held(new, Marker) = Held(sn, Marker) /\ Held(nd, Marker) = Held(sn, Marker)
         /\ Held(new, Pending) = Held(sn, Pending) /\ Held(nd, Pending) = Held(sn, Pending)
<1> DEFINE c == V(s, lt2[f])
<1>1. /\ Held(new, f) = c /\ Held(nd, f) = c
      /\ \A x : x # f => Held(new, x) = Held(sn, x)
      /\ \A x \in Top : Held(nd, x) = Held(new, x)
      /\ \A x : x # f => Held(nd, x) = Held(dr, x) \/ Held(nd, x) = Held(sn, x)
  <2>1. Changed(sn, new, f, c) /\ Synced(new, dr, nd, Top \cup {f})
    OBVIOUS
  <2> HIDE DEF c
  <2>2. QED
    BY <2>1, WriteHeld
<1>2. /\ Held(new, Marker) = Held(sn, Marker) /\ Held(nd, Marker) = Held(sn, Marker)
      /\ Held(new, Pending) = Held(sn, Pending) /\ Held(nd, Pending) = Held(sn, Pending)
  BY <1>1, Objects, TopObjects
<1>3. NoNil(new) /\ NoNil(nd) /\ lt2[StateFile] > 0
  BY Objects DEF Changed, Synced, DiskInv
<1>4. c \in {V(1, lt2[f]), V(2, lt2[f])}
  OBVIOUS
<1>5. \A g \in Files : Held(new, g) # Held(sn, g) => g = f
  BY <1>1
<1>6. Exact(new, lt2)
  <2>1. ASSUME NEW g \in Files
        PROVE  /\ lt2[g] = 0 => Held(new, g) = Nil
               /\ lt2[g] > 0 => Held(new, g) \in {V(1, lt2[g]), V(2, lt2[g])}
    <3>1. CASE g = f
      BY <1>1, <1>4, <3>1
    <3>2. CASE g # f
      BY <1>1, <3>2 DEF DiskInv, Exact
    <3>3. QED
      BY <3>1, <3>2
  <2>2. QED
    BY <2>1 DEF Exact
<1>7. Exact(nd, lt2)
  <2>1. ASSUME NEW g \in Files
        PROVE  /\ lt2[g] = 0 => Held(nd, g) = Nil
               /\ lt2[g] > 0 => Held(nd, g) \in {V(1, lt2[g]), V(2, lt2[g])}
    <3>1. CASE g = f
      BY <1>1, <1>4, <3>1
    <3>2. CASE g # f
      BY <1>1, <3>2 DEF DiskInv, Exact
    <3>3. QED
      BY <3>1, <3>2
  <2>2. QED
    BY <2>1 DEF Exact
<1>8. One(s, new, nd, lt2)
  <2>1. ASSUME NEW g \in Files, lt2[g] > 0 PROVE Is(s, g, new, nd, lt2)
    <3>1. CASE g = f
      BY <1>1, <3>1 DEF Is
    <3>2. CASE g # f
      BY <1>1, <2>1, <3>2 DEF One, Is
    <3>3. QED
      BY <3>1, <3>2
  <2>2. QED
    BY <2>1 DEF One
<1>9. \A p, g : p.dir \in Dirs /\ g \in Files /\ Stored(p, g, sn, dr) => Stored(p, g, new, nd)
  <2>1. \A p, g : Stored(p, g, sn, dr) /\ Backup(p.dir, g) # f => Stored(p, g, new, nd)
    BY WriteCarries
  <2>2. QED
    BY <2>1, Objects
<1>10. Markers(new, nd, lt2)
  BY <1>2, <1>9 DEF DiskInv, Markers, MarkerOK, Has
<1>11. Schemas(new, nd, lt2)
  BY <1>2, <1>8 DEF Schemas, Has
<1>12. QED
  BY <1>2, <1>3, <1>6, <1>7, <1>10, <1>11 DEF DiskInv

LEMMA EditKeeps ==
  ASSUME MigrationInv, NEW f \in Files, Edit(f)
  PROVE  MigrationInv'
<1> DEFINE s == IF mode = "v1" THEN 1 ELSE 2
<1>1. mode \in {"v1", "v2"} /\ latest' = [latest EXCEPT ![f] = @ + 1]
      /\ UNCHANGED <<mode, step, plan, todo, losses>>
  BY DEF Edit
<1>2. DiskInv(seen, durable, latest) /\ StepInv(mode, step, plan, todo, seen, durable, latest)
      /\ NoNil(seen) /\ NoNil(durable) /\ latest \in [Files -> 0..MaxEdits]
  BY DEF MigrationInv, DiskInv
<1>3. /\ latest'[f] = latest[f] + 1 /\ \A g \in Files : g # f => latest'[g] = latest[g]
      /\ DOMAIN latest' = Files
  BY <1>1, <1>2
<1>4. latest' \in [Files -> 0..MaxEdits] /\ latest'[f] > 0
  <2>1. MaxEdits \in Nat
    BY MigrationAssumption
  <2>2. latest[StateFile] \in Nat /\ latest[Receipt] \in Nat /\ latest[StateFile] + latest[Receipt] < MaxEdits
        /\ \A g \in Files : latest[g] \in 0..MaxEdits
    BY <1>2, <2>1, Objects DEF Edit
  <2>3. latest[f] + 1 \in 0..MaxEdits
    BY <2>1, <2>2, Objects
  <2>4. \A g \in Files : latest'[g] \in 0..MaxEdits
    BY <1>3, <2>2, <2>3
  <2>5. latest' = [g \in Files |-> latest'[g]]
    BY <1>1, <1>2
  <2>6. latest[f] + 1 > 0
    BY <2>1, <2>2
  <2>7. QED
    BY <1>3, <2>4, <2>5, <2>6
<1>5. seen' = Becomes(seen, f, V(s, latest[f] + 1)) /\ SyncAll(seen', Top \cup {f})
  BY DEF Edit, Put, Sync
<1>6. Changed(seen, seen', f, V(s, latest'[f]))
  BY <1>2, <1>3, <1>5, BecomesHeld
<1>7. Synced(seen', durable, durable', Top \cup {f})
  <2>1. NoNil(seen')
    BY <1>6 DEF Changed
  <2>2. QED
    BY <1>2, <1>5, <2>1, SyncHeld
<1>8. /\ s \in {1, 2} /\ One(s, seen, durable, latest)
      /\ \/ s = 1 /\ ~Has(seen, Marker)
         \/ s = 2 /\ Has(seen, Marker) /\ Has(durable, Marker) /\ ~Has(seen, Pending) /\ ~Has(durable, Pending)
  <2>1. CASE mode = "v1"
    BY <1>2, <2>1 DEF StepInv, DiskInv, Schemas
  <2>2. CASE mode = "v2"
    BY <1>2, <2>2 DEF StepInv, DiskInv, Schemas
  <2>3. QED
    BY <1>1, <2>1, <2>2
<1> HIDE DEF s
<1>9. /\ DiskInv(seen', durable', latest')
      /\ Held(seen', Marker) = Held(seen, Marker) /\ Held(durable', Marker) = Held(seen, Marker)
      /\ Held(seen', Pending) = Held(seen, Pending) /\ Held(durable', Pending) = Held(seen, Pending)
  BY <1>2, <1>3, <1>4, <1>6, <1>7, <1>8, EditFile
<1>10. StepInv(mode', step', plan', todo', seen', durable', latest')
  <2>1. step = "none" /\ todo = {}
    BY <1>1, <1>2 DEF StepInv
  <2>2. mode = "v1" => ~Has(seen, Marker)
    BY <1>2 DEF StepInv
  <2>3. mode = "v2" => Has(seen, Marker) /\ ~Has(seen, Pending)
    BY <1>2 DEF StepInv
  <2>4. QED
    BY <1>1, <1>9, <2>1, <2>2, <2>3 DEF StepInv, PlanSteps, Has
<1>11. QED
  BY <1>9, <1>10 DEF MigrationInv

LEMMA StopServerKeeps ==
  ASSUME MigrationInv, StopServer
  PROVE  MigrationInv'
<1>1. mode \in {"v1", "v2"} /\ mode' = "down" /\ UNCHANGED <<step, plan, todo, seen, durable, latest>>
  BY DEF StopServer
<1>2. DiskInv(seen, durable, latest) /\ step = "none" /\ todo = {}
  BY <1>1 DEF MigrationInv, StepInv
<1>3. StepInv("down", "none", plan, {}, seen, durable, latest)
  BY DEF StepInv, PlanSteps
<1>4. QED
  BY <1>1, <1>2, <1>3 DEF MigrationInv

\* Whichever state of each object a loss of power leaves.
LEMMA MixKeeps ==
  ASSUME NEW sn, NEW dr, NEW lt, NEW new, DiskInv(sn, dr, lt), NoNil(new),
         \A x : Held(new, x) = Held(sn, x) \/ Held(new, x) = Held(dr, x)
  PROVE  DiskInv(new, new, lt)
<1>1. /\ lt \in [Files -> 0..MaxEdits] /\ lt[StateFile] > 0 /\ Exact(sn, lt) /\ Exact(dr, lt)
      /\ Markers(sn, dr, lt) /\ Schemas(sn, dr, lt)
  BY DEF DiskInv
<1>2. Exact(new, lt)
  BY <1>1 DEF Exact
<1>3. \A s : One(s, sn, dr, lt) => One(s, new, new, lt)
  BY DEF One, Is
<1>4. \A p, f : Stored(p, f, sn, dr) => Stored(p, f, new, new)
  BY DEF Stored
<1>5. \A o : /\ Has(new, o) => Has(sn, o) \/ Has(dr, o)
             /\ ~Has(new, o) => ~(Has(sn, o) /\ Has(dr, o))
  BY DEF Has
<1>6. Markers(new, new, lt)
  <2>1. ASSUME Has(new, Marker) PROVE MarkerOK(Held(new, Marker).plan, new, new, lt)
    <3>1. MarkerOK(Held(new, Marker).plan, sn, dr, lt)
      BY <1>1, <2>1 DEF Markers, Has
    <3>2. QED
      BY <1>4, <1>5, <3>1 DEF MarkerOK
  <2>2. QED
    BY <2>1 DEF Markers
<1>7. Schemas(new, new, lt)
  <2>1. ~Has(new, Marker) => One(1, new, new, lt)
    BY <1>1, <1>3, <1>5 DEF Schemas
  <2>2. Has(new, Marker) /\ ~Has(new, Pending) => One(2, new, new, lt)
    BY <1>1, <1>3, <1>5 DEF Schemas
  <2>3. QED
    BY <2>1, <2>2 DEF Schemas
<1>8. QED
  BY <1>1, <1>2, <1>6, <1>7 DEF DiskInv

LEMMA PowerLossKeeps ==
  ASSUME MigrationInv, PowerLoss
  PROVE  MigrationInv'
<1> DEFINE objects == DOMAIN seen \cup DOMAIN durable
           left(o, survivors) == Held(IF o \in survivors THEN seen ELSE durable, o)
<1>1. PICK survivors : seen' = [o \in {x \in objects : left(x, survivors) # Nil} |-> left(o, survivors)]
  BY DEF PowerLoss
<1>2. Resets /\ durable' = seen' /\ latest' = latest
  BY DEF PowerLoss
<1>3. DiskInv(seen, durable, latest)
  BY DEF MigrationInv
<1>4. DOMAIN seen' = {x \in objects : left(x, survivors) # Nil} /\ \A x \in DOMAIN seen' : seen'[x] = left(x, survivors)
  BY <1>1
<1>5. NoNil(seen')
  BY <1>4 DEF NoNil
<1>6. ASSUME NEW x PROVE Held(seen', x) = Held(seen, x) \/ Held(seen', x) = Held(durable, x)
  <2>1. CASE x \in DOMAIN seen'
    BY <1>4, <2>1 DEF Held
  <2>2. CASE x \notin DOMAIN seen'
    <3>1. Held(seen', x) = Nil
      BY <2>2 DEF Held
    <3>2. x \notin objects \/ left(x, survivors) = Nil
      BY <1>4, <2>2
    <3>3. CASE x \notin objects
      BY <3>1, <3>3 DEF Held
    <3>4. CASE left(x, survivors) = Nil
      BY <3>1, <3>4
    <3>5. QED
      BY <3>2, <3>3, <3>4
  <2>3. QED
    BY <2>1, <2>2
<1>7. DiskInv(seen', seen', latest)
  BY <1>3, <1>5, <1>6, MixKeeps
<1>8. QED
  BY <1>2, <1>7, ResetsKeeps

LEMMA DiesKeeps ==
  ASSUME MigrationInv, Dies
  PROVE  MigrationInv'
BY ResetsKeeps DEF Dies, MigrationInv

-----------------------------------------------------------------------------
(* The theorem.                                                             *)

LEMMA MigrationInvInit == MigrationInit => MigrationInv
<1> SUFFICES ASSUME MigrationInit PROVE MigrationInv
  OBVIOUS
<1>1. mode = "down" /\ step = "none" /\ plan = Quiet /\ todo = {} /\ durable = seen
  BY DEF MigrationInit
<1>2. /\ latest \in [Files -> 0..MaxEdits] /\ latest[StateFile] > 0
      /\ \A f \in Files : latest[f] = 0 \/ latest[f] = 1
  <2>1. PICK F \in {{StateFile}, Files} : latest = [f \in Files |-> IF f \in F THEN 1 ELSE 0]
    BY DEF MigrationInit
  <2>2. MaxEdits \in Nat \ {0}
    BY MigrationAssumption
  <2>3. 0 \in 0..MaxEdits /\ 1 \in 0..MaxEdits
    BY <2>2
  <2>4. QED
    BY <2>1, <2>3, Objects
<1>3. DOMAIN seen = {g \in Files : latest[g] = 1} /\ \A f \in DOMAIN seen : seen[f] = V(1, 1)
  BY DEF MigrationInit
<1>4. NoNil(seen)
  BY <1>3, Schema12 DEF NoNil
<1>5. \A f \in Files : Held(seen, f) = IF latest[f] = 1 THEN V(1, latest[f]) ELSE Nil
  BY <1>3 DEF Held
<1>6. Exact(seen, latest) /\ One(1, seen, durable, latest)
  BY <1>1, <1>2, <1>5 DEF Exact, One, Is
<1>7. ~Has(seen, Marker) /\ ~Has(durable, Marker)
  BY <1>1, <1>3, Objects DEF Has, Held
<1>8. Markers(seen, durable, latest) /\ Schemas(seen, durable, latest)
  BY <1>6, <1>7 DEF Markers, Schemas
<1>9. DiskInv(seen, durable, latest)
  BY <1>1, <1>2, <1>4, <1>6, <1>8 DEF DiskInv
<1>10. QED
  BY <1>1, <1>9, StepDown DEF MigrationInv

LEMMA MigrationInvStep == MigrationInv /\ [MigrationNext]_migrationVars => MigrationInv'
<1> SUFFICES ASSUME MigrationInv, [MigrationNext]_migrationVars PROVE MigrationInv'
  OBVIOUS
<1>1. CASE UNCHANGED migrationVars
  BY <1>1 DEF migrationVars, MigrationInv
<1>2. CASE AlreadyMigrated \/ StartMigration \/ WritePending \/ WriteMarker \/ EndMigration
  BY <1>2, AlreadyMigratedKeeps, StartMigrationKeeps, WritePendingKeeps, WriteMarkerKeeps, EndMigrationKeeps
<1>3. CASE StartRestore \/ RestorePending \/ RecordRollback \/ RemoveMarker \/ EndRestore
  BY <1>3, StartRestoreKeeps, RestorePendingKeeps, RecordRollbackKeeps, RemoveMarkerKeeps, EndRestoreKeeps
<1>4. CASE \E f \in Files : BackUp(f) \/ Replace(f) \/ RestoreFile(f) \/ Edit(f)
  BY <1>4, BackUpKeeps, ReplaceKeeps, RestoreFileKeeps, EditKeeps
<1>5. CASE StartV1 \/ StopServer \/ PowerLoss \/ Dies
  BY <1>5, StartV1Keeps, StopServerKeeps, PowerLossKeeps, DiesKeeps
<1>6. QED
  BY <1>1, <1>2, <1>3, <1>4, <1>5 DEF MigrationNext

LEMMA MigrationInvSafe == MigrationInv => MigrationIsSafe
<1> SUFFICES ASSUME MigrationInv PROVE MigrationIsSafe
  OBVIOUS
<1>1. DiskInv(seen, durable, latest) /\ StepInv(mode, step, plan, todo, seen, durable, latest)
      /\ NoNil(seen) /\ NoNil(durable) /\ Exact(seen, latest) /\ Exact(durable, latest)
      /\ Markers(seen, durable, latest) /\ Schemas(seen, durable, latest)
  BY DEF MigrationInv, DiskInv
<1>2. MigrationTypeOK
  <2>1. \A f \in Files : f \in DOMAIN seen => seen[f] \in [kind : {"data"}, schema : {1, 2}, n : 1..MaxEdits]
    <3>1. MaxEdits \in Nat /\ latest \in [Files -> 0..MaxEdits]
      BY <1>1, MigrationAssumption DEF DiskInv
    <3>2. \A f \in Existing : f \in Files /\ latest[f] > 0 /\ seen[f] \in {V(1, latest[f]), V(2, latest[f])}
      BY <1>1, ExistingFiles
    <3>3. \A f \in Existing : latest[f] \in 1..MaxEdits
      BY <3>1, <3>2
    <3>4. \A f \in Existing : seen[f] \in [kind : {"data"}, schema : {1, 2}, n : 1..MaxEdits]
      BY <3>2, <3>3 DEF V
    <3>5. QED
      BY <3>4 DEF Existing
  <2>2. /\ mode \in {"down", "migrating", "restoring", "v1", "v2"}
        /\ step \in {"none", "backup", "marker", "replace", "undo", "originals", "forget", "settle"}
        /\ todo \subseteq Files
        /\ (step = "none") <=> (mode \in {"down", "v1", "v2"})
    BY <1>1 DEF StepInv
  <2>3. (step = "none") = (mode \in {"down", "v1", "v2"})
    BY <2>2
  <2>4. QED
    BY <2>1, <2>2, <2>3 DEF MigrationTypeOK
<1>3. OriginalsSurvive
  <2>1. ASSUME NEW f \in Files, latest[f] > 0
        PROVE  /\ f \in DOMAIN durable /\ durable[f].n = latest[f]
               /\ Marker \in DOMAIN durable /\ f \in durable[Marker].plan.files =>
                    Held(durable, Backup(durable[Marker].plan.dir, f)) = durable[Marker].plan.before[f]
    <3>1. Has(durable, f) /\ Held(durable, f).n = latest[f]
      BY <1>1, <2>1, Schema12 DEF Exact, Has
    <3>2. f \in DOMAIN durable /\ durable[f].n = latest[f]
      BY <1>1, <3>1, HasDomain
    <3>3. ASSUME Marker \in DOMAIN durable, f \in durable[Marker].plan.files
          PROVE  Held(durable, Backup(durable[Marker].plan.dir, f)) = durable[Marker].plan.before[f]
      <4>1. Has(durable, Marker) /\ Held(durable, Marker) = durable[Marker]
        BY <1>1, <3>3, HasDomain
      <4>2. QED
        BY <1>1, <3>3, <4>1 DEF Markers, MarkerOK, Stored
    <3>4. QED
      BY <3>2, <3>3
  <2>2. QED
    BY <2>1 DEF OriginalsSurvive
<1>4. Resumable
  <2> DEFINE mixed(disk) ==
        \E f, g \in Files : f \in DOMAIN disk /\ g \in DOMAIN disk /\ disk[f].schema # disk[g].schema
  <2>1. ASSUME NEW s \in {1, 2}, One(s, seen, durable, latest)
        PROVE  /\ \A f \in Files \cap DOMAIN seen : seen[f].schema = s
               /\ \A f \in Files \cap DOMAIN durable : durable[f].schema = s
    <3>1. ASSUME NEW f \in Files PROVE latest[f] = 0 \/ latest[f] > 0
      <4>1. MaxEdits \in Nat /\ latest \in [Files -> 0..MaxEdits]
        BY <1>1, MigrationAssumption DEF DiskInv
      <4>2. QED
        BY <4>1
    <3>2. ASSUME NEW f \in Files, f \in DOMAIN seen PROVE seen[f].schema = s
      <4>1. Has(seen, f) /\ Held(seen, f) = seen[f]
        BY <1>1, <3>2, HasDomain
      <4>2. latest[f] > 0
        BY <1>1, <3>1, <4>1 DEF Exact, Has
      <4>3. seen[f] = V(s, latest[f])
        BY <2>1, <4>1, <4>2 DEF One, Is
      <4>4. QED
        BY <4>3, Schema12
    <3>3. ASSUME NEW f \in Files, f \in DOMAIN durable PROVE durable[f].schema = s
      <4>1. Has(durable, f) /\ Held(durable, f) = durable[f]
        BY <1>1, <3>3, HasDomain
      <4>2. latest[f] > 0
        BY <1>1, <3>1, <4>1 DEF Exact, Has
      <4>3. durable[f] = V(s, latest[f])
        BY <2>1, <4>1, <4>2 DEF One, Is
      <4>4. QED
        BY <4>3, Schema12
    <3>4. QED
      BY <3>2, <3>3
  <2>2. mode = "v1" => One(1, seen, durable, latest)
    BY <1>1 DEF StepInv, Schemas
  <2>3. mode = "v2" => One(2, seen, durable, latest)
    BY <1>1 DEF StepInv, Schemas
  <2>4. mode \in {"v1", "v2"} => AllOf(IF mode = "v1" THEN 1 ELSE 2)
    <3>1. CASE mode = "v1"
      <4>1. \A f \in Existing : seen[f].schema = 1
        BY <2>1, <2>2, <3>1 DEF Existing
      <4>2. QED
        BY <3>1, <4>1 DEF AllOf
    <3>2. CASE mode = "v2"
      <4>1. \A f \in Existing : seen[f].schema = 2
        BY <2>1, <2>3, <3>2 DEF Existing
      <4>2. QED
        BY <3>2, <4>1 DEF AllOf
    <3>3. QED
      BY <3>1, <3>2
  <2>5. ~One(1, seen, durable, latest) /\ ~One(2, seen, durable, latest)
          => Has(seen, Marker) /\ Has(durable, Marker) /\ Has(seen, Pending) /\ Has(durable, Pending)
    BY <1>1 DEF Schemas
  <2>6. ASSUME mixed(seen) \/ mixed(durable)
        PROVE  ~One(1, seen, durable, latest) /\ ~One(2, seen, durable, latest)
    <3>1. ASSUME NEW s \in {1, 2} PROVE ~One(s, seen, durable, latest)
      <4>1. SUFFICES ASSUME One(s, seen, durable, latest) PROVE FALSE
        OBVIOUS
      <4>2. /\ \A f \in Files \cap DOMAIN seen : seen[f].schema = s
            /\ \A f \in Files \cap DOMAIN durable : durable[f].schema = s
        BY <2>1, <4>1
      <4>3. QED
        BY <2>6, <4>2
    <3>2. QED
      BY <3>1
  <2>7. \A disk \in {seen, durable} : mixed(disk) => Marker \in DOMAIN disk /\ Pending \in DOMAIN disk
    <3>1. mixed(seen) \/ mixed(durable) =>
            /\ Marker \in DOMAIN seen /\ Pending \in DOMAIN seen
            /\ Marker \in DOMAIN durable /\ Pending \in DOMAIN durable
      BY <1>1, <2>5, <2>6, HasDomain
    <3>2. QED
      BY <3>1
  <2>8. QED
    BY <2>4, <2>7 DEF Resumable
<1>5. QED
  BY <1>2, <1>3, <1>4 DEF MigrationIsSafe

\* Whatever writes fail, deaths and losses of power interrupt a migration or a restore, and
\* however often one is started again: after a loss of power each file still says what a server
\* wrote last, a durable marker has the backups it names, no server works on a mix of schemas,
\* and a mixed directory can be carried forward (storage-migration.ts, migrateWorkspace and
\* restoreV1Workspace).
THEOREM MigrationIsSafeThm == MigrationSpec => []MigrationIsSafe
<1>1. MigrationInit => MigrationInv
  BY MigrationInvInit
<1>2. MigrationInv /\ [MigrationNext]_migrationVars => MigrationInv'
  BY MigrationInvStep
<1>3. MigrationInv => MigrationIsSafe
  BY MigrationInvSafe
<1>4. QED
  BY <1>1, <1>2, <1>3, PTL DEF MigrationSpec
=============================================================================
