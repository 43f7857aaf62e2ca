------------------------------ MODULE FilePages ------------------------------
(***************************************************************************)
(* Paging through a file (src/src/file-service.ts, readFileChunk() and     *)
(* downloadChunk()) while it is uploaded: a client follows nextOffset, and *)
(* another one adds chunks that end anywhere, also inside of a character.  *)
(*                                                                         *)
(* Of a UTF-8 text only the ends of its characters matter: it is the set   *)
(* of their byte offsets.  What is on disk is a prefix of the text.        *)
(***************************************************************************)
EXTENDS Naturals

CONSTANTS
  Texts,     \* the texts to choose from: ends of their characters, and size
  MaxChunk   \* maxChunkBytes

\* No character is longer than four bytes, and the configured limit is at least that.
WellFormed(t) ==
  /\ t.size \in Nat /\ t.ends \subseteq 0..t.size /\ {0, t.size} \subseteq t.ends
  /\ \A e \in t.ends : e < t.size => \E f \in t.ends : e < f /\ f <= e + 4

ASSUME PagesAssumption == MaxChunk \in Nat /\ MaxChunk >= 4 /\ \A t \in Texts : WellFormed(t)

VARIABLES
  text,      \* what is uploaded
  size,      \* its bytes that are on disk
  encoding,  \* that the reader asks for
  offset,    \* of its next call
  read,      \* its call between stat() and read()
  page       \* the answer to its last call

pageVars == <<text, size, encoding, offset, read, page>>

NoRead == [open |-> FALSE, asked |-> 0, sized |-> 0]
Page(kind, from, to, asked, sized, eof) ==
  [kind |-> kind, from |-> from, to |-> to, asked |-> asked, sized |-> sized, eof |-> eof]

PagesInit ==
  /\ text \in Texts /\ size = 0 /\ encoding \in {"utf8", "base64"}
  /\ offset = 0 /\ read = NoRead /\ page = Page("none", 0, 0, 0, 0, FALSE)

Least(a, b) == IF a <= b THEN a ELSE b

-----------------------------------------------------------------------------
(* uploadChunk(), called with the nextOffset of the previous chunk.        *)
Upload(n) ==
  /\ n <= MaxChunk /\ size + n <= text.size
  /\ size' = size + n
  /\ UNCHANGED <<text, encoding, offset, read, page>>

\* readFileChunk() has the size of the file before it reads.
Stat(asked) ==
  /\ ~read.open /\ read' = [open |-> TRUE, asked |-> asked, sized |-> size]
  /\ UNCHANGED <<text, size, encoding, offset, page>>

From       == Least(offset, read.sized)
Remaining  == read.sized - From
Requested  == Least(Least(read.asked, MaxChunk), Remaining)

MutantNoProbe == Requested

\* Three bytes more, for a character that does not fit.
Probe == IF encoding = "utf8" THEN Least(Least(MaxChunk, Remaining), Requested + 3) ELSE Requested

EndsIn(n) == {e \in text.ends : From < e /\ e <= From + n}

\* utf8ChunkLength() fails: the file was not cut at a character, and no earlier end would do.
Truncated ==
  /\ From + Probe >= read.sized /\ From + Probe \notin text.ends
  /\ \A e \in EndsIn(Probe) : e < From + Requested

\* The last end within what was requested, else the first one of the probe, else nothing.
ChunkEnds(to) ==
  \/ to \in EndsIn(Requested) /\ \A e \in EndsIn(Requested) : e <= to
  \/ EndsIn(Requested) = {} /\ to \in EndsIn(Probe) /\ \A e \in EndsIn(Probe) : to <= e
  \/ EndsIn(Probe) = {} /\ to = From

Reply(kind, to) ==
  /\ read.open /\ read' = NoRead
  /\ page' = Page(kind, From, to, read.asked, read.sized, kind = "chunk" /\ to >= read.sized)
  /\ offset' = to
  /\ UNCHANGED <<text, size, encoding>>

Decodes == encoding = "utf8" /\ Probe > 0

ReadBytes == ~Decodes /\ Reply("chunk", From + Requested)

ReadText ==
  /\ Decodes /\ From \in text.ends /\ ~Truncated
  /\ \E to \in From..(From + Probe) : ChunkEnds(to) /\ Reply("chunk", to)

\* "Invalid UTF-8" or "Truncated UTF-8": the client may ask again from the same offset.
ReadFails == Decodes /\ (From \notin text.ends \/ Truncated) /\ Reply("error", From)

PagesNext ==
  \/ \E n \in 1..MaxChunk : Upload(n)
  \/ \E asked \in 1..MaxChunk : Stat(asked)
  \/ ReadBytes \/ ReadText \/ ReadFails

PagesSpec == PagesInit /\ [][PagesNext]_pageVars
-----------------------------------------------------------------------------
PagesTypeOK ==
  /\ text \in Texts /\ size \in 0..text.size /\ encoding \in {"utf8", "base64"}
  /\ offset \in 0..size
  /\ read \in [open : BOOLEAN, asked : 0..MaxChunk, sized : 0..size]
  /\ page \in [kind : {"none", "chunk", "error"}, from : 0..size, to : 0..size,
               asked : 0..MaxChunk, sized : 0..size, eof : BOOLEAN]

\* "preserves UTF-8 characters across every small chunk boundary", also while the file grows:
\* pages follow each other without a gap, consist of whole characters, and exceed neither
\* the chunk limit nor what was asked by more than three bytes; each one advances unless it
\* is at the end of the file, which it says exactly then; and a call fails only if the
\* upload had stopped inside of a character, so that calling again will do.
PagesAreExact ==
  /\ PagesTypeOK
  /\ page.kind # "none" => offset = page.to
  /\ encoding = "utf8" => offset \in text.ends
  /\ page.kind = "chunk" =>
       /\ page.to <= page.from + MaxChunk /\ page.to <= page.from + page.asked + 3
       /\ page.eof = (page.to = page.sized)
       /\ ~page.eof => page.from < page.to
  /\ page.kind = "error" => page.to = page.from /\ page.sized \notin text.ends
=============================================================================
