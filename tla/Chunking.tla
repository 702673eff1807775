------------------------------ MODULE Chunking ------------------------------
(***************************************************************************)
(* The token windows of a document: those of the index (_token_chunk_text, *)
(* 350 tokens sharing 52) and of the summary's map stage                   *)
(* (_chunk_text_by_tokens, 1500 sharing 96).  The two loops differ in      *)
(* form, not in the windows they visit.  The chunks of the index are the   *)
(* text from the first token of a window to its last, where not blank.     *)
(*                                                                         *)
(* A document d has d.tokens tokens, numbered from 0, the offsets in its   *)
(* text that the tokenizer reports for each, and, in d.ink, the positions  *)
(* of its characters that are not blank.                                   *)
(***************************************************************************)
EXTENDS Integers, FiniteSetsExt

CONSTANTS
  ChunkSize,    \* tokens of a window
  ChunkOverlap  \* tokens shared with the next one

\* What the summary's function requires and the index's arguments meet.
ASSUME ChunkAssumption ==
  /\ ChunkSize \in Nat \ {0}
  /\ ChunkOverlap \in 0 .. (ChunkSize - 1)

\* By how much the start advances.
Stride == ChunkSize - ChunkOverlap

\* Window i of the tokens [0, n).
Window(n, i) == [start |-> i * Stride, end |-> Min({i * Stride + ChunkSize, n})]

\* From a window that reaches the end there is no further one.
LastWindow(n) == Min({i \in 0 .. n : i * Stride + ChunkSize >= n})

Windows(n) == {Window(n, i) : i \in 0 .. LastWindow(n)}

\* The windows cover the n tokens, none lies within another, and one that does not
\* reach the end is followed by one that shares exactly the overlap with it.
WindowsCover(n) ==
  LET windows == Windows(n)
  IN /\ UNION {(w.start + 1) .. w.end : w \in windows} = 1 .. n
     /\ \A w, v \in windows : w # v => ~(w.start >= v.start /\ w.end <= v.end)
     /\ \A w \in windows : w.end < n => \E v \in windows : v.start = w.end - ChunkOverlap

-----------------------------------------------------------------------------
\* The offsets of a token the tokenizer adds, which is no part of the text.
NoText == [start |-> 0, end |-> 0]

\* Mutant: a chunk ends where its last token begins.
ChunkToLastToken(d, i) ==
  LET w == Window(d.tokens, i)
  IN [start_char |-> d.offsets[w.start].start, end_char |-> d.offsets[w.end - 1].start]

\* The text of window i, by its offsets.
Chunk(d, i) ==
  LET w == Window(d.tokens, i)
  IN [start_char |-> d.offsets[w.start].start, end_char |-> d.offsets[w.end - 1].end]

Within(chunk, c) == chunk.start_char <= c /\ c < chunk.end_char

\* The windows that are chunks: those with a character that strip() leaves.  The code
\* numbers them anew, in the same order.
Chunks(d) ==
  {i \in 0 .. LastWindow(d.tokens) :
     d.tokens # 0 /\ LET chunk == Chunk(d, i) IN \E c \in d.ink : Within(chunk, c)}

\* The first token that no window but the last one holds.
OnlyInLast(n) ==
  LET last == LastWindow(n) IN IF last = 0 THEN 0 ELSE Window(n, last - 1).end

\* The tokens without a chunk when the last token is no text: the last window then ends at
\* offset 0 and has no text either.
Dropped(d) ==
  IF d.tokens # 0 /\ d.offsets[d.tokens - 1] = NoText
    THEN OnlyInLast(d.tokens) .. (d.tokens - 1)
    ELSE {}

\* Every character of a token that is not dropped is in a chunk, unless it is blank.
ChunksCover(d) ==
  LET chunks == {Chunk(d, i) : i \in Chunks(d)}
  IN \A t \in (0 .. (d.tokens - 1)) \ Dropped(d) :
       \A c \in (d.offsets[t].start .. (d.offsets[t].end - 1)) \cap d.ink :
         \E chunk \in chunks : Within(chunk, c)
=============================================================================
