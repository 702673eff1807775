------------------------------ MODULE QaAnswer ------------------------------
(***************************************************************************)
(* The text of one answer, from the document to the screen: the chunks of  *)
(* the index, the context built from the retrieved ones, the model's text  *)
(* with its thinking removed (process_qa_task), the frames of the stream,  *)
(* and their reading in chunks of any size (streamGleanAnswer).            *)
(*                                                                         *)
(* A loop of the code takes one action per iteration: over the retrieved   *)
(* items, over the tags in the filter's buffer, over the blocks in the     *)
(* tab's buffer.  A frame is a line break more than its three parts, any   *)
(* of which may end a chunk.  What the tab reads depends on the bytes sent *)
(* and on how they are cut, not on when they were sent: it starts once all *)
(* are.                                                                    *)
(***************************************************************************)
EXTENDS Chunking, Sequences, SequencesExt

CONSTANTS
  Documents,     \* the documents: their tokens, offsets and ink (Chunking)
  Near,          \* 20 characters
  MaxRetrieved,  \* at most five chunks are retrieved
  Char,          \* the characters of a text
  OpenTag,       \* <think>
  CloseTag,      \* </think>
  Fallback,      \* the text published without evidence, or for an empty answer
  Texts          \* the texts the model generates

IsBlank(s) == \A i \in DOMAIN s : s[i] = " "

\* What the index takes for granted of a tokenizer: offsets that do not decrease, but for
\* a last token that is no text.
ASSUME DocumentAssumption ==
  \A d \in Documents :
    /\ d.tokens \in Nat
    /\ \A t \in 0 .. (d.tokens - 1) : d.offsets[t] \in [start : Nat, end : Nat]
    /\ \A t \in 1 .. (d.tokens - 1) :
         \/ /\ d.offsets[t - 1].start <= d.offsets[t].start
            /\ d.offsets[t - 1].end <= d.offsets[t].end
         \/ t = d.tokens - 1 /\ d.offsets[t] = NoText
    /\ d.ink \subseteq Nat

ASSUME QaAnswerAssumption ==
  /\ {Near, MaxRetrieved} \subseteq Nat
  /\ {OpenTag, CloseTag, Fallback} \subseteq Seq(Char) \ {<<>>}
  /\ OpenTag[1] # " "
  /\ ~IsBlank(Fallback)
  /\ Texts \subseteq Seq(Char)

VARIABLES
  step,        \* index, retrieve, assemble, generate, clean, read, parse, or how it ended
  doc,         \* the document
  retrieved,   \* the chunks retrieved for the question
  remaining,   \* those the loop of _assemble_context has not reached
  blocks,      \* the blocks of the context: sequences of chunks
  text,        \* what the model generates
  position,    \* how much of it has been streamed to the worker
  think,       \* the filter's state: buffer and is_thinking
  output,      \* the visible text of the delta being filtered
  fullAnswer,  \* the text published so far
  wire,        \* what is sent to the tab and not yet read
  buffer,      \* the tab's incomplete blocks
  message      \* the assistant message

documentVars == <<doc, retrieved, remaining, blocks>>
workerVars   == <<text, position, think, output, fullAnswer>>
tabVars      == <<buffer, message>>
vars         == <<step, documentVars, workerVars, wire, tabVars>>

LastN(s, n) == SubSeq(s, Len(s) - n + 1, Len(s))
From(s, i)  == SubSeq(s, i, Len(s))

\* Whether the pattern begins at position i.
Occurs(s, i, pattern) ==
  /\ i + Len(pattern) - 1 <= Len(s)
  /\ SubSeq(s, i, i + Len(pattern) - 1) = pattern

\* str.find, from 1; 0 when there is none.
Find(s, pattern) ==
  LET at == {i \in DOMAIN s : Occurs(s, i, pattern)}
  IN IF at = {} THEN 0 ELSE Min(at)

-----------------------------------------------------------------------------
\* The index and the context.

Adjacent(a, b) == b.start_char - a.end_char \in -(Near - 1) .. (Near - 1)

\* Mutant: the items are taken in the order of their scores.
ByScore(ids) == Max(ids)

\* The next item in the order of the document.
InDocumentOrder(ids) == Min(ids)

-----------------------------------------------------------------------------
\* The filter of the thinking tags.

\* Mutant: nothing is held back for a tag that may go on in the next delta.
HeldBackNothing(b) == 0

\* The longest suffix with which a tag may begin.
HeldBack(b) ==
  Max({n \in 0 .. Min({Len(b), Len(OpenTag) - 1}) : IsPrefix(LastN(b, n), OpenTag)})

\* Mutant: all of a thought is kept until it ends.
KeptWhole(b) == Len(b)

\* Of a thought, as much is kept as may begin the closing tag.
Kept(b) == Min({Len(b), Len(CloseTag) - 1})

\* The tag that ends a thought, or the text before one.
TagOf(thinking) == IF thinking THEN CloseTag ELSE OpenTag

Tag == TagOf(think.is_thinking)

-----------------------------------------------------------------------------
\* Frames, and their reading.
Symbol(k, v) == [kind |-> k, value |-> v]
Token(v)     == Symbol("token", v)
Sentinel     == Symbol("[DONE]", <<>>)
Newline      == Symbol("newline", <<>>)

Frame(payload) ==
  <<Symbol("data:", <<>>), payload, Symbol("payload ends", <<>>), Newline, Newline>>

\* A block is a token, the sentinel, without data, or invalid.
ParseSseBlock(b) ==
  IF b = <<>> \/ b[1].kind # "data:"                 THEN Symbol("none", <<>>)
  ELSE IF Len(b) # 3 \/ b[3].kind # "payload ends" THEN Symbol("invalid", <<>>)
  ELSE b[2]

BlockEnd(b) == Find(b, <<Newline, Newline>>)

\* Whether the inner loop of streamGleanAnswer goes on.
Loop(b) == IF BlockEnd(b) = 0 THEN "read" ELSE "parse"

-----------------------------------------------------------------------------
NoDocument == [tokens |-> 0, offsets |-> <<>>, ink |-> {}]

Init ==
  /\ step = "index"
  /\ doc \in Documents
  /\ retrieved = {}
  /\ remaining = {}
  /\ blocks = <<>>
  /\ text = <<>>
  /\ position = 0
  /\ think = [buffer |-> <<>>, is_thinking |-> FALSE]
  /\ output = <<>>
  /\ fullAnswer = <<>>
  /\ wire = <<>>
  /\ buffer = <<>>
  /\ message = <<>>

\* A document without chunks is refused.
Index ==
  /\ step = "index"
  /\ step' = IF Chunks(doc) = {} THEN "refused" ELSE "retrieve"
  /\ UNCHANGED <<documentVars, workerVars, wire, tabVars>>

\* Some chunks pass the score.
Retrieve ==
  /\ step = "retrieve"
  /\ \E ids \in SUBSET Chunks(doc) :
       /\ ids # {} /\ Cardinality(ids) <= MaxRetrieved
       /\ retrieved' = ids
       /\ remaining' = ids
  /\ step' = "assemble"
  /\ UNCHANGED <<doc, blocks, workerVars, wire, tabVars>>

\* The locals of the retrieval are no longer needed.
LeaveDocument == doc' = NoDocument /\ retrieved' = {} /\ remaining' = {} /\ blocks' = <<>>

\* No chunk passes the score.
AnswerWithoutEvidence ==
  /\ step = "retrieve"
  /\ LeaveDocument
  /\ fullAnswer' = Fallback
  /\ wire' = Frame(Token(Fallback)) \o Frame(Sentinel)
  /\ step' = "read"
  /\ UNCHANGED <<text, position, think, output, tabVars>>

\* _assemble_context: an item joins the group it is adjacent to, or begins one.
AssembleContext ==
  /\ step = "assemble"
  /\ remaining # {}
  /\ LET i == InDocumentOrder(remaining)
     IN /\ remaining' = remaining \ {i}
        /\ blocks' = IF blocks # <<>> /\ Adjacent(Chunk(doc, Last(Last(blocks))), Chunk(doc, i))
                       THEN [blocks EXCEPT ![Len(blocks)] = Append(@, i)]
                       ELSE Append(blocks, <<i>>)
  /\ UNCHANGED <<step, doc, retrieved, workerVars, wire, tabVars>>

\* The model answers from the context: it may generate any text.
StartGeneration ==
  /\ step = "assemble"
  /\ remaining = {}
  /\ LeaveDocument
  /\ text' \in Texts
  /\ step' = "generate"
  /\ UNCHANGED <<position, think, output, fullAnswer, wire, tabVars>>

\* A delta of any length is handed to the filter.
StreamDelta ==
  /\ step = "generate"
  /\ \E n \in (position + 1) .. Len(text) :
       /\ position' = n
       /\ think' = [think EXCEPT !.buffer = @ \o SubSeq(text, position + 1, n)]
  /\ step' = "clean"
  /\ UNCHANGED <<documentVars, text, output, fullAnswer, wire, tabVars>>

\* An iteration of the filter's loop that finds a tag.
CrossTag ==
  LET at == Find(think.buffer, Tag)
  IN /\ step = "clean"
     /\ at # 0
     /\ think' = [buffer      |-> From(think.buffer, at + Len(Tag)),
                  is_thinking |-> ~think.is_thinking]
     /\ output' = IF think.is_thinking THEN output
                                       ELSE output \o SubSeq(think.buffer, 1, at - 1)
     /\ UNCHANGED <<step, documentVars, text, position, fullAnswer, wire, tabVars>>

\* The loop ends and the visible text is published; blank text before the answer is not.
PublishDelta ==
  LET n          == IF think.is_thinking THEN Kept(think.buffer) ELSE HeldBack(think.buffer)
      safe_delta == IF think.is_thinking
                      THEN output
                      ELSE output \o SubSeq(think.buffer, 1, Len(think.buffer) - n)
      dropped    == IF fullAnswer = <<>> THEN IsBlank(safe_delta) ELSE safe_delta = <<>>
  IN /\ step = "clean"
     /\ Find(think.buffer, Tag) = 0
     /\ think' = [think EXCEPT !.buffer = LastN(@, n)]
     /\ output' = <<>>
     /\ fullAnswer' = IF dropped THEN fullAnswer ELSE fullAnswer \o safe_delta
     /\ wire' = IF dropped THEN wire ELSE wire \o Frame(Token(safe_delta))
     /\ step' = "generate"
     /\ UNCHANGED <<documentVars, text, position, tabVars>>

\* Mutant: what is still held back is forgotten.
EndGenerationUnflushed ==
  /\ step = "generate"
  /\ position = Len(text)
  /\ fullAnswer' = IF IsBlank(fullAnswer) THEN Fallback ELSE fullAnswer
  /\ wire' = wire \o (IF IsBlank(fullAnswer) THEN Frame(Token(Fallback)) ELSE <<>>)
                  \o Frame(Sentinel)
  /\ step' = "read"
  /\ UNCHANGED <<documentVars, text, position, think, output, tabVars>>

\* What is still held back, a fallback for a blank answer, and [DONE].
EndGeneration ==
  LET trailing == IF think.is_thinking THEN <<>> ELSE think.buffer
      answer   == fullAnswer \o trailing
  IN /\ step = "generate"
     /\ position = Len(text)
     /\ fullAnswer' = IF IsBlank(answer) THEN Fallback ELSE answer
     /\ wire' = wire \o (IF trailing = <<>> THEN <<>> ELSE Frame(Token(trailing)))
                     \o (IF IsBlank(answer) THEN Frame(Token(Fallback)) ELSE <<>>)
                     \o Frame(Sentinel)
     /\ step' = "read"
     /\ UNCHANGED <<documentVars, text, position, think, output, tabVars>>

\* The relay's channel is closed: the response ends after a whole frame.
ChannelCloses ==
  /\ step = "read"
  /\ buffer = <<>>
  /\ message = <<>>
  /\ \E n \in {m \in 0 .. (Len(wire) - 1) : m % Len(Frame(Sentinel)) = 0} :
       wire' = SubSeq(wire, 1, n)
  /\ UNCHANGED <<step, documentVars, workerVars, tabVars>>

\* Mutant: the incomplete block is not kept for the next chunk.
ReadChunkAfresh ==
  /\ step = "read"
  /\ \E n \in 1 .. Len(wire) :
       /\ buffer' = SubSeq(wire, 1, n)
       /\ wire' = From(wire, n + 1)
  /\ step' = Loop(buffer')
  /\ UNCHANGED <<documentVars, workerVars, message>>

\* A chunk of any size arrives.
ReadChunk ==
  /\ step = "read"
  /\ \E n \in 1 .. Len(wire) :
       /\ buffer' = buffer \o SubSeq(wire, 1, n)
       /\ wire' = From(wire, n + 1)
  /\ step' = Loop(buffer')
  /\ UNCHANGED <<documentVars, workerVars, message>>

\* An iteration of the inner loop: one complete block.
ParseBlock ==
  LET at    == BlockEnd(buffer)
      block == ParseSseBlock(SubSeq(buffer, 1, at - 1))
  IN /\ step = "parse"
     /\ buffer' = From(buffer, at + 2)
     /\ message' = message \o block.value
     /\ step' = CASE block.kind = "invalid" -> "invalid"
                  [] block.kind = "[DONE]"  -> "answered"
                  [] OTHER                  -> Loop(buffer')
     /\ UNCHANGED <<documentVars, workerVars, wire>>

\* The body ends: what is left in the buffer is parsed as a block.
ReadEnd ==
  LET block == ParseSseBlock(buffer)
  IN /\ step = "read"
     /\ wire = <<>>
     /\ message' = message \o block.value
     /\ step' = CASE block.kind = "invalid" -> "invalid"
                  [] block.kind = "[DONE]"  -> "answered"
                  [] OTHER                  -> "ended"
     /\ UNCHANGED <<documentVars, workerVars, wire, buffer>>

Next ==
  \/ Index
  \/ Retrieve
  \/ AnswerWithoutEvidence
  \/ AssembleContext
  \/ StartGeneration
  \/ StreamDelta
  \/ CrossTag
  \/ PublishDelta
  \/ EndGeneration
  \/ ChannelCloses
  \/ ReadChunk
  \/ ParseBlock
  \/ ReadEnd

Spec == Init /\ [][Next]_vars

-----------------------------------------------------------------------------
\* A reader of the text: whether in a thought, how much of a tag is still to be skipped,
\* and what has been shown.
Start == [thinking |-> FALSE, skip |-> 0, shown |-> <<>>]

\* The reader after character i.
After(s, i, r) ==
  LET tag == TagOf(r.thinking)
  IN IF r.skip > 0 THEN [r EXCEPT !.skip = @ - 1]
     ELSE IF Occurs(s, i, tag)
       THEN [thinking |-> ~r.thinking, skip |-> Len(tag) - 1, shown |-> r.shown]
     ELSE IF r.thinking THEN r
     ELSE [thinking |-> FALSE, skip |-> 0, shown |-> Append(r.shown, s[i])]

Reading(s) ==
  LET after[i \in 0 .. Len(s)] == IF i = 0 THEN Start ELSE After(s, i, after[i - 1])
  IN after

\* The text without its thinking.
Visible(s) == Reading(s)[Len(s)].shown

LeftStrip(s) ==
  LET ink == {i \in DOMAIN s : s[i] # " "} IN IF ink = {} THEN <<>> ELSE From(s, Min(ink))

\* The types of the pipeline's state, and how much the filter may hold back.
TypeOK ==
  LET symbols == [kind  : {"data:", "token", "[DONE]", "payload ends", "newline"},
                  value : Seq(Char)]
  IN /\ step \in {"index", "refused", "retrieve", "assemble", "generate", "clean", "read",
                  "parse", "answered", "ended", "invalid"}
     /\ doc = NoDocument \/ doc \in Documents
     /\ remaining \subseteq retrieved
     /\ retrieved \subseteq Chunks(doc)
     /\ blocks \in Seq(Seq(retrieved) \ {<<>>})
     /\ text \in Seq(Char)
     /\ position \in 0 .. Len(text)
     /\ think \in [buffer : Seq(Char), is_thinking : BOOLEAN]
     /\ step # "clean" => Len(think.buffer) < Len(Tag)
     /\ {output, fullAnswer, message} \subseteq Seq(Char)
     /\ {wire, buffer} \subseteq Seq(symbols)

\* Whether an index is made or the document is refused for want of one, only its end can
\* be missing: every character a token covers that is not blank is in a chunk, but for
\* those that only a last window holds which a token without text ends (Dropped).
OnlyTheEndIsDropped == step \in {"refused", "retrieve"} => ChunksCover(doc)

\* The blocks of the context hold each retrieved chunk once, in the order of the document.
ContextInOrder ==
  /\ UNION {ToSet(b) : b \in ToSet(blocks)} = retrieved \ remaining
  /\ \A j, k \in DOMAIN blocks : \A x \in DOMAIN blocks[j], y \in DOMAIN blocks[k] :
       j < k \/ (j = k /\ x < y) => blocks[j][x] < blocks[k][y]

\* However the model's text is cut into deltas, what is published is the beginning of
\* the text without its thinking: nothing of a thought, nothing skipped or reordered.
PublishedIsVisible ==
  step \in {"generate", "clean"} => IsPrefix(LeftStrip(fullAnswer), LeftStrip(Visible(text)))

\* The answer the worker ends with is all of the visible text, or the fallback when
\* that is blank, and never blank.
AnswerIsVisible ==
  step \in {"read", "parse", "answered", "ended", "invalid"} =>
    /\ ~IsBlank(fullAnswer)
    /\ LeftStrip(fullAnswer) = LeftStrip(IF IsBlank(Visible(text)) THEN Fallback
                                                                   ELSE Visible(text))

\* However the frames are cut into chunks, none becomes unreadable, the message shows
\* whole tokens in order, and all of them once [DONE] has been read.
MessageIsAnswer ==
  /\ step # "invalid"
  /\ IsPrefix(message, fullAnswer)
  /\ step = "answered" => message = fullAnswer
=============================================================================
