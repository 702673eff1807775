----------------------------- MODULE MCQaAnswer -----------------------------
(***************************************************************************)
(* Small texts for QaAnswer: the two tags of the model in abridged form,   *)
(* any few pieces of text around them, and a thought between two parts of  *)
(* an answer.  And the documents: encodings with and without a token of    *)
(* the tokenizer's own at both ends.                                       *)
(***************************************************************************)
EXTENDS QaAnswer

CONSTANTS
  MaxPieces,   \* bound: pieces of the text the model generates
  TextTokens,  \* the numbers of tokens of the texts of the documents
  TokenWidths  \* the numbers of characters of a token

\* Text token k has width characters from k * width on; `added` tokens that are no text
\* come before and after, and the tokens of `blank` are blank.
Encoded(count, width, added, blank) ==
  [tokens  |-> count + 2 * added,
   offsets |-> [t \in 0 .. (count + 2 * added - 1) |->
                  IF t < added \/ t >= count + added
                    THEN NoText
                    ELSE [start |-> (t - added) * width, end |-> (t - added + 1) * width]],
   ink     |-> {c \in 0 .. (count * width - 1) : c \div width \notin blank}]

\* All of the text is ink; or all but a stretch, longer than a window, of the second and
\* third; or the text is blank; or there is none and the encoding is empty.
Encodings ==
  {Encoded(n, w, a, {}) : n \in TextTokens, w \in TokenWidths, a \in {0, 1}}
    \cup {Encoded(Max(TextTokens), 1, a, 200 .. 700) : a \in {0, 1}}
    \cup {Encoded(n, 1, a, 0 .. n) : n \in {0, 1, 351}, a \in {0, 1}}

Open         == <<"<", "t", ">">>
Close        == <<"<", "/", "t", ">">>
FallbackText == <<"f">>

Pieces    == {<<"a">>, <<" ">>, <<"<">>, <<"<", "t">>, Open, Close}
Free      == {FlattenSeq(p) : p \in UNION {[1 .. n -> Pieces] : n \in 0 .. MaxPieces}}
Aside     == {<<>>, <<"a">>, <<"<", "t">>}
Thought   == {x \o Open \o y \o Close \o z : x, y, z \in Aside}
Generated == Free \cup Thought
=============================================================================
