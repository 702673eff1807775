---------------------------- MODULE AnswerProofs ----------------------------
(***************************************************************************)
(* The properties of QaAnswer for documents of every size, every pair of   *)
(* tags, every text and every way it is cut.  The inductive invariant has  *)
(* three parts: Document orders what has been grouped before what has not, *)
(* Filtering lets the filter follow the reader of the whole text (Follows) *)
(* and Framing says that the stream is a sequence of whole frames that     *)
(* continue the message (Carries).                                         *)
(*                                                                         *)
(* What a text, a stream or a number of windows needs by induction over    *)
(* its length is proved for the set of lengths that have it (Induction).   *)
(***************************************************************************)
EXTENDS QaAnswer, SequenceTheorems, WellFoundedInduction, TLAPS

\* Induction over the numbers, for a set of them.
LEMMA Induction ==
  ASSUME NEW S, 0 \in S, \A n \in Nat : n \in S => n + 1 \in S
  PROVE  Nat \subseteq S
<1> SUFFICES ASSUME Nat \ S # {} PROVE FALSE
  OBVIOUS
<1>1. PICK n \in Nat \ S : \A m \in Nat \ S : ~(<<m, n>> \in OpToRel(<, Nat))
  <2> DEFINE T == Nat \ S
  <2>1. T \subseteq Nat /\ T # {}
    OBVIOUS
  <2> HIDE DEF T
  <2>2. \E x \in T : \A y \in T : ~(<<y, x>> \in OpToRel(<, Nat))
    BY <2>1, NatLessThanWellFounded, WFMin
  <2> QED BY <2>2 DEF T
<1>2. n # 0 /\ n - 1 \in Nat /\ n - 1 < n
  OBVIOUS
<1>3. n - 1 \in S
  BY <1>1, <1>2 DEF OpToRel
<1>4. (n - 1) + 1 = n
  OBVIOUS
<1> QED BY <1>2, <1>3, <1>4

\* The reader exists: Reading is the function its definition describes.
LEMMA ReadingByCharacter ==
  ASSUME NEW s, Len(s) \in Nat
  PROVE  Reading(s) = [i \in 0 .. Len(s) |-> IF i = 0 THEN Start
                                             ELSE After(s, i, Reading(s)[i - 1])]
<1> DEFINE Is(f, n) == f = [i \in 0 .. n |-> IF i = 0 THEN Start ELSE After(s, i, f[i - 1])]
           S == {n \in Nat : \E f : Is(f, n)}
<1>1. 0 \in S
  <2> DEFINE f == [i \in 0 .. 0 |-> Start]
  <2>1. Is(f, 0)
    OBVIOUS
  <2> QED BY <2>1
<1>2. ASSUME NEW n \in Nat, n \in S PROVE n + 1 \in S
  <2>1. PICK f : Is(f, n)
    BY <1>2
  <2> HIDE DEF Is
  <2> DEFINE g == [i \in 0 .. n + 1 |-> IF i = n + 1 THEN After(s, n + 1, f[n]) ELSE f[i]]
  <2>2. \A i \in 0 .. n : g[i] = f[i]
    OBVIOUS
  <2>3. \A i \in 0 .. n : f[i] = IF i = 0 THEN Start ELSE After(s, i, f[i - 1])
    BY <2>1 DEF Is
  <2>4. ASSUME NEW i \in 0 .. n + 1
        PROVE  g[i] = IF i = 0 THEN Start ELSE After(s, i, g[i - 1])
    <3>1. CASE i = n + 1
      BY <3>1, <2>2
    <3>2. CASE i # n + 1
      BY <3>2, <2>2, <2>3
    <3> QED BY <3>1, <3>2
  <2>5. Is(g, n + 1)
    BY <2>4 DEF Is
  <2> HIDE DEF g
  <2> QED BY <2>5
<1>3. Len(s) \in S
  <2> HIDE DEF S
  <2> QED BY <1>1, <1>2, Induction
<1>4. Is(CHOOSE f : Is(f, Len(s)), Len(s))
  BY <1>3
<1> QED BY <1>4 DEF Reading

-----------------------------------------------------------------------------
\* Facts about sequences.
LEMMA ConcatAppend ==
  ASSUME NEW a \in Seq(Char), NEW b \in Seq(Char), NEW c \in Char
  PROVE  Append(a \o b, c) = a \o Append(b, c)
OBVIOUS

\* A part grows by the next element.
LEMMA SubSeqAppend ==
  ASSUME NEW S, NEW s \in Seq(S), NEW j \in 0 .. Len(s) - 1, NEW i \in 1 .. j + 1
  PROVE  Append(SubSeq(s, i, j), s[j + 1]) = SubSeq(s, i, j + 1)
OBVIOUS

\* A beginning remains one when the text grows.
LEMMA PrefixAppend ==
  ASSUME NEW S, NEW a \in Seq(S), NEW b \in Seq(S), NEW c \in S, IsPrefix(a, b)
  PROVE  IsPrefix(a, Append(b, c))
BY DEF IsPrefix

-----------------------------------------------------------------------------
\* The reader, one character after the other.

Reader == [thinking : BOOLEAN, skip : Nat, shown : Seq(Char)]

\* The tags and the fallback are texts, and not empty.
LEMMA Tags ==
  /\ OpenTag \in Seq(Char) /\ Len(OpenTag) \in Nat /\ Len(OpenTag) > 0
  /\ CloseTag \in Seq(Char) /\ Len(CloseTag) \in Nat /\ Len(CloseTag) > 0
  /\ Fallback \in Seq(Char) /\ Fallback # <<>> /\ ~IsBlank(Fallback)
<1>1. /\ OpenTag \in Seq(Char) /\ OpenTag # <<>>
      /\ CloseTag \in Seq(Char) /\ CloseTag # <<>>
      /\ Fallback \in Seq(Char) /\ Fallback # <<>> /\ ~IsBlank(Fallback)
  BY QaAnswerAssumption
<1> QED BY <1>1

\* Either tag is a text that is not empty.
LEMMA TagLength ==
  ASSUME NEW b
  PROVE  TagOf(b) \in Seq(Char) /\ Len(TagOf(b)) \in Nat /\ Len(TagOf(b)) > 0
BY Tags DEF TagOf

\* Nothing is read yet.
LEMMA ReadingStarts ==
  ASSUME NEW s \in Seq(Char)
  PROVE  Reading(s)[0] = Start /\ Start \in Reader
BY ReadingByCharacter DEF Start, Reader

\* One character more is read.
LEMMA ReadingGoesOn ==
  ASSUME NEW s \in Seq(Char), NEW i \in 1 .. Len(s)
  PROVE  Reading(s)[i] = After(s, i, Reading(s)[i - 1])
<1>1. Len(s) \in Nat
  OBVIOUS
<1> DEFINE f == Reading(s)
<1>2. f = [j \in 0 .. Len(s) |-> IF j = 0 THEN Start ELSE After(s, j, f[j - 1])]
  BY <1>1, ReadingByCharacter
<1> HIDE DEF f
<1>3. f[i] = After(s, i, f[i - 1])
  BY <1>2
<1> QED BY <1>3 DEF f

\* The cases of After, field by field.
LEMMA AfterCases ==
  ASSUME NEW s \in Seq(Char), NEW i \in 1 .. Len(s), NEW r \in Reader
  PROVE  /\ After(s, i, r) \in Reader
         /\ r.skip > 0 => /\ After(s, i, r).thinking = r.thinking
                          /\ After(s, i, r).skip = r.skip - 1
                          /\ After(s, i, r).shown = r.shown
         /\ r.skip = 0 /\ Occurs(s, i, TagOf(r.thinking)) =>
              /\ After(s, i, r).thinking = ~r.thinking
              /\ After(s, i, r).skip = Len(TagOf(r.thinking)) - 1
              /\ After(s, i, r).shown = r.shown
         /\ r.skip = 0 /\ ~Occurs(s, i, TagOf(r.thinking)) =>
              /\ After(s, i, r).thinking = r.thinking
              /\ After(s, i, r).skip = 0
              /\ After(s, i, r).shown = IF r.thinking THEN r.shown ELSE Append(r.shown, s[i])
<1>1. s[i] \in Char
  OBVIOUS
<1>2. CASE r.skip > 0
  BY <1>2 DEF After, Reader
<1> DEFINE a == After(s, i, r)
           tag == TagOf(r.thinking)
<1>3. r.thinking \in BOOLEAN /\ r.shown \in Seq(Char)
  BY DEF Reader
<1>4. CASE r.skip = 0 /\ Occurs(s, i, tag)
  <2>1. ~(r.skip > 0) /\ Len(tag) - 1 \in Nat
    BY <1>4, TagLength
  <2>2. a = [thinking |-> ~r.thinking, skip |-> Len(tag) - 1, shown |-> r.shown]
    BY <1>4, <2>1, Zenon DEF After
  <2>3. (~r.thinking) \in BOOLEAN
    BY <1>3
  <2>4. a.thinking = (~r.thinking) /\ a.skip = Len(tag) - 1 /\ a.shown = r.shown
    BY <2>2
  <2>5. a \in Reader
    BY <1>3, <2>1, <2>2, <2>3 DEF Reader
  <2> QED BY <1>4, <2>4, <2>5
<1>5. CASE r.skip = 0 /\ ~Occurs(s, i, tag) /\ r.thinking
  <2>1. ~(r.skip > 0)
    BY <1>5
  <2>2. a = r
    BY <1>5, <2>1, Zenon DEF After
  <2> HIDE DEF a, tag
  <2>3. a \in Reader /\ a.thinking = r.thinking /\ a.skip = 0 /\ a.shown = r.shown
    BY <1>5, <2>2
  <2> QED BY <1>5, <2>1, <2>3 DEF a, tag
<1>6. CASE r.skip = 0 /\ ~Occurs(s, i, tag) /\ ~r.thinking
  <2>1. ~(r.skip > 0) /\ r.thinking = FALSE
    BY <1>3, <1>6
  <2>2. a = [thinking |-> FALSE, skip |-> 0, shown |-> Append(r.shown, s[i])]
    BY <1>6, <2>1, Zenon DEF After
  <2>3. a.thinking = FALSE /\ a.skip = 0 /\ a.shown = Append(r.shown, s[i])
    BY <2>2
  <2>4. Append(r.shown, s[i]) \in Seq(Char)
    BY <1>1, <1>3
  <2>5. a \in Reader
    BY <2>2, <2>4 DEF Reader
  <2> QED BY <1>6, <2>1, <2>3, <2>5
<1>7. r.skip > 0 \/ r.skip = 0
  BY DEF Reader
<1> QED BY <1>2, <1>4, <1>5, <1>6, <1>7

\* The reader keeps its type.
LEMMA ReadingTyped ==
  ASSUME NEW s \in Seq(Char)
  PROVE  \A i \in 0 .. Len(s) : Reading(s)[i] \in Reader
<1> DEFINE S == {n \in Nat : n <= Len(s) => Reading(s)[n] \in Reader}
<1>1. 0 \in S
  BY ReadingStarts
<1>2. ASSUME NEW n \in Nat, n \in S PROVE n + 1 \in S
  <2>1. ASSUME n + 1 <= Len(s) PROVE Reading(s)[n + 1] \in Reader
    <3>1. Reading(s)[n] \in Reader /\ n + 1 \in 1 .. Len(s) /\ (n + 1) - 1 = n
      BY <1>2, <2>1
    <3> QED BY <3>1, ReadingGoesOn, AfterCases
  <2> QED BY <2>1
<1>3. Nat \subseteq S
  <2> HIDE DEF S
  <2> QED BY <1>1, <1>2, Induction
<1> QED BY <1>3

\* Between two characters the reader is where After puts it.
LEMMA ReadingStep ==
  ASSUME NEW s \in Seq(Char), NEW i \in 0 .. Len(s) - 1
  PROVE  /\ Reading(s)[i] \in Reader /\ Reading(s)[i + 1] \in Reader
         /\ Reading(s)[i + 1] = After(s, i + 1, Reading(s)[i])
<1>1. i + 1 \in 1 .. Len(s) /\ (i + 1) - 1 = i /\ i \in 0 .. Len(s) /\ i + 1 \in 0 .. Len(s)
  OBVIOUS
<1> QED BY <1>1, ReadingTyped, ReadingGoesOn

\* What is left of a tag is skipped.
LEMMA TagSkipped ==
  ASSUME NEW s \in Seq(Char), NEW k \in Nat, NEW d \in Nat, k + d <= Len(s),
         Reading(s)[k].skip = d
  PROVE  /\ Reading(s)[k + d].skip = 0
         /\ Reading(s)[k + d].thinking = Reading(s)[k].thinking
         /\ Reading(s)[k + d].shown = Reading(s)[k].shown
<1> DEFINE r(i) == Reading(s)[i]
           S == {n \in Nat : n <= d => /\ r(k + n).skip = d - n
                                       /\ r(k + n).thinking = r(k).thinking
                                       /\ r(k + n).shown = r(k).shown}
<1>1. 0 \in S
  OBVIOUS
<1>2. ASSUME NEW n \in Nat, n \in S PROVE n + 1 \in S
  <2>1. SUFFICES ASSUME n + 1 <= d
                 PROVE  /\ r(k + n + 1).skip = d - (n + 1)
                        /\ r(k + n + 1).thinking = r(k).thinking
                        /\ r(k + n + 1).shown = r(k).shown
    OBVIOUS
  <2>2. k + n \in 0 .. Len(s) - 1 /\ k + n + 1 \in 1 .. Len(s)
    BY <2>1
  <2>3. /\ r(k + n) \in Reader
        /\ r(k + n + 1) = After(s, k + n + 1, r(k + n))
    BY <2>2, ReadingStep
  <2>4. /\ r(k + n).skip = d - n
        /\ r(k + n).thinking = r(k).thinking
        /\ r(k + n).shown = r(k).shown
    BY <1>2, <2>1
  <2> HIDE DEF r
  <2> QED BY <2>1, <2>2, <2>3, <2>4, AfterCases
<1>3. Nat \subseteq S
  <2> HIDE DEF S
  <2> QED BY <1>1, <1>2, Induction
<1>4. d \in S
  BY <1>3
<1> QED BY <1>4

\* Characters at which no tag begins are shown, or are part of the thought.
LEMMA TextRead ==
  ASSUME NEW s \in Seq(Char), NEW k \in Nat, NEW m \in Nat, k + m <= Len(s),
         Reading(s)[k].skip = 0,
         \A i \in 1 .. m : ~Occurs(s, k + i, TagOf(Reading(s)[k].thinking))
  PROVE  /\ Reading(s)[k + m].skip = 0
         /\ Reading(s)[k + m].thinking = Reading(s)[k].thinking
         /\ Reading(s)[k + m].shown =
              IF Reading(s)[k].thinking THEN Reading(s)[k].shown
              ELSE Reading(s)[k].shown \o SubSeq(s, k + 1, k + m)
<1> DEFINE r(i) == Reading(s)[i]
           seen(n) == IF r(k).thinking THEN r(k).shown
                      ELSE r(k).shown \o SubSeq(s, k + 1, k + n)
           S == {n \in Nat : n <= m => /\ r(k + n).skip = 0
                                       /\ r(k + n).thinking = r(k).thinking
                                       /\ r(k + n).shown = seen(n)}
<1>1. r(k) \in Reader /\ r(k).shown \in Seq(Char)
  BY ReadingTyped DEF Reader
<1>2. 0 \in S
  <2>1. SubSeq(s, k + 1, k + 0) = <<>>
    OBVIOUS
  <2>2. r(k).shown \o <<>> = r(k).shown
    BY <1>1, ConcatEmptySeq
  <2>3. k + 0 = k /\ 0 \in Nat
    OBVIOUS
  <2>4. seen(0) = r(k).shown
    BY <2>1, <2>2, Zenon
  <2>5. r(k).skip = 0
    OBVIOUS
  <2> HIDE DEF seen, r
  <2> QED BY <2>3, <2>4, <2>5
<1>3. ASSUME NEW n \in Nat, n \in S PROVE n + 1 \in S
  <2>1. SUFFICES ASSUME n + 1 <= m
                 PROVE  /\ r(k + n + 1).skip = 0
                        /\ r(k + n + 1).thinking = r(k).thinking
                        /\ r(k + n + 1).shown = seen(n + 1)
    OBVIOUS
  <2>2. k + n \in 0 .. Len(s) - 1 /\ k + n + 1 \in 1 .. Len(s)
    BY <2>1
  <2>3. /\ r(k + n) \in Reader
        /\ r(k + n + 1) = After(s, k + n + 1, r(k + n))
    BY <2>2, ReadingStep
  <2>4. /\ r(k + n).skip = 0
        /\ r(k + n).thinking = r(k).thinking
        /\ r(k + n).shown = seen(n)
    BY <1>3, <2>1
  <2>5. ~Occurs(s, k + n + 1, TagOf(r(k + n).thinking))
    BY <2>1, <2>4
  <2>6. ~r(k).thinking => Append(seen(n), s[k + n + 1]) = seen(n + 1)
    <3>1. k + 1 \in 1 .. (k + n) + 1 /\ k + n \in 0 .. Len(s) - 1
      BY <2>2
    <3>2. Append(SubSeq(s, k + 1, k + n), s[k + n + 1]) = SubSeq(s, k + 1, k + n + 1)
      BY <3>1, SubSeqAppend
    <3>3. SubSeq(s, k + 1, k + n) \in Seq(Char) /\ s[k + n + 1] \in Char
      BY <2>2
    <3>4. Append(r(k).shown \o SubSeq(s, k + 1, k + n), s[k + n + 1])
            = r(k).shown \o Append(SubSeq(s, k + 1, k + n), s[k + n + 1])
      <4> DEFINE x == r(k).shown
                 y == SubSeq(s, k + 1, k + n)
                 c == s[k + n + 1]
      <4>1. x \in Seq(Char) /\ y \in Seq(Char) /\ c \in Char
        BY <1>1, <3>3
      <4> HIDE DEF x, y, c
      <4>2. Append(x \o y, c) = x \o Append(y, c)
        BY <4>1, ConcatAppend, Zenon
      <4> QED BY <4>2 DEF x, y, c
    <3>5. k + (n + 1) = k + n + 1
      OBVIOUS
    <3> HIDE DEF r
    <3> QED BY <3>2, <3>4, <3>5
  <2>7. r(k).thinking => seen(n) = seen(n + 1)
    OBVIOUS
  <2> HIDE DEF r, seen
  <2>8. /\ r(k + n + 1).thinking = r(k).thinking
        /\ r(k + n + 1).skip = 0
        /\ r(k + n + 1).shown = IF r(k).thinking THEN seen(n)
                                                 ELSE Append(seen(n), s[k + n + 1])
    BY <2>2, <2>3, <2>4, <2>5, AfterCases
  <2> QED BY <2>6, <2>7, <2>8
<1>4. Nat \subseteq S
  <2> HIDE DEF S
  <2> QED BY <1>2, <1>3, Induction
<1>5. m \in S
  BY <1>4
<1> QED BY <1>5

\* A tag is crossed as a whole.
LEMMA TagRead ==
  ASSUME NEW s \in Seq(Char), NEW k \in Nat, Reading(s)[k].skip = 0, k + 1 <= Len(s),
         Occurs(s, k + 1, TagOf(Reading(s)[k].thinking))
  PROVE  LET n == k + Len(TagOf(Reading(s)[k].thinking))
         IN /\ n <= Len(s)
            /\ Reading(s)[n].skip = 0
            /\ Reading(s)[n].thinking = ~Reading(s)[k].thinking
            /\ Reading(s)[n].shown = Reading(s)[k].shown
<1> DEFINE l == Len(TagOf(Reading(s)[k].thinking))
<1>1. l \in Nat /\ l > 0
  BY TagLength
<1>2. k + l <= Len(s)
  BY <1>1 DEF Occurs
<1>3. /\ Reading(s)[k] \in Reader
      /\ Reading(s)[k + 1] = After(s, k + 1, Reading(s)[k])
  BY ReadingStep
<1>4. /\ Reading(s)[k + 1].thinking = ~Reading(s)[k].thinking
      /\ Reading(s)[k + 1].skip = l - 1
      /\ Reading(s)[k + 1].shown = Reading(s)[k].shown
  BY <1>3, AfterCases
<1> HIDE DEF l
<1>5. (k + 1) + (l - 1) = k + l
  BY <1>1
<1> QED BY <1>1, <1>2, <1>4, <1>5, TagSkipped DEF l

\* What has been shown stays.
LEMMA ShownGrows ==
  ASSUME NEW s \in Seq(Char), NEW k \in Nat, NEW j \in k .. Len(s)
  PROVE  /\ IsPrefix(Reading(s)[k].shown, Reading(s)[j].shown)
         /\ Reading(s)[k].shown \in Seq(Char) /\ Reading(s)[j].shown \in Seq(Char)
<1> DEFINE r(i) == Reading(s)[i]
           S == {n \in Nat : k + n <= Len(s) => IsPrefix(r(k).shown, r(k + n).shown)}
<1>1. \A i \in 0 .. Len(s) : r(i) \in Reader /\ r(i).shown \in Seq(Char)
  BY ReadingTyped DEF Reader
<1>2. 0 \in S
  BY <1>1 DEF IsPrefix
<1>3. ASSUME NEW n \in Nat, n \in S PROVE n + 1 \in S
  <2>1. SUFFICES ASSUME k + n + 1 <= Len(s) PROVE IsPrefix(r(k).shown, r(k + n + 1).shown)
    OBVIOUS
  <2>2. k + n \in 0 .. Len(s) - 1 /\ k + n + 1 \in 1 .. Len(s) /\ k \in 0 .. Len(s)
    BY <2>1
  <2>3. /\ r(k + n) \in Reader
        /\ r(k + n + 1) = After(s, k + n + 1, r(k + n))
    BY <2>2, ReadingStep
  <2>4. IsPrefix(r(k).shown, r(k + n).shown)
    BY <1>3, <2>1
  <2>5. \/ r(k + n + 1).shown = r(k + n).shown
        \/ \E c \in Char : r(k + n + 1).shown = Append(r(k + n).shown, c)
    <3> HIDE DEF r
    <3>1. s[k + n + 1] \in Char
      BY <2>2
    <3>2. r(k + n).skip > 0 \/ r(k + n).skip = 0
      BY <2>3 DEF Reader
    <3>3. /\ r(k + n).skip > 0 => r(k + n + 1).shown = r(k + n).shown
          /\ r(k + n).skip = 0 => r(k + n + 1).shown \in
               {r(k + n).shown, Append(r(k + n).shown, s[k + n + 1])}
      <4> DEFINE q == r(k + n)
                 q1 == r(k + n + 1)
                 i == k + n + 1
      <4>1. q \in Reader /\ q1 = After(s, i, q) /\ i \in 1 .. Len(s)
        BY <2>2, <2>3
      <4> HIDE DEF q, q1, i
      <4>2. q.skip > 0 => q1.shown = q.shown
        BY <4>1, AfterCases
      <4>3. q.skip = 0 => q1.shown \in {q.shown, Append(q.shown, s[i])}
        BY <4>1, AfterCases
      <4> QED BY <4>2, <4>3 DEF q, q1, i
    <3> QED BY <3>1, <3>2, <3>3
  <2>6. /\ r(k).shown \in Seq(Char) /\ r(k + n).shown \in Seq(Char)
    BY <1>1, <2>2
  <2> HIDE DEF r
  <2> QED BY <2>4, <2>5, <2>6, PrefixAppend
<1>4. Nat \subseteq S
  <2> HIDE DEF S
  <2> QED BY <1>2, <1>3, Induction
<1>5. j - k \in Nat /\ k + (j - k) = j /\ k + (j - k) <= Len(s)
  OBVIOUS
<1>6. j - k \in S
  BY <1>4, <1>5
<1> HIDE DEF r
<1>7. IsPrefix(r(k).shown, r(j).shown)
  BY <1>5, <1>6
<1>8. k \in 0 .. Len(s) /\ j \in 0 .. Len(s)
  OBVIOUS
<1>9. r(k).shown \in Seq(Char) /\ r(j).shown \in Seq(Char)
  BY <1>1, <1>8
<1> QED BY <1>7, <1>9 DEF r
-----------------------------------------------------------------------------
\* The windows of a document.

\* The least element of a set of numbers, given one and that it is least.
LEMMA LeastIsMin ==
  ASSUME NEW S \in SUBSET Int, NEW x \in S, \A y \in S : x <= y
  PROVE  Min(S) = x
<1>1. \A y \in S : (\A z \in S : y <= z) => y = x
  OBVIOUS
<1> QED BY <1>1 DEF Min

\* The lesser of two numbers.
LEMMA MinOfTwo ==
  ASSUME NEW a \in Int, NEW b \in Int
  PROVE  Min({a, b}) = IF a <= b THEN a ELSE b
<1>1. CASE a <= b
  BY <1>1, LeastIsMin
<1>2. CASE ~(a <= b)
  BY <1>2, LeastIsMin
<1> QED BY <1>1, <1>2

\* The sizes as numbers.
LEMMA Sizes ==
  /\ ChunkSize \in Nat /\ ChunkSize > 0
  /\ ChunkOverlap \in Nat
  /\ Stride \in Nat /\ Stride > 0 /\ Stride <= ChunkSize
  /\ ChunkOverlap = ChunkSize - Stride
BY ChunkAssumption DEF Stride

\* Multiples of the stride keep the order of their factors, by at least a stride.
LEMMA Multiples ==
  ASSUME NEW i \in Nat, NEW j \in Nat
  PROVE  /\ i * Stride \in Nat
         /\ i <= i * Stride
         /\ (i + 1) * Stride = i * Stride + Stride
         /\ i < j => i * Stride + Stride <= j * Stride
<1> DEFINE d == Stride
<1>1. d \in Nat /\ d > 0
  BY Sizes
<1> HIDE DEF d
<1>2. /\ i * d \in Nat
      /\ i <= i * d
      /\ (i + 1) * d = i * d + d
  BY <1>1
<1>3. ASSUME i < j PROVE i * d + d <= j * d
  <2>1. PICK k \in Nat : j = i + 1 + k
    <3>1. j - i - 1 \in Nat
      BY <1>3
    <3> QED BY <3>1
  <2>2. j * d = i * d + d + k * d
    BY <2>1, <1>1
  <2>3. k * d \in Nat
    BY <1>1
  <2> QED BY <1>2, <1>1, <2>2, <2>3
<1> QED BY <1>2, <1>3 DEF d

\* How many strides fit below a position.
LEMMA StrideBelow ==
  ASSUME NEW x \in Nat
  PROVE  \E i \in Nat : i * Stride <= x /\ x < i * Stride + Stride
<1> DEFINE d == Stride
<1>1. d \in Nat /\ d > 0
  BY Sizes
<1> HIDE DEF d
<1>2. x \div d \in Nat
  BY <1>1
<1>3. d * (x \div d) <= x /\ x < d * (x \div d) + d
  BY <1>1
<1>4. (x \div d) * d = d * (x \div d)
  BY <1>1, <1>2
<1> QED BY <1>2, <1>3, <1>4 DEF d

\* The last window is the first that reaches the end: the rounded-up quotient.
LEMMA LastIsFirstToReach ==
  ASSUME NEW n \in Nat
  PROVE  /\ LastWindow(n) \in 0 .. n
         /\ LastWindow(n) * Stride + ChunkSize >= n
         /\ \A j \in Nat : j < LastWindow(n) => j * Stride + ChunkSize < n
<1> USE Sizes
<1>1. ASSUME NEW last \in 0 .. n, last * Stride + ChunkSize >= n,
             \A j \in Nat : j < last => j * Stride + ChunkSize < n
      PROVE  LastWindow(n) = last
  <2> DEFINE Reaching == {i \in 0 .. n : i * Stride + ChunkSize >= n}
  <2>1. last \in Reaching
    BY <1>1
  <2>2. \A i \in Reaching : last <= i
    BY <1>1, Multiples
  <2>3. Reaching \in SUBSET Int
    OBVIOUS
  <2> HIDE DEF Reaching
  <2>4. Min(Reaching) = last
    BY <2>1, <2>2, <2>3, LeastIsMin
  <2> QED BY <2>4 DEF LastWindow, Reaching
<1>2. CASE n <= ChunkSize
  <2>1. 0 * Stride = 0
    OBVIOUS
  <2>2. LastWindow(n) = 0
    BY <1>1, <1>2, <2>1
  <2> QED BY <1>2, <2>1, <2>2
<1>3. CASE n > ChunkSize
  <2>1. n - ChunkSize - 1 \in Nat
    BY <1>3
  <2>2. PICK m \in Nat : /\ m * Stride <= n - ChunkSize - 1
                         /\ n - ChunkSize - 1 < m * Stride + Stride
    BY <2>1, StrideBelow
  <2>3. (m + 1) * Stride = m * Stride + Stride /\ m * Stride \in Nat /\ m <= m * Stride
    BY Multiples
  <2>4. m + 1 \in 0 .. n
    BY <2>2, <2>3
  <2>5. (m + 1) * Stride + ChunkSize >= n
    BY <2>2, <2>3
  <2>6. ASSUME NEW j \in Nat, j < m + 1 PROVE j * Stride + ChunkSize < n
    <3>1. j = m \/ j < m
      BY <2>6
    <3>2. j * Stride <= m * Stride /\ j * Stride \in Nat
      BY <3>1, <2>3, Multiples
    <3> QED BY <3>2, <2>2, <2>3
  <2>7. LastWindow(n) = m + 1
    BY <2>4, <2>5, <2>6, <1>1
  <2> QED BY <2>4, <2>5, <2>6, <2>7
<1> QED BY <1>2, <1>3

\* A window by its number.
LEMMA WindowByNumber ==
  ASSUME NEW n \in Nat, NEW i \in 0 .. LastWindow(n)
  PROVE  /\ i \in Nat /\ i * Stride \in Nat /\ i * Stride <= n
         /\ Window(n, i) \in Windows(n)
         /\ Window(n, i).start = i * Stride
         /\ Window(n, i).end = IF i * Stride + ChunkSize <= n
                                 THEN i * Stride + ChunkSize ELSE n
         /\ i < LastWindow(n) => i * Stride + ChunkSize < n
         /\ i = LastWindow(n) => i * Stride + ChunkSize >= n
<1> DEFINE last == LastWindow(n)
<1> USE Sizes
<1>1. last \in 0 .. n /\ i \in Nat
  BY LastIsFirstToReach
<1>2. i * Stride \in Nat
  BY <1>1, Multiples
<1>3. (i < last => i * Stride + ChunkSize < n) /\ (i = last => i * Stride + ChunkSize >= n)
  BY <1>1, LastIsFirstToReach
<1>4. i * Stride <= n
  <2>1. CASE i < last
    BY <2>1, <1>2, <1>3
  <2>2. CASE i = last /\ last > 0
    <3>1. last - 1 \in Nat /\ last - 1 < last /\ (last - 1) + 1 = last
      BY <2>2, <1>1
    <3>2. (last - 1) * Stride + ChunkSize < n /\ (last - 1) * Stride \in Nat
      BY <3>1, LastIsFirstToReach, Multiples
    <3>3. last * Stride = (last - 1) * Stride + Stride
      BY <3>1, Multiples
    <3> QED BY <2>2, <3>2, <3>3
  <2>3. CASE i = 0
    BY <2>3
  <2> QED BY <2>1, <2>2, <2>3, <1>1
<1>5. Window(n, i) \in Windows(n)
  BY DEF Windows
<1> DEFINE a == i * Stride + ChunkSize
<1>6. a \in Nat
  BY <1>2
<1> HIDE DEF a
<1>7. Min({a, n}) = IF a <= n THEN a ELSE n
  BY <1>6, MinOfTwo
<1>8. Window(n, i).start = i * Stride /\ Window(n, i).end = Min({a, n})
  BY DEF Window, a
<1> QED BY <1>1, <1>2, <1>3, <1>4, <1>5, <1>7, <1>8 DEF a

\* The windows of a document of any length cover its tokens, none lies within another,
\* and consecutive windows share exactly the overlap: what _token_chunk_text and
\* _chunk_text_by_tokens are written to do, for every size and every smaller overlap.
THEOREM WindowsCoverDocument ==
  ASSUME NEW n \in Nat
  PROVE  WindowsCover(n)
<1> DEFINE last == LastWindow(n)
<1> USE Sizes
<1>1. last \in 0 .. n /\ last \in 0 .. last
  BY LastIsFirstToReach
<1>2. ASSUME NEW w \in Windows(n) PROVE \E i \in 0 .. last : w = Window(n, i)
  BY DEF Windows
<1>3. UNION {(w.start + 1) .. w.end : w \in Windows(n)} = 1 .. n
  <2>1. ASSUME NEW w \in Windows(n), NEW x \in (w.start + 1) .. w.end PROVE x \in 1 .. n
    <3>1. PICK i \in 0 .. last : w = Window(n, i)
      BY <1>2
    <3> QED BY <2>1, <3>1, WindowByNumber
  <2>2. ASSUME NEW x \in 1 .. n
        PROVE  \E w \in Windows(n) : x \in (w.start + 1) .. w.end
    <3>1. x - 1 \in Nat
      OBVIOUS
    <3>2. PICK i \in Nat : i * Stride <= x - 1 /\ x - 1 < i * Stride + Stride
      BY <3>1, StrideBelow
    <3>3. i * Stride \in Nat
      BY Multiples
    <3>4. CASE i <= last
      <4>1. i \in 0 .. last
        BY <3>4
      <4>2. x \in (Window(n, i).start + 1) .. Window(n, i).end
        BY <4>1, WindowByNumber, <3>2, <3>3
      <4> QED BY <4>1, <4>2, WindowByNumber
    <3>5. CASE last < i
      <4>1. last * Stride \in Nat /\ last * Stride + Stride <= i * Stride
        BY <1>1, <3>5, Multiples
      <4>2. x \in (Window(n, last).start + 1) .. Window(n, last).end
        BY <1>1, <4>1, WindowByNumber, <3>2, <3>3
      <4> QED BY <1>1, <4>2, WindowByNumber
    <3> QED BY <1>1, <3>4, <3>5
  <2> QED BY <2>1, <2>2
<1>4. ASSUME NEW w \in Windows(n), NEW v \in Windows(n), w # v
      PROVE  ~(w.start >= v.start /\ w.end <= v.end)
  <2>1. PICK i \in 0 .. last : w = Window(n, i)
    BY <1>2
  <2>2. PICK j \in 0 .. last : v = Window(n, j)
    BY <1>2
  <2>3. i < j \/ j < i
    BY <1>4, <2>1, <2>2
  <2>4. CASE i < j
    <3>1. i * Stride + Stride <= j * Stride
      BY <2>4, Multiples
    <3> QED BY <3>1, <2>1, <2>2, WindowByNumber
  <2>5. CASE j < i
    <3>1. j * Stride + Stride <= i * Stride
      BY <2>5, Multiples
    <3>2. j * Stride + ChunkSize < n /\ v.end = j * Stride + ChunkSize
      BY <1>1, <2>5, <2>2, WindowByNumber
    <3> QED BY <3>1, <3>2, <2>1, WindowByNumber
  <2> QED BY <2>3, <2>4, <2>5
<1>5. ASSUME NEW w \in Windows(n), w.end < n
      PROVE  \E v \in Windows(n) : v.start = w.end - ChunkOverlap
  <2>1. PICK i \in 0 .. last : w = Window(n, i)
    BY <1>2
  <2>2. w.end = i * Stride + ChunkSize /\ i * Stride + ChunkSize < n
    BY <1>5, <2>1, WindowByNumber
  <2>3. i # last
    BY <2>2, WindowByNumber
  <2>4. i + 1 \in 0 .. last
    BY <1>1, <2>3
  <2>5. Window(n, i + 1).start = i * Stride + Stride
    BY <2>4, WindowByNumber, Multiples
  <2> QED BY <2>2, <2>4, <2>5, WindowByNumber
<1> QED BY <1>3, <1>4, <1>5 DEF WindowsCover

\* What is assumed of a document.
LEMMA TokensOfDocument ==
  ASSUME NEW d \in Documents
  PROVE  /\ d.tokens \in Nat /\ d.ink \subseteq Nat
         /\ \A t \in 0 .. (d.tokens - 1) : d.offsets[t].start \in Nat /\ d.offsets[t].end \in Nat
         /\ \A t \in 1 .. (d.tokens - 1) : t # d.tokens - 1 \/ d.offsets[t] # NoText =>
              /\ d.offsets[t - 1].start <= d.offsets[t].start
              /\ d.offsets[t - 1].end <= d.offsets[t].end
<1>1. \A t \in 0 .. (d.tokens - 1) : d.offsets[t] \in [start : Nat, end : Nat]
  BY DocumentAssumption
<1>2. d.tokens \in Nat /\ d.ink \subseteq Nat
  BY DocumentAssumption
<1>3. \A t \in 1 .. (d.tokens - 1) :
        \/ /\ d.offsets[t - 1].start <= d.offsets[t].start
           /\ d.offsets[t - 1].end <= d.offsets[t].end
        \/ t = d.tokens - 1 /\ d.offsets[t] = NoText
  BY DocumentAssumption
<1> QED BY <1>1, <1>2, <1>3

\* The offsets of a later token are no smaller, unless it is a last one without text.
LEMMA OffsetsInOrder ==
  ASSUME NEW d \in Documents, NEW t \in 0 .. (d.tokens - 1), NEW u \in t .. (d.tokens - 1),
         u # d.tokens - 1 \/ d.offsets[u] # NoText
  PROVE  /\ d.offsets[t].start <= d.offsets[u].start
         /\ d.offsets[t].end <= d.offsets[u].end
<1> DEFINE n == d.tokens
           S == {k \in Nat : t + k <= n - 1 /\ (t + k # n - 1 \/ d.offsets[t + k] # NoText) =>
                               /\ d.offsets[t].start <= d.offsets[t + k].start
                               /\ d.offsets[t].end <= d.offsets[t + k].end}
<1>1. n \in Nat /\ \A v \in 0 .. (n - 1) : d.offsets[v].start \in Nat /\ d.offsets[v].end \in Nat
  BY TokensOfDocument
<1>2. t + 0 = t /\ t \in Nat
  BY <1>1
<1>3. 0 \in S
  BY <1>1, <1>2
<1>4. ASSUME NEW k \in S PROVE k + 1 \in S
  <2>1. k \in Nat /\ t + (k + 1) = (t + k) + 1 /\ (t + (k + 1)) - 1 = t + k
    BY <1>2
  <2>2. SUFFICES ASSUME t + (k + 1) <= n - 1,
                        t + (k + 1) # n - 1 \/ d.offsets[t + (k + 1)] # NoText
                 PROVE  /\ d.offsets[t].start <= d.offsets[t + (k + 1)].start
                        /\ d.offsets[t].end <= d.offsets[t + (k + 1)].end
    BY <2>1
  <2>3. t + k < n - 1 /\ t + (k + 1) \in 1 .. (n - 1) /\ t + k \in 0 .. (n - 1)
    BY <1>1, <1>2, <2>1, <2>2
  <2>4. /\ d.offsets[t].start <= d.offsets[t + k].start
        /\ d.offsets[t].end <= d.offsets[t + k].end
    BY <2>1, <2>3
  <2> DEFINE v == t + (k + 1)
  <2>5. v \in 1 .. (d.tokens - 1) /\ (v # d.tokens - 1 \/ d.offsets[v] # NoText)
    BY <2>2, <2>3
  <2> HIDE DEF v
  <2>6. d.offsets[v - 1].start <= d.offsets[v].start /\ d.offsets[v - 1].end <= d.offsets[v].end
    BY <2>5, TokensOfDocument
  <2>7. /\ d.offsets[t + k].start <= d.offsets[t + (k + 1)].start
        /\ d.offsets[t + k].end <= d.offsets[t + (k + 1)].end
    BY <2>1, <2>6 DEF v
  <2> HIDE DEF S
  <2> QED BY <1>1, <2>3, <2>4, <2>7
<1>5. Nat \subseteq S
  <2>1. \A k \in Nat : k \in S => k + 1 \in S
    BY <1>4
  <2> HIDE DEF S
  <2> QED BY <1>3, <2>1, Induction
<1>6. u - t \in Nat /\ t + (u - t) = u /\ u <= n - 1
  BY <1>1, <1>2
<1> QED BY <1>5, <1>6

\* A token in a window that ends in text has its characters in that window's chunk.
LEMMA WindowHolds ==
  ASSUME NEW d \in Documents, NEW t \in 0 .. (d.tokens - 1), NEW c \in d.ink,
         d.offsets[t].start <= c, c < d.offsets[t].end,
         NEW i \in 0 .. LastWindow(d.tokens),
         i * Stride <= t, t < Window(d.tokens, i).end,
         Window(d.tokens, i).end < d.tokens \/ d.offsets[d.tokens - 1] # NoText
  PROVE  i \in Chunks(d) /\ Within(Chunk(d, i), c)
<1> DEFINE n == d.tokens
           w == Window(d.tokens, i)
           last == w.end - 1
<1>1. /\ n \in Nat /\ c \in Nat
      /\ \A v \in 0 .. (n - 1) : d.offsets[v].start \in Nat /\ d.offsets[v].end \in Nat
  BY TokensOfDocument
<1>2. /\ i \in Nat /\ i * Stride \in Nat /\ w.start = i * Stride
      /\ w.end \in Nat /\ w.end <= n
  BY <1>1, WindowByNumber, Sizes
<1> HIDE DEF w
<1>3. w.start \in 0 .. (n - 1) /\ t \in w.start .. (n - 1) /\ last \in t .. (n - 1)
  BY <1>1, <1>2 DEF w
<1>4. t # n - 1 \/ d.offsets[t] # NoText
  <2>1. ASSUME d.offsets[t] = NoText PROVE FALSE
    BY <1>1, <2>1 DEF NoText
  <2> QED BY <2>1
<1>5. d.offsets[w.start].start <= d.offsets[t].start
  BY <1>3, <1>4, OffsetsInOrder
<1>6. last # n - 1 \/ d.offsets[last] # NoText
  BY <1>1, <1>2 DEF w
<1>7. d.offsets[t].end <= d.offsets[last].end
  <2> HIDE DEF last
  <2> QED BY <1>3, <1>6, OffsetsInOrder
<1>8. d.offsets[w.start].start <= c /\ c < d.offsets[last].end
  <2>1. last \in 0 .. (n - 1)
    BY <1>3
  <2> HIDE DEF last
  <2> QED BY <1>1, <1>3, <1>5, <1>7, <2>1
<1>9. Within(Chunk(d, i), c)
  BY <1>8 DEF Within, Chunk, w, last
<1>10. d.tokens # 0
  BY <1>1
<1> QED BY <1>9, <1>10 DEF Chunks

\* Every token that is not dropped is in a window that ends in text.
LEMMA WindowOfToken ==
  ASSUME NEW d \in Documents, NEW t \in (0 .. (d.tokens - 1)) \ Dropped(d)
  PROVE  \E i \in 0 .. LastWindow(d.tokens) :
           /\ i * Stride <= t /\ t < Window(d.tokens, i).end
           /\ Window(d.tokens, i).end < d.tokens \/ d.offsets[d.tokens - 1] # NoText
<1> DEFINE n == d.tokens
           last == LastWindow(n)
<1>1. n \in Nat /\ t \in Nat /\ t < n /\ n # 0
  <2>1. n \in Nat
    BY TokensOfDocument
  <2> QED BY <2>1
<1>2. last \in Nat /\ last \in 0 .. last
  BY <1>1, LastIsFirstToReach
<1>3. PICK w \in Windows(n) : t + 1 \in (w.start + 1) .. w.end
  <2>1. UNION {(w.start + 1) .. w.end : w \in Windows(n)} = 1 .. n
    BY <1>1, WindowsCoverDocument DEF WindowsCover
  <2>2. t + 1 \in 1 .. n
    BY <1>1
  <2> QED BY <2>1, <2>2
<1>4. PICK i \in 0 .. last : w = Window(n, i)
  BY DEF Windows
<1>5. /\ i \in Nat /\ i * Stride \in Nat /\ Window(n, i).start = i * Stride
      /\ Window(n, i).end \in Nat /\ Window(n, i).end <= n
      /\ i < last => Window(n, i).end < n
  <2>1. i * Stride + ChunkSize \in Int
    BY <1>1, WindowByNumber, Sizes
  <2> QED BY <1>1, <2>1, WindowByNumber, Sizes
<1>6. i * Stride <= t /\ t < Window(n, i).end
  BY <1>1, <1>3, <1>4, <1>5
<1>7. CASE i < last \/ d.offsets[n - 1] # NoText
  BY <1>5, <1>6, <1>7
<1>8. CASE i = last /\ d.offsets[n - 1] = NoText
  <2>1. ~(OnlyInLast(n) <= t)
    BY <1>1, <1>8 DEF Dropped
  <2>2. last # 0
    <3>1. last = 0 => OnlyInLast(n) = 0
      BY DEF OnlyInLast
    <3> QED BY <1>1, <2>1, <3>1
  <2>3. OnlyInLast(n) = Window(n, last - 1).end /\ last - 1 \in 0 .. last /\ last - 1 < last
    BY <1>2, <2>2 DEF OnlyInLast
  <2> DEFINE j == last - 1
  <2>4. j \in 0 .. last /\ j < last /\ last = j + 1
    BY <1>2, <2>3
  <2>5. /\ j * Stride + ChunkSize < n
        /\ Window(n, j).end = j * Stride + ChunkSize
        /\ j * Stride \in Nat
    <3> HIDE DEF j
    <3>1. j * Stride + ChunkSize < n /\ j * Stride \in Nat
      BY <1>1, <2>4, WindowByNumber
    <3>2. j * Stride + ChunkSize <= n
      BY <1>1, <3>1, Sizes
    <3> QED BY <1>1, <2>4, <3>1, <3>2, WindowByNumber
  <2>6. j * Stride <= last * Stride
    <3>1. (j + 1) * Stride = j * Stride + Stride
      BY <2>4, <1>2, Multiples
    <3> QED BY <2>4, <2>5, <3>1, Sizes
  <2>7. j * Stride <= t /\ t < Window(n, j).end /\ Window(n, j).end < n
    BY <1>1, <1>5, <1>6, <1>8, <2>1, <2>3, <2>5, <2>6, Sizes
  <2> QED BY <2>4, <2>7
<1>9. i < last \/ i = last
  BY <1>2, <1>5
<1> QED BY <1>7, <1>8, <1>9

\* The chunks cover what is not dropped.
LEMMA DocumentCovered ==
  ASSUME NEW d \in Documents
  PROVE  ChunksCover(d)
<1> SUFFICES ASSUME NEW t \in (0 .. (d.tokens - 1)) \ Dropped(d),
                    NEW c \in (d.offsets[t].start .. (d.offsets[t].end - 1)) \cap d.ink
             PROVE  \E i \in Chunks(d) : Within(Chunk(d, i), c)
  BY DEF ChunksCover
<1>1. /\ d.ink \subseteq Nat /\ d.offsets[t].start \in Nat /\ d.offsets[t].end \in Nat
  BY TokensOfDocument
<1>2. d.offsets[t].start <= c /\ c < d.offsets[t].end
  BY <1>1
<1>3. PICK i \in 0 .. LastWindow(d.tokens) :
        /\ i * Stride <= t /\ t < Window(d.tokens, i).end
        /\ Window(d.tokens, i).end < d.tokens \/ d.offsets[d.tokens - 1] # NoText
  BY WindowOfToken
<1> QED BY <1>2, <1>3, WindowHolds
-----------------------------------------------------------------------------
\* The inductive invariant, in three parts.

\* The context: what has been grouped comes before what has not.
Document ==
  /\ doc = NoDocument \/ doc \in Documents
  /\ remaining \subseteq retrieved
  /\ retrieved \subseteq Chunks(doc)
  /\ blocks \in Seq(Seq(retrieved) \ {<<>>})
  /\ step \in {"index", "refused", "retrieve"} =>
       doc \in Documents /\ blocks = <<>> /\ retrieved = remaining
  /\ ContextInOrder
  /\ \A j \in DOMAIN blocks : \A x \in DOMAIN blocks[j], y \in remaining : blocks[j][x] < y

documentSteps == {"index", "refused", "retrieve", "assemble"}
workerSteps   == documentSteps \cup {"generate", "clean"}

\* The answer is what has been shown but for blanks before it.
ShownAs(answer, shown) ==
  \E blank \in Seq(Char) : IsBlank(blank) /\ shown = blank \o answer

\* A filter that has been given p characters of s, with b in its buffer: b is the last of
\* them, the reader of those before is in the filter's mode and has been shown the answer.
Follows(s, p, b, thinking, answer) ==
  LET r == Reading(s)[p - Len(b)]
  IN /\ Len(b) <= p
     /\ b = SubSeq(s, p - Len(b) + 1, p)
     /\ r.skip = 0
     /\ r.thinking = thinking
     /\ ShownAs(answer, r.shown)

\* The filter follows the reader of the text; what is published is not blank.
Filtering ==
  /\ text \in Seq(Char)
  /\ position \in 0 .. Len(text)
  /\ think \in [buffer : Seq(Char), is_thinking : BOOLEAN]
  /\ output \in Seq(Char) /\ fullAnswer \in Seq(Char)
  /\ step # "clean" => output = <<>> /\ Len(think.buffer) < Len(Tag)
  /\ step # "clean" /\ ~think.is_thinking => IsPrefix(think.buffer, OpenTag)
  /\ step \in documentSteps => text = <<>> /\ fullAnswer = <<>>
  /\ step \in workerSteps =>
       /\ fullAnswer = <<>> \/ ~IsBlank(fullAnswer)
       /\ Follows(text, position, think.buffer, think.is_thinking, fullAnswer \o output)
  /\ AnswerIsVisible

\* What the wire carries, as in TypeOK.
symbols == [kind  : {"data:", "token", "[DONE]", "payload ends", "newline"},
            value : Seq(Char)]

\* A frame's other marks.
DataMark == Symbol("data:", <<>>)
EndMark  == Symbol("payload ends", <<>>)

\* Symbols 5i - 4 to 5i of u are a frame that takes the message from x to y.
FrameAt(u, i, x, y, answer) ==
  /\ u[5 * i - 4] = DataMark
  /\ \/ \E v \in Seq(Char) : u[5 * i - 3] = Token(v) /\ y = x \o v
     \/ u[5 * i - 3] = Sentinel /\ y = x /\ y = answer
  /\ u[5 * i - 2] = EndMark
  /\ u[5 * i - 1] = Newline
  /\ u[5 * i] = Newline

\* The symbols u are whole frames that take the message from one text to another, by way
\* of beginnings of the answer; a message that meets [DONE] is the answer.
CarriesBy(u, from, to, answer, m, a) ==
  /\ Len(u) = 5 * m
  /\ a[0] = from /\ a[m] = to
  /\ \A i \in 0 .. m : IsPrefix(a[i], answer)
  /\ \A i \in 1 .. m : FrameAt(u, i, a[i - 1], a[i], answer)

Carries(u, from, to, answer) ==
  \E m \in Nat : \E a \in [0 .. m -> Seq(Char)] : CarriesBy(u, from, to, answer, m, a)

\* The stream: until it is read it carries all that is published and no [DONE]; then
\* what the tab has and has not read of it are whole frames that continue the message.
Framing ==
  /\ step \in workerSteps \cup {"read", "parse", "answered", "ended"}
  /\ wire \in Seq(symbols) /\ buffer \in Seq(symbols) /\ message \in Seq(Char)
  /\ step \in workerSteps => /\ buffer = <<>> /\ message = <<>>
                             /\ Carries(wire, <<>>, fullAnswer, fullAnswer)
                             /\ \A i \in DOMAIN wire : wire[i] # Sentinel
  /\ step \in {"read", "parse"} =>
       \E to \in Seq(Char) : Carries(buffer \o wire, message, to, fullAnswer)
  /\ step = "read" => Len(buffer) < 5
  /\ step = "parse" => Len(buffer) >= 5
  /\ step = "answered" => message = fullAnswer
  /\ step = "ended" => IsPrefix(message, fullAnswer)
-----------------------------------------------------------------------------
\* The context.

\* A set of numbers that is not empty has a least element.
LEMMA MinIsLeast ==
  ASSUME NEW S \in SUBSET Nat, S # {}
  PROVE  Min(S) \in S /\ \A y \in S : Min(S) <= y
<1>1. PICK x \in S : \A y \in S : ~(<<y, x>> \in OpToRel(<, Nat))
  BY NatLessThanWellFounded, WFMin
<1>2. \A y \in S : x <= y
  <2>1. \A y \in S : ~(y < x)
    BY <1>1 DEF OpToRel
  <2>2. \A y \in S : y \in Nat
    OBVIOUS
  <2> QED BY <2>1, <2>2
<1>3. Min(S) = x
  BY <1>2, LeastIsMin
<1> QED BY <1>2, <1>3

\* Chunks have the numbers of their windows.
LEMMA ChunksAreNumbers ==
  ASSUME doc = NoDocument \/ doc \in Documents
  PROVE  Chunks(doc) \subseteq 0 .. LastWindow(doc.tokens) /\ Chunks(doc) \subseteq Nat
<1>1. doc.tokens \in Nat
  BY DocumentAssumption DEF NoDocument
<1>2. LastWindow(doc.tokens) \in Nat
  BY <1>1, LastIsFirstToReach
<1> QED BY <1>2 DEF Chunks

\* The chunks are those of the document.
LEMMA ChunksOfDocument ==
  ASSUME doc' = doc
  PROVE  Chunks(doc)' = Chunks(doc)
BY DEF Chunks, Chunk, Window, LastWindow, Within, Stride

\* Whichever block the next chunk is put into, the entries before stay where they were
\* and the chunk is the last entry of all.
LEMMA EntriesAfterAssembly ==
  ASSUME Document, AssembleContext
  PROVE  LET i == InDocumentOrder(remaining)
             n == Len(blocks')
         IN /\ i \in remaining /\ remaining' = remaining \ {i}
            /\ \A y \in remaining' : i < y
            /\ blocks' \in Seq(Seq(retrieved) \ {<<>>})
            /\ n \in DOMAIN blocks' /\ Len(blocks'[n]) \in DOMAIN blocks'[n]
            /\ blocks'[n][Len(blocks'[n])] = i
            /\ \A j \in DOMAIN blocks : \A x \in DOMAIN blocks[j] :
                 /\ j \in DOMAIN blocks' /\ x \in DOMAIN blocks'[j]
                 /\ blocks'[j][x] = blocks[j][x]
                 /\ j < n \/ (j = n /\ x < Len(blocks'[n]))
            /\ \A j \in DOMAIN blocks' : \A x \in DOMAIN blocks'[j] :
                 \/ j \in DOMAIN blocks /\ x \in DOMAIN blocks[j]
                 \/ j = n /\ x = Len(blocks'[n])
<1> DEFINE i == InDocumentOrder(remaining)
<1>1. /\ blocks \in Seq(Seq(retrieved) \ {<<>>}) /\ remaining \subseteq retrieved
      /\ retrieved \subseteq Nat /\ remaining # {}
  <2>1. Chunks(doc) \subseteq Nat
    BY ChunksAreNumbers DEF Document
  <2> QED BY <2>1 DEF Document, AssembleContext
<1>2. i \in remaining /\ \A y \in remaining : i <= y
  BY <1>1, MinIsLeast DEF InDocumentOrder
<1>3. \/ blocks # <<>> /\ blocks' = [blocks EXCEPT ![Len(blocks)] = Append(@, i)]
      \/ blocks' = Append(blocks, <<i>>)
  BY DEF AssembleContext
<1>4. remaining' = remaining \ {i}
  BY DEF AssembleContext
<1> HIDE DEF i
<1>5. i \in retrieved /\ \A y \in remaining' : i < y
  BY <1>1, <1>2, <1>4
<1> DEFINE B == Seq(retrieved) \ {<<>>}
           m == Len(blocks)
<1>6. /\ m \in Nat /\ DOMAIN blocks = 1 .. m
      /\ \A j \in 1 .. m : blocks[j] \in Seq(retrieved)
  BY <1>1
<1>7. CASE blocks # <<>> /\ blocks' = [blocks EXCEPT ![m] = Append(@, i)]
  <2>1. m \in 1 .. m
    BY <1>1, <1>6, <1>7
  <2>2. DOMAIN blocks' = 1 .. m /\ Len(blocks') = m
    BY <1>1, <1>7
  <2> DEFINE b == blocks[m]
  <2>3. blocks'[m] = Append(b, i) /\ \A j \in 1 .. m - 1 : blocks'[j] = blocks[j]
    <3> DEFINE c == Append(b, i)
    <3>1. blocks' = [blocks EXCEPT ![m] = c]
      BY <1>7
    <3> HIDE DEF c, m
    <3>2. \A j \in 1 .. m - 1 : j # m /\ j \in 1 .. m
      BY <1>6
    <3>3. blocks'[m] = c /\ \A j \in 1 .. m - 1 : blocks'[j] = blocks[j]
      BY <1>6, <2>1, <3>1, <3>2
    <3> QED BY <3>3 DEF c
  <2>4. b \in Seq(retrieved) /\ Len(b) \in Nat /\ DOMAIN b = 1 .. Len(b)
    BY <1>6, <2>1
  <2> HIDE DEF b
  <2>5. /\ Append(b, i) \in Seq(retrieved) /\ Append(b, i) # <<>>
        /\ Len(Append(b, i)) = Len(b) + 1
        /\ DOMAIN Append(b, i) = 1 .. Len(b) + 1
        /\ Append(b, i)[Len(b) + 1] = i
        /\ \A x \in 1 .. Len(b) : Append(b, i)[x] = b[x]
    BY <1>5, <2>4
  <2>6. blocks' \in Seq(B)
    <3>1. Append(b, i) \in B
      BY <2>5
    <3> HIDE DEF B
    <3> QED BY <1>1, <1>7, <2>1, <2>3, <3>1 DEF B
  <2>7. ASSUME NEW j \in DOMAIN blocks, NEW x \in DOMAIN blocks[j]
        PROVE  /\ j \in DOMAIN blocks' /\ x \in DOMAIN blocks'[j]
               /\ blocks'[j][x] = blocks[j][x]
               /\ j < m \/ (j = m /\ x < Len(blocks'[m]))
    <3>1. CASE j = m
      BY <3>1, <2>2, <2>3, <2>4, <2>5, <1>6 DEF b
    <3>2. CASE j # m
      <4>1. j \in 1 .. m - 1
        BY <3>2, <1>6
      <4> QED BY <4>1, <2>2, <2>3
    <3> QED BY <3>1, <3>2
  <2>8. ASSUME NEW j \in DOMAIN blocks', NEW x \in DOMAIN blocks'[j]
        PROVE  (j \in DOMAIN blocks /\ x \in DOMAIN blocks[j]) \/ (j = m /\ x = Len(blocks'[m]))
    <3>1. CASE j = m
      BY <3>1, <1>6, <2>2, <2>3, <2>4, <2>5 DEF b
    <3>2. CASE j # m
      <4>1. j \in 1 .. m - 1
        BY <3>2, <2>2
      <4> QED BY <4>1, <2>3, <1>6
    <3> QED BY <3>1, <3>2
  <2>9. /\ m \in DOMAIN blocks' /\ Len(blocks'[m]) \in DOMAIN blocks'[m]
        /\ blocks'[m][Len(blocks'[m])] = i
    BY <2>1, <2>2, <2>3, <2>4, <2>5
  <2> QED BY <1>2, <1>4, <1>5, <2>2, <2>6, <2>7, <2>8, <2>9 DEF i
<1>8. CASE blocks' = Append(blocks, <<i>>)
  <2>1. <<i>> \in B /\ Len(<<i>>) = 1 /\ <<i>>[1] = i /\ DOMAIN <<i>> = 1 .. 1
    BY <1>5
  <2> HIDE DEF B
  <2>2. blocks' \in Seq(B)
    BY <1>1, <1>8, <2>1 DEF B
  <2>3. /\ Len(blocks') = m + 1 /\ DOMAIN blocks' = 1 .. m + 1
        /\ blocks'[m + 1] = <<i>>
        /\ \A j \in 1 .. m : blocks'[j] = blocks[j]
    BY <1>1, <1>6, <1>8
  <2>4. ASSUME NEW j \in DOMAIN blocks, NEW x \in DOMAIN blocks[j]
        PROVE  /\ j \in DOMAIN blocks' /\ x \in DOMAIN blocks'[j]
               /\ blocks'[j][x] = blocks[j][x]
               /\ j < m + 1
    BY <1>6, <2>3
  <2>5. ASSUME NEW j \in DOMAIN blocks', NEW x \in DOMAIN blocks'[j]
        PROVE  (j \in DOMAIN blocks /\ x \in DOMAIN blocks[j]) \/ (j = m + 1 /\ x = 1)
    <3>1. CASE j = m + 1
      BY <3>1, <2>1, <2>3
    <3>2. CASE j # m + 1
      BY <3>2, <1>6, <2>3
    <3> QED BY <3>1, <3>2
  <2>6. /\ m + 1 \in DOMAIN blocks' /\ Len(blocks'[m + 1]) = 1
        /\ 1 \in DOMAIN blocks'[m + 1] /\ blocks'[m + 1][1] = i
    BY <2>1, <2>3, <1>6
  <2> QED BY <1>2, <1>4, <1>5, <2>2, <2>3, <2>4, <2>5, <2>6 DEF i, B
<1> QED BY <1>3, <1>7, <1>8

\* The blocks hold what is in one of their entries.
LEMMA InBlocks ==
  ASSUME NEW i
  PROVE  (i \in UNION {ToSet(b) : b \in ToSet(blocks)}) <=>
           (\E j \in DOMAIN blocks : \E x \in DOMAIN blocks[j] : blocks[j][x] = i)
BY DEF ToSet

\* _assemble_context keeps the invariant.
LEMMA AssemblyKeepsDocument ==
  ASSUME Document, AssembleContext
  PROVE  Document'
<1> DEFINE i == InDocumentOrder(remaining)
           n == Len(blocks')
<1>1. /\ i \in remaining /\ remaining' = remaining \ {i}
      /\ \A y \in remaining' : i < y
      /\ blocks' \in Seq(Seq(retrieved) \ {<<>>})
      /\ n \in DOMAIN blocks' /\ Len(blocks'[n]) \in DOMAIN blocks'[n]
      /\ blocks'[n][Len(blocks'[n])] = i
  BY EntriesAfterAssembly
<1>2. \A j \in DOMAIN blocks : \A x \in DOMAIN blocks[j] :
        /\ j \in DOMAIN blocks' /\ x \in DOMAIN blocks'[j]
        /\ blocks'[j][x] = blocks[j][x]
        /\ j < n \/ (j = n /\ x < Len(blocks'[n]))
  BY EntriesAfterAssembly
<1>3. \A j \in DOMAIN blocks' : \A x \in DOMAIN blocks'[j] :
        \/ j \in DOMAIN blocks /\ x \in DOMAIN blocks[j]
        \/ j = n /\ x = Len(blocks'[n])
  BY EntriesAfterAssembly
<1> HIDE DEF i, n
<1>4. /\ UNION {ToSet(b) : b \in ToSet(blocks)} = retrieved \ remaining
      /\ \A j, k \in DOMAIN blocks : \A x \in DOMAIN blocks[j], y \in DOMAIN blocks[k] :
           j < k \/ (j = k /\ x < y) => blocks[j][x] < blocks[k][y]
      /\ \A j \in DOMAIN blocks : \A x \in DOMAIN blocks[j], y \in remaining : blocks[j][x] < y
      /\ remaining \subseteq retrieved
  BY DEF Document, ContextInOrder
<1>5. UNION {ToSet(b) : b \in ToSet(blocks')} = retrieved \ remaining'
  <2>1. ASSUME NEW v
        PROVE  (v \in UNION {ToSet(b) : b \in ToSet(blocks')}) <=> v \in retrieved \ remaining'
    <3>1. (v \in UNION {ToSet(b) : b \in ToSet(blocks')}) <=>
            (\E j \in DOMAIN blocks' : \E x \in DOMAIN blocks'[j] : blocks'[j][x] = v)
      BY DEF ToSet
    <3>2. (\E j \in DOMAIN blocks' : \E x \in DOMAIN blocks'[j] : blocks'[j][x] = v) <=>
            (v = i \/ \E j \in DOMAIN blocks : \E x \in DOMAIN blocks[j] : blocks[j][x] = v)
      BY <1>1, <1>2, <1>3
    <3>3. (\E j \in DOMAIN blocks : \E x \in DOMAIN blocks[j] : blocks[j][x] = v) <=>
            v \in retrieved \ remaining
      BY <1>4, InBlocks
    <3> QED BY <3>1, <3>2, <3>3, <1>1, <1>4
  <2> QED BY <2>1
<1>6. ASSUME NEW j \in DOMAIN blocks', NEW k \in DOMAIN blocks',
             NEW x \in DOMAIN blocks'[j], NEW y \in DOMAIN blocks'[k],
             j < k \/ (j = k /\ x < y)
      PROVE  blocks'[j][x] < blocks'[k][y]
  <2>1. j \in Nat /\ k \in Nat /\ n \in Nat /\ x \in Nat /\ y \in Nat
    <3>1. blocks'[j] \in Seq(retrieved) /\ blocks'[k] \in Seq(retrieved)
      BY <1>1
    <3> QED BY <1>1, <3>1 DEF n
  <2>2. CASE k \in DOMAIN blocks /\ y \in DOMAIN blocks[k]
    <3>1. k < n \/ (k = n /\ y < Len(blocks'[n]))
      BY <2>2, <1>2
    <3>2. j \in DOMAIN blocks /\ x \in DOMAIN blocks[j]
      <4>1. ~(j = n /\ x = Len(blocks'[n]))
        BY <1>6, <2>1, <3>1
      <4> QED BY <4>1, <1>3
    <3>3. blocks'[j][x] = blocks[j][x] /\ blocks'[k][y] = blocks[k][y]
      BY <2>2, <3>2, <1>2
    <3> QED BY <1>4, <1>6, <2>2, <3>2, <3>3
  <2>3. CASE k = n /\ y = Len(blocks'[n])
    <3>1. j \in DOMAIN blocks /\ x \in DOMAIN blocks[j]
      <4>1. ~(j = n /\ x = Len(blocks'[n]))
        BY <1>6, <2>1, <2>3
      <4> QED BY <4>1, <1>3
    <3>2. blocks'[j][x] = blocks[j][x] /\ blocks[j][x] < i
      BY <3>1, <1>1, <1>2, <1>4
    <3> QED BY <2>3, <3>2, <1>1
  <2> QED BY <1>3, <2>2, <2>3
<1>7. ASSUME NEW j \in DOMAIN blocks', NEW x \in DOMAIN blocks'[j], NEW y \in remaining'
      PROVE  blocks'[j][x] < y
  BY <1>1, <1>2, <1>3, <1>4
<1>8. ContextInOrder'
  <2>1. retrieved' = retrieved
    BY DEF AssembleContext
  <2> QED BY <1>5, <1>6, <2>1 DEF ContextInOrder
<1>9. step' = "assemble" /\ doc' = doc /\ retrieved' = retrieved
  BY DEF AssembleContext
<1>10. Chunks(doc)' = Chunks(doc)
  BY <1>9, ChunksOfDocument
<1> QED BY <1>1, <1>7, <1>8, <1>9, <1>10 DEF Document

\* At first nothing is retrieved.
LEMMA DocumentInit == Init => Document
<1> SUFFICES ASSUME Init PROVE Document
  OBVIOUS
<1>1. doc \in Documents /\ step = "index"
  BY DEF Init
<1>2. blocks = <<>> /\ retrieved = {} /\ remaining = {}
  BY DEF Init
<1>3. DOMAIN blocks = {} /\ ToSet(blocks) = {}
  BY <1>2 DEF ToSet
<1>4. ContextInOrder
  BY <1>2, <1>3 DEF ContextInOrder
<1>5. blocks \in Seq(Seq(retrieved) \ {<<>>})
  BY <1>2
<1> QED BY <1>1, <1>2, <1>3, <1>4, <1>5 DEF Document

\* No block yet, or no longer, and nothing retrieved that is not to be grouped.
LEMMA NoContext ==
  ASSUME blocks' = <<>>, retrieved' = remaining', doc' = NoDocument \/ doc' \in Documents,
         step' \in {"index", "refused", "retrieve"} => doc' \in Documents,
         retrieved' \subseteq Chunks(doc)'
  PROVE  Document'
<1>1. DOMAIN blocks' = {} /\ ToSet(blocks)' = {}
  BY DEF ToSet
<1>2. ContextInOrder'
  BY <1>1 DEF ContextInOrder
<1>3. blocks' \in Seq(Seq(retrieved') \ {<<>>})
  OBVIOUS
<1> QED BY <1>1, <1>2, <1>3 DEF Document

\* Every step keeps the invariant of the context.
LEMMA DocumentStep == Document /\ [Next]_vars => Document'
<1> SUFFICES ASSUME Document, [Next]_vars PROVE Document'
  OBVIOUS
<1>1. CASE Retrieve \/ Index
  <2>1. /\ doc' = doc /\ blocks' = <<>> /\ retrieved' = remaining'
        /\ retrieved' \subseteq Chunks(doc)
        /\ doc \in Documents
    BY <1>1 DEF Retrieve, Index, Document, documentVars
  <2>2. Chunks(doc)' = Chunks(doc)
    BY <2>1, ChunksOfDocument
  <2> QED BY <2>1, <2>2, NoContext
<1>2. CASE LeaveDocument /\ step' \in {"read", "generate"}
  <2>1. blocks' = <<>> /\ retrieved' = {} /\ remaining' = {} /\ doc' = NoDocument
    BY <1>2 DEF LeaveDocument
  <2> QED BY <1>2, <2>1, NoContext
<1>3. CASE AssembleContext
  BY <1>3, AssemblyKeepsDocument
<1>4. CASE UNCHANGED documentVars /\ (step' \in documentSteps => step' = step)
  <2>1. doc' = doc /\ retrieved' = retrieved /\ remaining' = remaining /\ blocks' = blocks
    BY <1>4 DEF documentVars
  <2>2. ContextInOrder => ContextInOrder'
    BY <2>1 DEF ContextInOrder
  <2>3. Chunks(doc)' = Chunks(doc)
    BY <2>1, ChunksOfDocument
  <2> QED BY <1>4, <2>1, <2>2, <2>3 DEF Document, documentSteps
<1>5. CASE UNCHANGED vars
  BY <1>4, <1>5 DEF vars
<1>6. CASE AnswerWithoutEvidence \/ StartGeneration
  BY <1>2, <1>6 DEF AnswerWithoutEvidence, StartGeneration
<1>7. CASE StreamDelta \/ CrossTag \/ PublishDelta \/ EndGeneration \/ ChannelCloses \/ ReadEnd
  BY <1>4, <1>7
     DEF StreamDelta, CrossTag, PublishDelta, EndGeneration, ChannelCloses, ReadEnd,
         documentSteps
<1>8. CASE ReadChunk \/ ParseBlock
  BY <1>4, <1>8 DEF ReadChunk, ParseBlock, Loop, documentSteps
<1> QED BY <1>1, <1>3, <1>5, <1>6, <1>7, <1>8 DEF Next
-----------------------------------------------------------------------------
\* Parts of texts.

\* A part of a sequence, element by element.
LEMMA Part ==
  ASSUME NEW S, NEW s \in Seq(S), NEW m \in Nat \ {0}, NEW n \in m - 1 .. Len(s)
  PROVE  /\ SubSeq(s, m, n) \in Seq(S)
         /\ Len(SubSeq(s, m, n)) = n - m + 1
         /\ \A i \in 1 .. n - m + 1 : SubSeq(s, m, n)[i] = s[m + i - 1]
<1>1. \A i \in m .. n : s[i] \in S
  OBVIOUS
<1>2. n - m + 1 = IF m <= n THEN n - m + 1 ELSE 0
  OBVIOUS
<1> QED BY <1>1, <1>2, SubSeqProperties

\* A part of a part is a part.
LEMMA PartOfPart ==
  ASSUME NEW S, NEW s \in Seq(S), NEW k \in Nat, NEW p \in k .. Len(s),
         NEW i \in Nat \ {0}, NEW j \in i - 1 .. p - k
  PROVE  SubSeq(SubSeq(s, k + 1, p), i, j) = SubSeq(s, k + i, k + j)
<1> DEFINE t == SubSeq(s, k + 1, p)
           x == SubSeq(t, i, j)
           y == SubSeq(s, k + i, k + j)
<1>1. t \in Seq(S) /\ Len(t) = p - k /\ \A a \in 1 .. p - k : t[a] = s[k + a]
  <2>1. p - (k + 1) + 1 = p - k /\ \A a \in 1 .. p - k : (k + 1) + a - 1 = k + a
    OBVIOUS
  <2> QED BY <2>1, Part
<1> HIDE DEF t
<1>2. x \in Seq(S) /\ Len(x) = j - i + 1 /\ \A a \in 1 .. j - i + 1 : x[a] = t[i + a - 1]
  BY <1>1, Part
<1>3. y \in Seq(S) /\ Len(y) = j - i + 1 /\ \A a \in 1 .. j - i + 1 : y[a] = s[k + i + a - 1]
  <2>1. k + i \in Nat \ {0} /\ k + j \in (k + i) - 1 .. Len(s) /\ (k + j) - (k + i) + 1 = j - i + 1
    OBVIOUS
  <2> QED BY <2>1, Part
<1> HIDE DEF x, y
<1>4. \A a \in 1 .. j - i + 1 : x[a] = y[a]
  <2> TAKE a \in 1 .. j - i + 1
  <2>1. i + a - 1 \in 1 .. p - k /\ k + (i + a - 1) = k + i + a - 1
    OBVIOUS
  <2> QED BY <2>1, <1>1, <1>2, <1>3
<1>5. x = y
  BY <1>2, <1>3, <1>4, SeqEqual
<1> QED BY <1>5 DEF x, y, t

\* Where a pattern occurs in a part of a text, it occurs in the text.
LEMMA OccursInPart ==
  ASSUME NEW S, NEW s \in Seq(S), NEW k \in Nat, NEW p \in k .. Len(s), NEW tag,
         Len(tag) \in Nat, NEW i \in Nat \ {0}, i + Len(tag) - 1 <= p - k
  PROVE  Occurs(SubSeq(s, k + 1, p), i, tag) <=> Occurs(s, k + i, tag)
<1> DEFINE l == Len(tag)
           t == SubSeq(s, k + 1, p)
<1>1. Len(t) = p - k
  BY Part
<1>2. SubSeq(t, i, i + l - 1) = SubSeq(s, k + i, k + (i + l - 1))
  <2>1. i + l - 1 \in i - 1 .. p - k
    OBVIOUS
  <2> QED BY <2>1, PartOfPart
<1> HIDE DEF t
<1>3. k + (i + l - 1) = k + i + l - 1 /\ i + l - 1 <= Len(t) /\ k + i + l - 1 <= Len(s)
  BY <1>1
<1> HIDE DEF l
<1>4. Occurs(t, i, tag) <=> SubSeq(t, i, i + l - 1) = tag
  BY <1>3 DEF Occurs, l
<1>5. Occurs(s, k + i, tag) <=> SubSeq(s, k + i, k + i + l - 1) = tag
  BY <1>3 DEF Occurs, l
<1> QED BY <1>2, <1>3, <1>4, <1>5 DEF t

\* Find returns the first position at which the pattern occurs, or zero.
LEMMA FindIsFirst ==
  ASSUME NEW S, NEW s \in Seq(S), NEW p
  PROVE  /\ Find(s, p) \in 0 .. Len(s)
         /\ Find(s, p) = 0 => \A i \in 1 .. Len(s) : ~Occurs(s, i, p)
         /\ Find(s, p) # 0 => /\ Occurs(s, Find(s, p), p)
                              /\ \A i \in 1 .. Find(s, p) - 1 : ~Occurs(s, i, p)
<1> DEFINE at == {i \in DOMAIN s : Occurs(s, i, p)}
<1>1. DOMAIN s = 1 .. Len(s) /\ Len(s) \in Nat
  OBVIOUS
<1>2. CASE at = {}
  <2>1. Find(s, p) = 0
    BY <1>2 DEF Find
  <2> QED BY <1>1, <1>2, <2>1
<1>3. CASE at # {}
  <2>1. Find(s, p) = Min(at)
    BY <1>3 DEF Find
  <2>2. at \in SUBSET Nat
    BY <1>1
  <2> DEFINE f == Min(at)
  <2>3. f \in at /\ \A y \in at : f <= y
    <3> HIDE DEF at
    <3> QED BY <1>3, <2>2, MinIsLeast
  <2> HIDE DEF f
  <2>4. f \in 1 .. Len(s) /\ Occurs(s, f, p)
    BY <2>3
  <2>5. ASSUME NEW i \in 1 .. f - 1 PROVE ~Occurs(s, i, p)
    <3>1. i \in DOMAIN s /\ ~(f <= i)
      BY <1>1, <2>4
    <3> QED BY <3>1, <2>3
  <2> QED BY <2>1, <2>4, <2>5 DEF f
<1> QED BY <1>2, <1>3

\* The greatest of finitely many numbers.
LEMMA MaxIsGreatest ==
  ASSUME NEW n \in Nat, NEW S \in SUBSET (0 .. n), S # {}
  PROVE  Max(S) \in S /\ \A y \in S : y <= Max(S)
<1> DEFINE T == {n - y : y \in S}
<1>1. T \in SUBSET Nat /\ T # {}
  OBVIOUS
<1> DEFINE m == Min(T)
<1>2. m \in T /\ \A z \in T : m <= z
  <2> HIDE DEF T
  <2> QED BY <1>1, MinIsLeast
<1> HIDE DEF m
<1>3. PICK x \in S : m = n - x
  BY <1>2
<1>4. ASSUME NEW y \in S PROVE x >= y
  <2>1. m <= n - y
    BY <1>2
  <2> QED BY <2>1, <1>3
<1>5. \A v \in S : (\A y \in S : v >= y) => v = x
  <2> TAKE v \in S
  <2> HAVE \A y \in S : v >= y
  <2>1. v >= x /\ x >= v /\ v \in Int /\ x \in Int
    BY <1>4
  <2> QED BY <2>1
<1>6. Max(S) = x
  BY <1>4, <1>5 DEF Max
<1>7. \A y \in S : y <= x
  BY <1>4
<1> QED BY <1>6, <1>7

\* What the filter holds back: shorter than a tag, and all that may begin one.
LEMMA HeldBackIsEnough ==
  ASSUME NEW b \in Seq(Char)
  PROVE  /\ HeldBack(b) \in 0 .. Len(b)
         /\ HeldBack(b) < Len(OpenTag)
         /\ IsPrefix(LastN(b, HeldBack(b)), OpenTag)
         /\ \A n \in 0 .. Len(b) :
              n < Len(OpenTag) /\ IsPrefix(LastN(b, n), OpenTag) => n <= HeldBack(b)
<1> DEFINE l == Len(OpenTag)
           top == Min({Len(b), l - 1})
           H == {n \in 0 .. top : IsPrefix(LastN(b, n), OpenTag)}
<1>1. l \in Nat /\ l > 0 /\ Len(b) \in Nat
  BY Tags
<1>2. top = IF Len(b) <= l - 1 THEN Len(b) ELSE l - 1
  BY <1>1, MinOfTwo
<1>3. 0 \in H
  <2>1. LastN(b, 0) = <<>>
    <3>1. LastN(b, 0) = SubSeq(b, Len(b) + 1, Len(b))
      BY <1>1 DEF LastN
    <3> QED BY <1>1, <3>1
  <2>2. IsPrefix(<<>>, OpenTag)
    BY Tags DEF IsPrefix
  <2>3. 0 \in 0 .. top
    BY <1>1, <1>2
  <2> QED BY <2>1, <2>2, <2>3
<1>4. HeldBack(b) = Max(H)
  BY DEF HeldBack
<1>5. top \in Nat /\ H \in SUBSET (0 .. top)
  BY <1>1, <1>2
<1> HIDE DEF top
<1> DEFINE h == Max(H)
<1>6. h \in H /\ \A y \in H : y <= h
  <2> HIDE DEF H
  <2> QED BY <1>3, <1>5, MaxIsGreatest
<1> HIDE DEF h
<1>7. h \in 0 .. Len(b) /\ h < l /\ IsPrefix(LastN(b, h), OpenTag)
  BY <1>1, <1>2, <1>5, <1>6
<1>8. ASSUME NEW n \in 0 .. Len(b), n < l, IsPrefix(LastN(b, n), OpenTag)
      PROVE  n <= h
  <2>1. n \in 0 .. top
    BY <1>1, <1>2, <1>8
  <2> QED BY <1>6, <1>8, <2>1
<1> QED BY <1>4, <1>7, <1>8 DEF h

\* Before what is held back no tag begins, whatever the next delta brings.
LEMMA NoTagBeforeHeldBack ==
  ASSUME NEW s \in Seq(Char), NEW k \in Nat, NEW p \in k .. Len(s),
         Find(SubSeq(s, k + 1, p), OpenTag) = 0,
         NEW i \in 1 .. (p - k) - HeldBack(SubSeq(s, k + 1, p))
  PROVE  ~Occurs(s, k + i, OpenTag)
<1> DEFINE b == SubSeq(s, k + 1, p)
           l == Len(OpenTag)
           n == HeldBack(b)
<1>1. b \in Seq(Char) /\ Len(b) = p - k /\ l \in Nat /\ l > 0 /\ p - k \in Nat
  BY Part, Tags
<1>2. n \in Nat /\ n <= p - k /\ i \in Nat /\ i > 0 /\ i <= (p - k) - n
  <2>1. n \in 0 .. p - k
    BY <1>1, HeldBackIsEnough
  <2> HIDE DEF n
  <2>2. i \in 1 .. (p - k) - n
    BY DEF n
  <2> QED BY <2>1, <2>2, <1>1
<1> SUFFICES ASSUME Occurs(s, k + i, OpenTag) PROVE FALSE
  OBVIOUS
<1>3. CASE i + l - 1 <= p - k
  <2>1. Occurs(b, i, OpenTag)
    BY <1>1, <1>2, <1>3, OccursInPart, Tags
  <2>2. i \in 1 .. Len(b)
    BY <1>1, <1>2
  <2> HIDE DEF b
  <2>3. Find(b, OpenTag) = 0
    BY DEF b
  <2> QED BY <1>1, <2>1, <2>2, <2>3, FindIsFirst
<1>4. CASE ~(i + l - 1 <= p - k)
  <2> DEFINE m == (p - k) - i + 1
  <2>1. m \in 0 .. Len(b) /\ m < l /\ m > n
    BY <1>1, <1>2, <1>4
  <2>2. LastN(b, m) = SubSeq(s, k + i, p)
    <3>1. Len(b) - m + 1 = i /\ Len(b) = p - k
      BY <1>1, <1>2
    <3>2. LastN(b, m) = SubSeq(b, i, p - k)
      <4> HIDE DEF b, m
      <4> QED BY <3>1 DEF LastN
    <3>3. i \in Nat \ {0} /\ p - k \in i - 1 .. p - k /\ k + (p - k) = p
      BY <1>1, <1>2
    <3>4. SubSeq(b, i, p - k) = SubSeq(s, k + i, k + (p - k))
      BY <3>3, PartOfPart
    <3> QED BY <3>2, <3>3, <3>4
  <2>3. SubSeq(s, k + i, k + i + l - 1) = OpenTag /\ k + i + l - 1 <= Len(s)
    BY DEF Occurs
  <2>4. Len(SubSeq(s, k + i, p)) = m /\ SubSeq(s, k + i, p) \in Seq(Char)
    <3>1. k + i \in Nat \ {0} /\ p \in (k + i) - 1 .. Len(s) /\ p - (k + i) + 1 = m
      BY <1>1, <1>2
    <3> HIDE DEF m
    <3> QED BY <3>1, Part
  <2>5. SubSeq(OpenTag, 1, m) = SubSeq(s, k + i, p)
    <3> DEFINE k2 == k + i - 1
               p2 == k + i + l - 1
    <3>1. k2 \in Nat /\ p2 \in k2 .. Len(s) /\ 1 \in Nat \ {0} /\ m \in 1 - 1 .. p2 - k2
      BY <1>1, <1>2, <2>1, <2>3
    <3>2. k2 + 1 = k + i /\ k2 + m = p
      BY <1>1, <1>2
    <3> HIDE DEF k2, p2, m
    <3>3. SubSeq(SubSeq(s, k2 + 1, p2), 1, m) = SubSeq(s, k2 + 1, k2 + m)
      BY <3>1, PartOfPart
    <3> QED BY <2>3, <3>2, <3>3 DEF p2
  <2>6. SubSeq(SubSeq(s, k + i, p), 1, m) = SubSeq(s, k + i, p)
    <3> HIDE DEF m
    <3> QED BY <2>4, SubSeqFull
  <2>7. IsPrefix(LastN(b, m), OpenTag)
    <3> HIDE DEF m, b, l
    <3> QED BY <1>1, <2>1, <2>2, <2>4, <2>5, <2>6 DEF IsPrefix, l
  <2> HIDE DEF b, m, n
  <2>8. m <= n
    BY <1>1, <2>1, <2>7, HeldBackIsEnough DEF n, l
  <2> QED BY <1>1, <1>2, <2>1, <2>8
<1> QED BY <1>3, <1>4
-----------------------------------------------------------------------------
\* Blank text.  The provers need not know what a blank is.
Blank(c) == c = " "

\* IsBlank and LeftStrip, by blank characters.
LEMMA BlankCharacters ==
  /\ \A s : IsBlank(s) <=> \A i \in DOMAIN s : Blank(s[i])
  /\ \A s : LeftStrip(s) = LET ink == {i \in DOMAIN s : ~Blank(s[i])}
                         IN IF ink = {} THEN <<>> ELSE From(s, Min(ink))
BY Zenon DEF Blank, IsBlank, LeftStrip

\* A text is blank if its parts are.
LEMMA BlankParts ==
  ASSUME NEW a \in Seq(Char), NEW b \in Seq(Char)
  PROVE  IsBlank(a \o b) <=> IsBlank(a) /\ IsBlank(b)
<1> DEFINE c == a \o b
<1>1. /\ c \in Seq(Char) /\ Len(c) = Len(a) + Len(b) /\ Len(a) \in Nat /\ Len(b) \in Nat
      /\ \A i \in 1 .. Len(a) + Len(b) : c[i] = IF i <= Len(a) THEN a[i] ELSE b[i - Len(a)]
      /\ DOMAIN c = 1 .. Len(a) + Len(b) /\ DOMAIN a = 1 .. Len(a) /\ DOMAIN b = 1 .. Len(b)
  BY ConcatProperties, LenProperties
<1> HIDE DEF c
<1>2. ASSUME IsBlank(c) PROVE IsBlank(a) /\ IsBlank(b)
  <2>1. \A i \in 1 .. Len(a) : Blank(a[i])
    BY <1>1, <1>2, BlankCharacters
  <2>2. ASSUME NEW i \in 1 .. Len(b) PROVE Blank(b[i])
    <3>1. /\ Len(a) + i \in 1 .. Len(a) + Len(b) /\ ~(Len(a) + i <= Len(a))
          /\ (Len(a) + i) - Len(a) = i
      BY <1>1
    <3> QED BY <3>1, <1>1, <1>2, BlankCharacters
  <2> QED BY <1>1, <2>1, <2>2, BlankCharacters
<1>3. ASSUME IsBlank(a), IsBlank(b) PROVE IsBlank(c)
  <2>1. ASSUME NEW i \in 1 .. Len(a) + Len(b) PROVE Blank(c[i])
    <3>1. CASE i <= Len(a)
      BY <3>1, <1>1, <1>3, BlankCharacters
    <3>2. CASE ~(i <= Len(a))
      <4>1. i - Len(a) \in 1 .. Len(b)
        BY <1>1, <3>2
      <4> QED BY <4>1, <3>2, <1>1, <1>3, BlankCharacters
    <3> QED BY <3>1, <3>2
  <2> QED BY <2>1, <1>1, BlankCharacters
<1> QED BY <1>2, <1>3 DEF c

\* The empty text is blank.
LEMMA NothingIsBlank == IsBlank(<<>>) /\ LeftStrip(<<>>) = <<>>
<1>1. DOMAIN <<>> = {}
  OBVIOUS
<1>2. {i \in DOMAIN <<>> : ~Blank(<<>>[i])} = {}
  BY <1>1
<1> QED BY <1>1, <1>2, BlankCharacters

\* Of a blank text nothing is left.
LEMMA StripOfBlank ==
  ASSUME NEW s \in Seq(Char), IsBlank(s)
  PROVE  LeftStrip(s) = <<>>
BY BlankCharacters

\* LeftStrip keeps the text from the first character that is not blank.
LEMMA StripFrom ==
  ASSUME NEW s \in Seq(Char), NEW i \in 1 .. Len(s), ~Blank(s[i]),
         \A j \in 1 .. i - 1 : Blank(s[j])
  PROVE  LeftStrip(s) = SubSeq(s, i, Len(s))
<1> DEFINE ink == {j \in DOMAIN s : ~Blank(s[j])}
<1>1. DOMAIN s = 1 .. Len(s)
  OBVIOUS
<1>2. i \in ink /\ ink \in SUBSET Int
  BY <1>1
<1>3. \A j \in ink : i <= j
  BY <1>1
<1>4. Min(ink) = i
  <2> HIDE DEF ink
  <2> QED BY <1>2, <1>3, LeastIsMin
<1>5. ink # {}
  BY <1>2
<1> QED BY <1>4, <1>5, BlankCharacters DEF From

\* The first character that is not blank.
LEMMA FirstInk ==
  ASSUME NEW s \in Seq(Char), ~IsBlank(s)
  PROVE  \E i \in 1 .. Len(s) : ~Blank(s[i]) /\ \A j \in 1 .. i - 1 : Blank(s[j])
<1> DEFINE ink == {j \in DOMAIN s : ~Blank(s[j])}
<1>1. DOMAIN s = 1 .. Len(s)
  OBVIOUS
<1>2. ink \in SUBSET Nat /\ ink # {}
  BY <1>1, BlankCharacters
<1> DEFINE i == Min(ink)
<1>3. i \in ink /\ \A j \in ink : i <= j
  <2> HIDE DEF ink
  <2> QED BY <1>2, MinIsLeast
<1> HIDE DEF i
<1>4. i \in 1 .. Len(s) /\ ~Blank(s[i])
  BY <1>1, <1>3
<1>5. ASSUME NEW j \in 1 .. i - 1 PROVE Blank(s[j])
  <2>1. j \in DOMAIN s /\ ~(i <= j)
    BY <1>1, <1>4
  <2> QED BY <2>1, <1>3
<1> QED BY <1>4, <1>5

\* Blanks before a text that is not blank are stripped, and nothing after it is.
LEMMA StripSkipsBlanks ==
  ASSUME NEW b \in Seq(Char), IsBlank(b), NEW f \in Seq(Char), ~IsBlank(f), NEW w \in Seq(Char)
  PROVE  /\ LeftStrip(b \o (f \o w)) = LeftStrip(f) \o w
         /\ LeftStrip(f) \in Seq(Char)
<1>1. PICK i \in 1 .. Len(f) : ~Blank(f[i]) /\ \A j \in 1 .. i - 1 : Blank(f[j])
  BY FirstInk
<1> DEFINE c == f \o w
           s == b \o c
           n == Len(b)
<1>2. /\ c \in Seq(Char) /\ Len(c) = Len(f) + Len(w)
      /\ \A x \in 1 .. Len(f) + Len(w) : c[x] = IF x <= Len(f) THEN f[x] ELSE w[x - Len(f)]
      /\ Len(f) \in Nat /\ Len(w) \in Nat /\ n \in Nat
  BY ConcatProperties, LenProperties
<1> HIDE DEF c
<1>3. /\ s \in Seq(Char) /\ Len(s) = n + Len(c)
      /\ \A x \in 1 .. n + Len(c) : s[x] = IF x <= n THEN b[x] ELSE c[x - n]
  <2>1. b \in Seq(Char) /\ c \in Seq(Char)
    BY <1>2
  <2> QED BY <2>1, ConcatProperties
<1> HIDE DEF s
<1>4. ~Blank(s[n + i]) /\ n + i \in 1 .. Len(s)
  <2>1. n + i \in 1 .. n + Len(c) /\ ~(n + i <= n) /\ (n + i) - n = i
        /\ i \in 1 .. Len(f) + Len(w) /\ i <= Len(f)
    BY <1>2
  <2> QED BY <2>1, <1>1, <1>2, <1>3
<1>5. ASSUME NEW j \in 1 .. (n + i) - 1 PROVE Blank(s[j])
  <2>1. j \in 1 .. n + Len(c)
    BY <1>2
  <2>2. CASE j <= n
    <3>1. j \in DOMAIN b
      BY <2>2
    <3>2. Blank(b[j])
      BY <3>1, BlankCharacters
    <3> QED BY <2>1, <2>2, <3>2, <1>3
  <2>3. CASE ~(j <= n)
    <3>1. j - n \in 1 .. i - 1 /\ j - n \in 1 .. Len(f) + Len(w) /\ j - n <= Len(f)
      BY <1>2, <2>3
    <3>2. Blank(f[j - n])
      BY <1>1, <3>1
    <3>3. c[j - n] = f[j - n]
      BY <1>2, <3>1
    <3> QED BY <2>1, <2>3, <3>2, <3>3, <1>3
  <2> QED BY <2>2, <2>3
<1>6. LeftStrip(s) = SubSeq(s, n + i, Len(s))
  BY <1>3, <1>4, <1>5, StripFrom
<1>7. LeftStrip(f) = SubSeq(f, i, Len(f))
  BY <1>1, StripFrom
<1> DEFINE x == SubSeq(s, n + i, Len(s))
           y == SubSeq(f, i, Len(f))
           z == y \o w
<1>8. /\ x \in Seq(Char) /\ Len(x) = Len(s) - (n + i) + 1
      /\ \A a \in 1 .. Len(s) - (n + i) + 1 : x[a] = s[(n + i) + a - 1]
  <2>1. n + i \in Nat \ {0} /\ Len(s) \in (n + i) - 1 .. Len(s)
    BY <1>2, <1>3
  <2> QED BY <2>1, <1>3, Part
<1>9. /\ y \in Seq(Char) /\ Len(y) = Len(f) - i + 1
      /\ \A a \in 1 .. Len(f) - i + 1 : y[a] = f[i + a - 1]
  <2>1. i \in Nat \ {0} /\ Len(f) \in i - 1 .. Len(f)
    BY <1>2
  <2> QED BY <2>1, Part
<1> HIDE DEF x, y
<1>10. /\ z \in Seq(Char) /\ Len(z) = Len(y) + Len(w)
       /\ \A a \in 1 .. Len(y) + Len(w) : z[a] = IF a <= Len(y) THEN y[a] ELSE w[a - Len(y)]
  BY <1>9, ConcatProperties
<1> HIDE DEF z
<1>11. Len(x) = Len(z) /\ Len(z) = Len(f) + Len(w) - i + 1
  BY <1>2, <1>3, <1>8, <1>9, <1>10
<1>12. ASSUME NEW a \in 1 .. Len(x) PROVE x[a] = z[a]
  <2>1. a \in Nat /\ a > 0 /\ a <= Len(f) + Len(w) - i + 1
    BY <1>11, <1>2
  <2>2. x[a] = s[n + (i + a - 1)] /\ n + (i + a - 1) \in 1 .. n + Len(c)
        /\ ~(n + (i + a - 1) <= n) /\ (n + (i + a - 1)) - n = i + a - 1
    BY <2>1, <1>2, <1>3, <1>8
  <2>3. x[a] = c[i + a - 1]
    BY <2>2, <1>3
  <2>4. i + a - 1 \in 1 .. Len(f) + Len(w)
    BY <2>1, <1>2
  <2>5. CASE a <= Len(f) - i + 1
    <3>1. i + a - 1 <= Len(f) /\ a \in 1 .. Len(f) - i + 1 /\ a <= Len(y)
          /\ a \in 1 .. Len(y) + Len(w)
      BY <2>1, <2>5, <1>2, <1>9
    <3> QED BY <3>1, <2>3, <2>4, <1>2, <1>9, <1>10
  <2>6. CASE ~(a <= Len(f) - i + 1)
    <3>1. ~(i + a - 1 <= Len(f)) /\ ~(a <= Len(y)) /\ a \in 1 .. Len(y) + Len(w)
          /\ (i + a - 1) - Len(f) = a - Len(y)
      BY <2>1, <2>6, <1>2, <1>9
    <3> QED BY <3>1, <2>3, <2>4, <1>2, <1>10
  <2> QED BY <2>5, <2>6
<1>13. x = z
  BY <1>8, <1>10, <1>11, <1>12, SeqEqual
<1> QED BY <1>6, <1>7, <1>9, <1>13 DEF x, y, z, s, c

-----------------------------------------------------------------------------
\* What is shown and what is published.

\* What is published and what is shown grow alike.
LEMMA ShownMore ==
  ASSUME NEW a \in Seq(Char), NEW shown, ShownAs(a, shown), NEW x \in Seq(Char)
  PROVE  ShownAs(a \o x, shown \o x)
<1>1. PICK b \in Seq(Char) : IsBlank(b) /\ shown = b \o a
  BY DEF ShownAs
<1>2. (b \o a) \o x = b \o (a \o x)
  BY ConcatAssociative
<1> QED BY <1>1, <1>2 DEF ShownAs

\* Blank text before the answer need not be published.
LEMMA ShownDropped ==
  ASSUME NEW a \in Seq(Char), NEW shown, ShownAs(a, shown), IsBlank(a)
  PROVE  ShownAs(<<>>, shown)
<1>1. PICK b \in Seq(Char) : IsBlank(b) /\ shown = b \o a
  BY DEF ShownAs
<1>2. IsBlank(b \o a) /\ b \o a \in Seq(Char)
  BY <1>1, BlankParts, ConcatProperties
<1>3. (b \o a) \o <<>> = b \o a
  BY <1>2, ConcatEmptySeq
<1> QED BY <1>1, <1>2, <1>3 DEF ShownAs

\* But for blanks before it, what is shown is what is published.
LEMMA StripOfShown ==
  ASSUME NEW a \in Seq(Char), NEW shown, ShownAs(a, shown)
  PROVE  (IsBlank(shown) <=> IsBlank(a)) /\ LeftStrip(shown) = LeftStrip(a)
<1>1. PICK b \in Seq(Char) : IsBlank(b) /\ shown = b \o a
  BY DEF ShownAs
<1>2. (IsBlank(shown) <=> IsBlank(a)) /\ shown \in Seq(Char)
  BY <1>1, BlankParts, ConcatProperties
<1>3. CASE IsBlank(a)
  BY <1>2, <1>3, StripOfBlank
<1>4. CASE ~IsBlank(a)
  <2>1. a \o <<>> = a /\ <<>> \in Seq(Char)
    BY ConcatEmptySeq, EmptySeq
  <2>2. LeftStrip(b \o (a \o <<>>)) = LeftStrip(a) \o <<>> /\ LeftStrip(a) \in Seq(Char)
    BY <1>1, <1>4, <2>1, StripSkipsBlanks
  <2>3. LeftStrip(a) \o <<>> = LeftStrip(a)
    BY <2>2, ConcatEmptySeq
  <2> QED BY <1>1, <1>2, <2>1, <2>2, <2>3
<1> QED BY <1>3, <1>4

\* A concatenation begins with its first part.
LEMMA PrefixOfConcat ==
  ASSUME NEW S, NEW a \in Seq(S), NEW b \in Seq(S)
  PROVE  IsPrefix(a, a \o b)
<1> DEFINE c == a \o b
<1>1. /\ c \in Seq(S) /\ Len(c) = Len(a) + Len(b) /\ Len(a) \in Nat /\ Len(b) \in Nat
      /\ \A i \in 1 .. Len(a) + Len(b) : c[i] = IF i <= Len(a) THEN a[i] ELSE b[i - Len(a)]
  BY ConcatProperties, LenProperties
<1> HIDE DEF c
<1>2. SubSeq(c, 1, Len(a)) = a
  <2> DEFINE d == SubSeq(c, 1, Len(a))
  <2>1. /\ d \in Seq(S) /\ Len(d) = Len(a)
        /\ \A i \in 1 .. Len(a) : d[i] = c[i]
    <3>1. 1 \in Nat \ {0} /\ Len(a) \in 1 - 1 .. Len(c) /\ Len(a) - 1 + 1 = Len(a)
          /\ \A i \in 1 .. Len(a) : 1 + i - 1 = i
      BY <1>1
    <3> QED BY <3>1, <1>1, Part
  <2> HIDE DEF d
  <2>2. \A i \in 1 .. Len(d) : d[i] = a[i]
    BY <1>1, <2>1
  <2>3. d = a
    BY <2>1, <2>2, SeqEqual
  <2> QED BY <2>3 DEF d
<1>3. SubSeq(a, 1, Len(a)) = a
  BY SubSeqFull
<1>4. Len(a) <= Len(c)
  <2>1. Len(c) = Len(a) + Len(b) /\ Len(a) \in Nat /\ Len(b) \in Nat
    BY <1>1, SMTT(30)
  <2> QED BY <2>1
<1> QED BY <1>2, <1>3, <1>4 DEF IsPrefix, c

\* And conversely.
LEMMA PrefixIsConcat ==
  ASSUME NEW S, NEW a \in Seq(S), NEW b \in Seq(S), IsPrefix(a, b)
  PROVE  \E c \in Seq(S) : b = a \o c
<1>1. Len(a) <= Len(b) /\ SubSeq(a, 1, Len(a)) = SubSeq(b, 1, Len(a))
  BY DEF IsPrefix
<1>2. SubSeq(a, 1, Len(a)) = a /\ SubSeq(b, 1, Len(b)) = b
  BY SubSeqFull
<1> DEFINE c == SubSeq(b, Len(a) + 1, Len(b))
<1>3. SubSeq(b, 1, Len(a)) \o c = SubSeq(b, 1, Len(b))
  <2>1. Len(a) \in Nat /\ Len(b) \in Nat
    OBVIOUS
  <2>2. 1 \in 1 .. Len(b) + 1 /\ Len(a) \in 1 - 1 .. Len(b) /\ Len(b) \in Len(a) .. Len(b)
    BY <1>1, <2>1
  <2> QED BY <2>2, ConcatAdjacentSubSeq
<1>4. c \in Seq(S)
  <2>1. Len(a) + 1 \in Nat \ {0} /\ Len(b) \in (Len(a) + 1) - 1 .. Len(b)
    BY <1>1
  <2> QED BY <2>1, Part
<1> QED BY <1>1, <1>2, <1>3, <1>4

\* What is published is the beginning of all that will be shown.
LEMMA PublishedBegins ==
  ASSUME NEW a \in Seq(Char), NEW w \in Seq(Char), a = <<>> \/ ~IsBlank(a), NEW shown,
         ShownAs(a \o w, shown)
  PROVE  IsPrefix(LeftStrip(a), LeftStrip(shown))
<1>1. PICK b \in Seq(Char) : IsBlank(b) /\ shown = b \o (a \o w)
  BY DEF ShownAs
<1>2. CASE ~IsBlank(a)
  <2>1. LeftStrip(shown) = LeftStrip(a) \o w /\ LeftStrip(a) \in Seq(Char)
    BY <1>1, <1>2, StripSkipsBlanks
  <2>2. IsPrefix(LeftStrip(a), LeftStrip(a) \o w)
    BY <2>1, PrefixOfConcat
  <2> QED BY <2>1, <2>2
<1>3. CASE a = <<>>
  <2>1. IsPrefix(<<>>, LeftStrip(shown))
    <3>1. LeftStrip(shown) \in Seq(Char)
      <4>1. shown \in Seq(Char)
        BY <1>1, ConcatProperties
      <4>2. CASE IsBlank(shown)
        <5>1. LeftStrip(shown) = <<>>
          BY <4>1, <4>2, StripOfBlank
        <5> QED BY <5>1, EmptySeq
      <4>3. CASE ~IsBlank(shown)
        BY <4>1, <4>3, StripSkipsBlanks, EmptySeq, NothingIsBlank
      <4> QED BY <4>2, <4>3
    <3>2. <<>> \o LeftStrip(shown) = LeftStrip(shown)
      BY <3>1, ConcatEmptySeq
    <3>3. <<>> \in Seq(Char)
      BY EmptySeq
    <3>4. IsPrefix(<<>>, <<>> \o LeftStrip(shown))
      BY <3>1, <3>3, PrefixOfConcat
    <3> QED BY <3>2, <3>4
  <2> QED BY <1>3, <2>1, NothingIsBlank
<1> QED BY <1>2, <1>3
-----------------------------------------------------------------------------
\* The filter follows the reader.

\* The filter follows the reader from the start.
LEMMA FollowsStart ==
  ASSUME NEW s \in Seq(Char)
  PROVE  Follows(s, 0, <<>>, FALSE, <<>>)
<1>1. Len(<<>>) = 0 /\ 0 - 0 = 0 /\ SubSeq(s, 0 - 0 + 1, 0) = <<>>
  OBVIOUS
<1>2. Reading(s)[0] = Start
  BY ReadingStarts
<1>3. <<>> \o <<>> = <<>> /\ <<>> \in Seq(Char)
  BY EmptySeq, ConcatEmptySeq
<1>4. ShownAs(<<>>, <<>>)
  BY <1>3, NothingIsBlank DEF ShownAs
<1>5. Start.skip = 0 /\ Start.thinking = FALSE /\ Start.shown = <<>>
  BY DEF Start
<1> QED BY <1>1, <1>2, <1>4, <1>5 DEF Follows

\* A delta moves neither.
LEMMA FollowsDelta ==
  ASSUME NEW s \in Seq(Char), NEW p \in 0 .. Len(s), NEW b, NEW th, NEW a,
         Follows(s, p, b, th, a), Len(b) \in Nat, NEW n \in p .. Len(s)
  PROVE  /\ Follows(s, n, b \o SubSeq(s, p + 1, n), th, a)
         /\ b \o SubSeq(s, p + 1, n) \in Seq(Char)
<1> DEFINE k == p - Len(b)
           c == b \o SubSeq(s, p + 1, n)
<1>1. k \in Nat /\ k <= p /\ Len(s) \in Nat /\ p - k = Len(b)
  BY DEF Follows
<1>2. b = SubSeq(s, k + 1, p)
  BY DEF Follows
<1>3. SubSeq(s, k + 1, p) \o SubSeq(s, p + 1, n) = SubSeq(s, k + 1, n)
  <2>1. k + 1 \in 1 .. Len(s) + 1 /\ p \in (k + 1) - 1 .. Len(s) /\ n \in p .. Len(s)
    BY <1>1
  <2> HIDE DEF k
  <2> QED BY <2>1, ConcatAdjacentSubSeq
<1>4. c = SubSeq(s, k + 1, n)
  BY <1>2, <1>3
<1> HIDE DEF k
<1>5. c \in Seq(Char) /\ Len(c) = n - k
  <2>1. k + 1 \in Nat \ {0} /\ n \in (k + 1) - 1 .. Len(s) /\ n - (k + 1) + 1 = n - k
    BY <1>1
  <2> DEFINE d == SubSeq(s, k + 1, n)
  <2>2. d \in Seq(Char) /\ Len(d) = n - k
    BY <2>1, Part
  <2> HIDE DEF d
  <2>3. c = d
    BY <1>4 DEF d
  <2> HIDE DEF c
  <2> QED BY <2>2, <2>3
<1> HIDE DEF c
<1>6. n - Len(c) = k /\ Len(c) <= n
  BY <1>1, <1>5
<1>7. /\ Reading(s)[k].skip = 0 /\ Reading(s)[k].thinking = th
      /\ ShownAs(a, Reading(s)[k].shown)
  BY DEF Follows, k
<1> QED BY <1>4, <1>5, <1>6, <1>7 DEF Follows, c

\* Text at which no tag begins is let through, or dropped from a thought.
LEMMA FollowsText ==
  ASSUME NEW s \in Seq(Char), NEW p \in 0 .. Len(s), NEW b \in Seq(Char), NEW th \in BOOLEAN,
         NEW a \in Seq(Char), Follows(s, p, b, th, a), NEW m \in 0 .. Len(b),
         \A i \in 1 .. m : ~Occurs(s, (p - Len(b)) + i, TagOf(th))
  PROVE  /\ Follows(s, p, SubSeq(b, m + 1, Len(b)), th, IF th THEN a ELSE a \o SubSeq(b, 1, m))
         /\ SubSeq(b, m + 1, Len(b)) \in Seq(Char) /\ SubSeq(b, 1, m) \in Seq(Char)
<1> DEFINE l == Len(b)
           k == p - l
           r(i) == Reading(s)[i]
           c == SubSeq(b, m + 1, l)
           x == SubSeq(b, 1, m)
<1>1. l \in Nat /\ k \in Nat /\ k <= p /\ Len(s) \in Nat /\ p - k = l /\ m \in Nat /\ m <= l
  BY DEF Follows
<1>2. /\ b = SubSeq(s, k + 1, p) /\ r(k).skip = 0 /\ r(k).thinking = th
      /\ ShownAs(a, r(k).shown)
  BY DEF Follows
<1>3. c \in Seq(Char) /\ Len(c) = l - m /\ x \in Seq(Char)
  <2>1. m + 1 \in Nat \ {0} /\ l \in (m + 1) - 1 .. Len(b) /\ l - (m + 1) + 1 = l - m
        /\ 1 \in Nat \ {0} /\ m \in 1 - 1 .. Len(b)
    BY <1>1
  <2>2. x \in Seq(Char)
    BY <2>1, Part
  <2>3. c \in Seq(Char) /\ Len(c) = l - (m + 1) + 1
    BY <2>1, Part, ZenonT(60)
  <2> HIDE DEF c, x, l
  <2> QED BY <2>1, <2>2, <2>3
<1>4. c = SubSeq(s, (k + m) + 1, p) /\ x = SubSeq(s, k + 1, k + m)
  <2>1. /\ k \in Nat /\ p \in k .. Len(s) /\ m + 1 \in Nat \ {0}
        /\ l \in (m + 1) - 1 .. p - k /\ k + (m + 1) = (k + m) + 1 /\ k + l = p
        /\ 1 \in Nat \ {0} /\ m \in 1 - 1 .. p - k
    BY <1>1
  <2> HIDE DEF k, l
  <2>2. /\ SubSeq(SubSeq(s, k + 1, p), m + 1, l) = SubSeq(s, k + (m + 1), k + l)
        /\ SubSeq(SubSeq(s, k + 1, p), 1, m) = SubSeq(s, k + 1, k + m)
    BY <2>1, PartOfPart
  <2> QED BY <1>2, <2>1, <2>2
<1> HIDE DEF c, x
<1>5. k + m <= Len(s) /\ p - Len(c) = k + m /\ Len(c) <= p
  BY <1>1, <1>3
<1>6. \A i \in 1 .. m : ~Occurs(s, k + i, TagOf(r(k).thinking))
  BY <1>2
<1> HIDE DEF k, l
<1>7. /\ r(k + m).skip = 0 /\ r(k + m).thinking = r(k).thinking
      /\ r(k + m).shown = IF r(k).thinking THEN r(k).shown
                          ELSE r(k).shown \o SubSeq(s, k + 1, k + m)
  <2>1. k + m <= Len(s) /\ k \in Nat /\ m \in Nat /\ r(k).skip = 0
    BY <1>1, <1>2, <1>5
  <2> QED BY <2>1, <1>6, TextRead, Zenon
<1> HIDE DEF r
<1>8. ShownAs(IF th THEN a ELSE a \o x, r(k + m).shown)
  <2>1. CASE th
    BY <2>1, <1>2, <1>7
  <2>2. CASE ~th
    <3>1. r(k + m).shown = r(k).shown \o x
      BY <2>2, <1>2, <1>4, <1>7
    <3>2. ShownAs(a \o x, r(k).shown \o x)
      BY <1>2, <1>3, ShownMore
    <3> QED BY <2>2, <3>1, <3>2
  <2> QED BY <2>1, <2>2
<1>9. Follows(s, p, c, th, IF th THEN a ELSE a \o x)
  <2>1. r(p - Len(c)) = r(k + m) /\ c = SubSeq(s, (p - Len(c)) + 1, p)
    BY <1>4, <1>5
  <2> QED BY <1>2, <1>5, <1>7, <1>8, <2>1 DEF Follows, r
<1> QED BY <1>3, <1>9 DEF c, x, l

\* A tag is crossed.
LEMMA FollowsTag ==
  ASSUME NEW s \in Seq(Char), NEW p \in 0 .. Len(s), NEW b \in Seq(Char), NEW th \in BOOLEAN,
         NEW a \in Seq(Char), Follows(s, p, b, th, a), Find(b, TagOf(th)) # 0
  PROVE  LET at == Find(b, TagOf(th))
             c  == From(b, at + Len(TagOf(th)))
             x  == SubSeq(b, 1, at - 1)
         IN /\ Follows(s, p, c, ~th, IF th THEN a ELSE a \o x)
            /\ c \in Seq(Char) /\ x \in Seq(Char)
<1> DEFINE tag == TagOf(th)
           l == Len(tag)
           at == Find(b, tag)
           m == at - 1
           x == SubSeq(b, 1, m)
           d == SubSeq(b, m + 1, Len(b))
           a2 == IF th THEN a ELSE a \o x
           k == p - Len(b)
<1>1. l \in Nat /\ l > 0
  BY TagLength
<1>2. at \in 1 .. Len(b) /\ Occurs(b, at, tag) /\ \A i \in 1 .. at - 1 : ~Occurs(b, i, tag)
  BY FindIsFirst
<1>3. at + l - 1 <= Len(b)
  BY <1>2 DEF Occurs
<1>4. /\ Len(b) \in Nat /\ k \in Nat /\ k <= p /\ p - k = Len(b) /\ Len(s) \in Nat
      /\ b = SubSeq(s, k + 1, p)
  BY DEF Follows
<1>5. \A i \in 1 .. at : Occurs(b, i, tag) <=> Occurs(s, k + i, tag)
  <2> TAKE i \in 1 .. at
  <2>1. i \in Nat \ {0} /\ i + l - 1 <= p - k /\ p \in k .. Len(s)
    BY <1>1, <1>2, <1>3, <1>4
  <2> HIDE DEF k, tag
  <2>2. Occurs(SubSeq(s, k + 1, p), i, tag) <=> Occurs(s, k + i, tag)
    BY <1>1, <1>4, <2>1, OccursInPart
  <2> QED BY <1>4, <2>2
<1>6. m \in 0 .. Len(b) /\ \A i \in 1 .. m : ~Occurs(s, k + i, tag)
  <2> HIDE DEF at, k, tag
  <2> QED BY <1>2, <1>5
<1>7. Follows(s, p, d, th, a2) /\ d \in Seq(Char) /\ x \in Seq(Char)
  <2>1. \A i \in 1 .. m : ~Occurs(s, (p - Len(b)) + i, TagOf(th))
    BY <1>6
  <2> HIDE DEF m, at
  <2>2. /\ Follows(s, p, SubSeq(b, m + 1, Len(b)), th, IF th THEN a ELSE a \o SubSeq(b, 1, m))
        /\ SubSeq(b, m + 1, Len(b)) \in Seq(Char) /\ SubSeq(b, 1, m) \in Seq(Char)
    BY <1>6, <2>1, FollowsText
  <2> QED BY <2>2
<1>8. Len(d) = Len(b) - m
  <2>1. m + 1 \in Nat \ {0} /\ Len(b) \in (m + 1) - 1 .. Len(b) /\ Len(b) - (m + 1) + 1 = Len(b) - m
    BY <1>2, <1>4
  <2> HIDE DEF m
  <2> QED BY <2>1, Part, ZenonT(60)
<1> HIDE DEF a2
<1> DEFINE j == k + m
           c == SubSeq(b, at + l, Len(b))
<1>9. p - Len(d) = j /\ j \in Nat /\ j + l <= p
  BY <1>2, <1>3, <1>4, <1>8
<1> HIDE DEF d
<1>10. /\ Reading(s)[j].skip = 0 /\ Reading(s)[j].thinking = th
       /\ ShownAs(a2, Reading(s)[j].shown)
  <2> HIDE DEF j
  <2> QED BY <1>7, <1>9 DEF Follows
<1>11. Occurs(s, j + 1, tag)
  <2>1. j + 1 = k + at /\ at \in 1 .. at
    BY <1>2, <1>4
  <2> HIDE DEF j, at, k, tag
  <2> QED BY <1>2, <1>5, <2>1
<1>12. /\ Reading(s)[j + l].skip = 0 /\ Reading(s)[j + l].thinking = (~th)
       /\ Reading(s)[j + l].shown = Reading(s)[j].shown
  <2>1. j + 1 <= Len(s)
    BY <1>1, <1>4, <1>9
  <2>2. j \in Nat
    BY <1>9
  <2> HIDE DEF j
  <2> DEFINE q == TagOf(Reading(s)[j].thinking)
  <2>3. q = tag
    BY <1>10
  <2>4. Occurs(s, j + 1, q)
    BY <1>11, <2>3
  <2>5. /\ Reading(s)[j + Len(q)].skip = 0
        /\ Reading(s)[j + Len(q)].thinking = ~Reading(s)[j].thinking
        /\ Reading(s)[j + Len(q)].shown = Reading(s)[j].shown
    BY <1>10, <2>1, <2>2, <2>4, TagRead, Zenon
  <2>6. Len(q) = l
    BY <2>3
  <2> HIDE DEF q, l
  <2>7. (~Reading(s)[j].thinking) = (~th)
    BY <1>10, Zenon
  <2> QED BY <2>5, <2>6, <2>7, Zenon
<1>13. c \in Seq(Char) /\ Len(c) = p - (j + l) /\ c = SubSeq(s, (j + l) + 1, p)
  <2>1. /\ at + l \in Nat \ {0} /\ Len(b) \in (at + l) - 1 .. Len(b)
        /\ Len(b) - (at + l) + 1 = p - (j + l)
    <3>1. at \in Nat /\ at > 0 /\ at + l - 1 <= Len(b) /\ Len(b) \in Nat
      BY <1>2, <1>3, <1>4
    <3> HIDE DEF at, l
    <3> QED BY <1>1, <3>1
  <2>2. /\ p \in k .. Len(s) /\ Len(b) \in (at + l) - 1 .. p - k
        /\ k + (at + l) = (j + l) + 1 /\ k + Len(b) = p
    BY <1>1, <1>2, <1>3, <1>4
  <2> HIDE DEF at, l, j, k
  <2>3. c \in Seq(Char) /\ Len(c) = p - (j + l)
    BY <2>1, Part
  <2>4. SubSeq(SubSeq(s, k + 1, p), at + l, Len(b)) = SubSeq(s, k + (at + l), k + Len(b))
    <3>1. k \in Nat /\ at + l \in Nat \ {0} /\ s \in Seq(Char)
      BY <1>4, <2>1
    <3> DEFINE i == at + l
               n == Len(b)
    <3>2. /\ i \in Nat \ {0} /\ p \in k .. Len(s) /\ n \in i - 1 .. p - k
      BY <2>1, <2>2
    <3> HIDE DEF i, n
    <3>3. SubSeq(SubSeq(s, k + 1, p), i, n) = SubSeq(s, k + i, k + n)
      BY <3>1, <3>2, PartOfPart
    <3> QED BY <3>3 DEF i, n
  <2> QED BY <1>4, <2>2, <2>3, <2>4
<1> HIDE DEF c
<1>14. p - Len(c) = j + l /\ Len(c) <= p
  <2>1. j + l \in Nat /\ p \in Nat
    BY <1>1, <1>9
  <2> HIDE DEF j, l
  <2> QED BY <2>1, <1>13
<1>15. Follows(s, p, c, ~th, a2)
  <2> HIDE DEF j, l
  <2>1. c = SubSeq(s, (p - Len(c)) + 1, p)
    BY <1>13, <1>14
  <2> QED BY <1>10, <1>12, <1>14, <2>1 DEF Follows
<1> QED BY <1>7, <1>13, <1>15 DEF a2, c, From

\* What is published will have been shown, and at the end all of it.
LEMMA FollowsShows ==
  ASSUME NEW s \in Seq(Char), NEW p \in 0 .. Len(s), NEW b, NEW th,
         NEW a \in Seq(Char), Follows(s, p, b, th, a), Len(b) \in Nat
  PROVE  \E w \in Seq(Char) : ShownAs(a \o w, Visible(s))
<1> DEFINE k == p - Len(b)
           r(i) == Reading(s)[i]
<1>1. k \in Nat /\ Len(s) \in k .. Len(s) /\ ShownAs(a, r(k).shown)
  BY DEF Follows
<1> HIDE DEF k
<1>2. /\ IsPrefix(r(k).shown, r(Len(s)).shown)
      /\ r(k).shown \in Seq(Char) /\ r(Len(s)).shown \in Seq(Char)
  BY <1>1, ShownGrows
<1> HIDE DEF r
<1>3. PICK w \in Seq(Char) : r(Len(s)).shown = r(k).shown \o w
  BY <1>2, PrefixIsConcat
<1>4. ShownAs(a \o w, r(k).shown \o w)
  BY <1>1, ShownMore
<1>5. Visible(s) = r(Len(s)).shown
  BY DEF Visible, r
<1> QED BY <1>3, <1>4, <1>5

\* At the end what is held back is shown, unless it is part of a thought.
LEMMA FollowsEnd ==
  ASSUME NEW s \in Seq(Char), NEW b \in Seq(Char), NEW th \in BOOLEAN,
         NEW a \in Seq(Char), Follows(s, Len(s), b, th, a), Len(b) < Len(TagOf(th))
  PROVE  ShownAs(IF th THEN a ELSE a \o b, Visible(s))
<1> DEFINE l == Len(b)
           k == Len(s) - l
<1>1. l \in Nat /\ Len(s) \in Nat /\ Len(TagOf(th)) \in Nat
  BY TagLength
<1>2. \A i \in 1 .. l : ~Occurs(s, k + i, TagOf(th))
  <2> TAKE i \in 1 .. l
  <2>1. ~((k + i) + Len(TagOf(th)) - 1 <= Len(s))
    BY <1>1
  <2> HIDE DEF k
  <2> QED BY <2>1 DEF Occurs
<1>3. Follows(s, Len(s), SubSeq(b, l + 1, l), th, IF th THEN a ELSE a \o SubSeq(b, 1, l))
  <2>1. l \in 0 .. Len(b) /\ Len(s) \in 0 .. Len(s)
    BY <1>1
  <2> QED BY <1>2, <2>1, FollowsText, Zenon
<1>4. SubSeq(b, l + 1, l) = <<>> /\ SubSeq(b, 1, l) = b
  BY <1>1, SubSeqFull
<1>5. Follows(s, Len(s), <<>>, th, IF th THEN a ELSE a \o b)
  BY <1>3, <1>4
<1>6. Len(s) - Len(<<>>) = Len(s)
  BY <1>1
<1> QED BY <1>5, <1>6 DEF Follows, Visible
-----------------------------------------------------------------------------
\* The filter's part of the invariant.

\* The phases do not overlap.
LEMMA Phases ==
  /\ "generate" \in workerSteps /\ "clean" \in workerSteps
  /\ \A s \in documentSteps : s \in workerSteps /\ s # "clean"
  /\ \A s \in workerSteps : s \notin {"read", "parse", "answered", "ended", "invalid"}
  /\ "generate" \notin documentSteps /\ "clean" \notin documentSteps
BY DEF workerSteps, documentSteps

\* Every text begins with the empty one.
LEMMA NothingIsPrefix ==
  ASSUME NEW s \in Seq(Char)
  PROVE  IsPrefix(<<>>, s)
<1>1. <<>> \o s = s /\ <<>> \in Seq(Char)
  BY ConcatEmptySeq, EmptySeq
<1>2. IsPrefix(<<>>, <<>> \o s)
  BY <1>1, PrefixOfConcat
<1> QED BY <1>1, <1>2

\* The filter starts where the reader does.
LEMMA FilteringInit == Init => Filtering
<1> SUFFICES ASSUME Init PROVE Filtering
  OBVIOUS
<1>1. /\ step = "index" /\ text = <<>> /\ position = 0 /\ output = <<>> /\ fullAnswer = <<>>
      /\ think = [buffer |-> <<>>, is_thinking |-> FALSE]
  BY DEF Init
<1>2. think.buffer = <<>> /\ think.is_thinking = FALSE
  BY <1>1
<1>3. <<>> \in Seq(Char) /\ Len(<<>>) = 0 /\ <<>> \o <<>> = <<>>
  OBVIOUS
<1>4. think \in [buffer : Seq(Char), is_thinking : BOOLEAN]
  BY <1>1
<1>5. Len(think.buffer) < Len(Tag)
  BY <1>2, <1>3, TagLength DEF Tag
<1>6. Follows(text, position, think.buffer, think.is_thinking, fullAnswer \o output)
  BY <1>1, <1>2, <1>3, FollowsStart
<1>7. AnswerIsVisible
  BY <1>1 DEF AnswerIsVisible
<1>8. position \in 0 .. Len(text) /\ step # "clean"
  BY <1>1, <1>3
<1>9. IsPrefix(think.buffer, OpenTag)
  BY <1>2, NothingIsPrefix, Tags
<1> QED BY <1>1, <1>3, <1>4, <1>5, <1>6, <1>7, <1>8, <1>9 DEF Filtering

\* The model generates any text: nothing of it has been read.
LEMMA StartKeepsFiltering ==
  ASSUME Filtering, StartGeneration
  PROVE  Filtering'
<1>1. /\ step = "assemble" /\ text' \in Texts /\ step' = "generate"
      /\ position' = position /\ think' = think /\ output' = output /\ fullAnswer' = fullAnswer
  BY DEF StartGeneration, workerVars
<1>2. step \in documentSteps /\ step \in workerSteps /\ step # "clean"
  BY <1>1 DEF documentSteps, workerSteps
<1>3. /\ text = <<>> /\ fullAnswer = <<>> /\ output = <<>> /\ position \in 0 .. Len(text)
      /\ Len(think.buffer) < Len(Tag)
      /\ think \in [buffer : Seq(Char), is_thinking : BOOLEAN]
      /\ Follows(text, position, think.buffer, think.is_thinking, fullAnswer \o output)
  BY <1>2 DEF Filtering
<1>4. position = 0
  BY <1>3
<1>5. think.buffer = <<>> /\ think.is_thinking = FALSE
  <2>1. Len(think.buffer) = 0 /\ think.buffer \in Seq(Char)
    BY <1>3, <1>4 DEF Follows
  <2>2. think.buffer = <<>>
    BY <2>1
  <2>3. 0 - Len(<<>>) = 0
    <3>1. Len(<<>>) = 0 /\ 0 - 0 = 0
      BY EmptySeq
    <3> QED BY <3>1, Zenon
  <2>4. Reading(<<>>)[0].thinking = think.is_thinking
    BY <1>3, <1>4, <2>2, <2>3 DEF Follows
  <2>5. Reading(<<>>)[0].thinking = FALSE
    <3>1. <<>> \in Seq(Char)
      BY EmptySeq
    <3>2. Reading(<<>>)[0] = Start
      BY <3>1, ReadingStarts
    <3> QED BY <3>2 DEF Start
  <2> QED BY <2>2, <2>4, <2>5
<1>6. text' \in Seq(Char)
  BY <1>1, QaAnswerAssumption
<1>7. Follows(text', 0, <<>>, FALSE, <<>>)
  BY <1>6, FollowsStart
<1>8. <<>> \o <<>> = <<>> /\ <<>> \in Seq(Char)
  OBVIOUS
<1>9. Follows(text, position, think.buffer, think.is_thinking, fullAnswer \o output)'
  BY <1>1, <1>3, <1>4, <1>5, <1>7, <1>8
<1>10. position' \in 0 .. Len(text')
  BY <1>1, <1>4, <1>6
<1>11. Len(think'.buffer) < Len(Tag)'
  BY <1>1, <1>3 DEF Tag, TagOf
<1>12. AnswerIsVisible' /\ step' \notin documentSteps
  BY <1>1 DEF AnswerIsVisible, documentSteps
<1>13. IsPrefix(think'.buffer, OpenTag)
  BY <1>1, <1>5, NothingIsPrefix, Tags
<1> QED BY <1>1, <1>3, <1>6, <1>8, <1>9, <1>10, <1>11, <1>12, <1>13 DEF Filtering

\* The fallback answers a question without evidence.
LEMMA NoEvidenceKeepsFiltering ==
  ASSUME Filtering, AnswerWithoutEvidence
  PROVE  Filtering'
<1>1. /\ step = "retrieve" /\ step' = "read" /\ fullAnswer' = Fallback
      /\ text' = text /\ position' = position /\ think' = think /\ output' = output
  BY DEF AnswerWithoutEvidence
<1>2. /\ step \in documentSteps /\ step # "clean"
      /\ step' \notin documentSteps /\ step' \notin workerSteps
  BY <1>1 DEF documentSteps, workerSteps
<1>3. text = <<>> /\ <<>> \in Seq(Char)
  BY <1>2, EmptySeq DEF Filtering
<1>4. Visible(text) = <<>>
  <2>1. Visible(<<>>) = Reading(<<>>)[0].shown
    BY DEF Visible
  <2>2. Reading(<<>>)[0] = Start
    BY <1>3, ReadingStarts
  <2> QED BY <1>3, <2>1, <2>2 DEF Start
<1>5. IsBlank(Visible(text))
  BY <1>4, NothingIsBlank
<1>6. AnswerIsVisible'
  <2>1. text' = text
    BY <1>1
  <2>2. IsBlank(Visible(text'))
    BY <1>5, <2>1
  <2> QED BY <1>1, <2>2, Tags DEF AnswerIsVisible
<1>7. fullAnswer' \in Seq(Char)
  BY <1>1, Tags
<1>8. Tag' = Tag
  BY <1>1 DEF Tag, TagOf
<1> QED BY <1>1, <1>2, <1>6, <1>7, <1>8 DEF Filtering

\* A delta is taken into the buffer.
LEMMA DeltaKeepsFiltering ==
  ASSUME Filtering, StreamDelta
  PROVE  Filtering'
<1>1. PICK n \in (position + 1) .. Len(text) :
        /\ position' = n
        /\ think' = [think EXCEPT !.buffer = @ \o SubSeq(text, position + 1, n)]
  BY DEF StreamDelta
<1>2. /\ step = "generate" /\ step' = "clean" /\ text' = text /\ output' = output
      /\ fullAnswer' = fullAnswer
  BY DEF StreamDelta
<1>3. /\ text \in Seq(Char) /\ position \in 0 .. Len(text)
      /\ think \in [buffer : Seq(Char), is_thinking : BOOLEAN]
      /\ fullAnswer = <<>> \/ ~IsBlank(fullAnswer)
      /\ Follows(text, position, think.buffer, think.is_thinking, fullAnswer \o output)
      /\ output \in Seq(Char) /\ fullAnswer \in Seq(Char)
  BY <1>2, Phases DEF Filtering
<1> DEFINE b == think.buffer \o SubSeq(text, position + 1, n)
<1>4. Follows(text, n, b, think.is_thinking, fullAnswer \o output) /\ b \in Seq(Char)
  <2>1. n \in position .. Len(text) /\ Len(think.buffer) \in Nat
    BY <1>3
  <2> QED BY <1>3, <2>1, FollowsDelta
<1>5. think' = [think EXCEPT !.buffer = b]
  BY <1>1
<1> HIDE DEF b
<1>6. /\ think'.buffer = b /\ think'.is_thinking = think.is_thinking
      /\ think' \in [buffer : Seq(Char), is_thinking : BOOLEAN]
  BY <1>3, <1>4, <1>5
<1>7. Follows(text, position, think.buffer, think.is_thinking, fullAnswer \o output)'
  BY <1>1, <1>2, <1>4, <1>6
<1>8. position' \in 0 .. Len(text')
  BY <1>1, <1>2, <1>3
<1>9. AnswerIsVisible' /\ step' \notin documentSteps
  BY <1>2 DEF AnswerIsVisible, documentSteps
<1> QED BY <1>2, <1>3, <1>6, <1>7, <1>8, <1>9 DEF Filtering

\* Texts may be joined in either order.
LEMMA ConcatThree ==
  ASSUME NEW a \in Seq(Char), NEW b \in Seq(Char), NEW c \in Seq(Char)
  PROVE  (a \o b) \o c = a \o (b \o c)
BY ConcatAssociative

\* A tag is taken out of the buffer.
LEMMA TagKeepsFiltering ==
  ASSUME Filtering, CrossTag
  PROVE  Filtering'
<1> DEFINE b == think.buffer
           th == think.is_thinking
           at == Find(b, Tag)
           c == From(b, at + Len(Tag))
           x == SubSeq(b, 1, at - 1)
           a == fullAnswer \o output
<1>1. /\ step = "clean" /\ step' = step /\ at # 0
      /\ think' = [buffer |-> c, is_thinking |-> ~th]
      /\ output' = IF th THEN output ELSE output \o x
      /\ text' = text /\ position' = position /\ fullAnswer' = fullAnswer
  BY DEF CrossTag
<1>2. /\ text \in Seq(Char) /\ position \in 0 .. Len(text)
      /\ b \in Seq(Char) /\ th \in BOOLEAN
      /\ fullAnswer = <<>> \/ ~IsBlank(fullAnswer)
      /\ Follows(text, position, b, th, a)
      /\ output \in Seq(Char) /\ fullAnswer \in Seq(Char)
  BY <1>1, Phases DEF Filtering
<1>3. a \in Seq(Char)
  BY <1>2, ConcatProperties
<1>4. /\ Follows(text, position, c, ~th, IF th THEN a ELSE a \o x)
      /\ c \in Seq(Char) /\ x \in Seq(Char)
  <2>1. Find(b, TagOf(th)) # 0 /\ Tag = TagOf(th)
    BY <1>1 DEF Tag
  <2> HIDE DEF a, b, th
  <2> QED BY <1>2, <1>3, <2>1, FollowsTag
<1> HIDE DEF b, th, at, c, x
<1>5. (IF th THEN a ELSE a \o x) = fullAnswer \o output'
  <2>1. CASE th
    BY <2>1, <1>1
  <2>2. CASE ~th
    <3>1. (fullAnswer \o output) \o x = fullAnswer \o (output \o x)
      <4>1. fullAnswer \in Seq(Char) /\ output \in Seq(Char) /\ x \in Seq(Char)
        BY <1>2, <1>4
      <4> QED BY <4>1, ConcatThree
    <3> QED BY <2>2, <3>1, <1>1
  <2> QED BY <2>1, <2>2
<1>6. output' \in Seq(Char)
  BY <1>1, <1>2, <1>4, ConcatProperties
<1>7. (~th) \in BOOLEAN
  BY <1>2
<1>8. /\ think'.buffer = c /\ think'.is_thinking = (~th)
      /\ think' \in [buffer : Seq(Char), is_thinking : BOOLEAN]
  BY <1>1, <1>4, <1>7
<1>9. Follows(text, position, think.buffer, think.is_thinking, fullAnswer \o output)'
  BY <1>1, <1>4, <1>5, <1>8, Zenon
<1>10. AnswerIsVisible' /\ step' \notin documentSteps
  BY <1>1 DEF AnswerIsVisible, documentSteps
<1> QED BY <1>1, <1>2, <1>6, <1>8, <1>9, <1>10 DEF Filtering

\* Of a thought, less than the closing tag is kept.
LEMMA KeptLength ==
  ASSUME NEW b \in Seq(Char)
  PROVE  Kept(b) = IF Len(b) <= Len(CloseTag) - 1 THEN Len(b) ELSE Len(CloseTag) - 1
<1>1. Len(b) \in Int /\ Len(CloseTag) - 1 \in Int
  BY Tags
<1> QED BY <1>1, MinOfTwo, Zenon DEF Kept

\* What is left of the delta is published but for what is held back.
LEMMA PublishKeepsFiltering ==
  ASSUME Filtering, PublishDelta
  PROVE  Filtering'
<1> DEFINE b == think.buffer
           th == think.is_thinking
           l == Len(b)
           n == IF th THEN Kept(b) ELSE HeldBack(b)
           m == l - n
           x == SubSeq(b, 1, m)
           safe == IF th THEN output ELSE output \o SubSeq(b, 1, l - n)
           dropped == IF fullAnswer = <<>> THEN IsBlank(safe) ELSE safe = <<>>
           a == fullAnswer \o output
           c == LastN(b, n)
<1>1. /\ step = "clean" /\ step' = "generate" /\ Find(b, Tag) = 0
      /\ think' = [think EXCEPT !.buffer = c]
      /\ output' = <<>>
      /\ fullAnswer' = IF dropped THEN fullAnswer ELSE fullAnswer \o safe
      /\ text' = text /\ position' = position
  BY DEF PublishDelta
<1>2. /\ text \in Seq(Char) /\ position \in 0 .. Len(text)
      /\ b \in Seq(Char) /\ th \in BOOLEAN
      /\ think \in [buffer : Seq(Char), is_thinking : BOOLEAN]
      /\ fullAnswer = <<>> \/ ~IsBlank(fullAnswer)
      /\ Follows(text, position, b, th, a)
      /\ output \in Seq(Char) /\ fullAnswer \in Seq(Char)
  BY <1>1, Phases DEF Filtering
<1>3. Tag = TagOf(th) /\ Len(TagOf(th)) \in Nat /\ Len(TagOf(th)) > 0
  BY TagLength DEF Tag
<1>4. a \in Seq(Char) /\ l \in Nat
  BY <1>2, ConcatProperties
<1> DEFINE k == position - l
<1>5. /\ k \in Nat /\ position - k = l
      /\ b = SubSeq(text, k + 1, position) /\ position \in k .. Len(text)
  BY <1>2, <1>4 DEF Follows
<1>6. n \in 0 .. l /\ n < Len(TagOf(th))
  <2>1. CASE th
    <3>1. Kept(b) = IF l <= Len(CloseTag) - 1 THEN l ELSE Len(CloseTag) - 1
      BY <1>2, KeptLength
    <3>2. TagOf(th) = CloseTag
      BY <2>1 DEF TagOf
    <3>3. n = Kept(b)
      BY <2>1
    <3> HIDE DEF l, n
    <3> QED BY <1>4, <3>1, <3>2, <3>3, Tags
  <2>2. CASE ~th
    <3>1. TagOf(th) = OpenTag
      BY <2>2 DEF TagOf
    <3> QED BY <1>2, <2>2, <3>1, HeldBackIsEnough
  <2> QED BY <2>1, <2>2
<1>7. \A i \in 1 .. m : ~Occurs(text, k + i, TagOf(th))
  <2> TAKE i \in 1 .. m
  <2>1. CASE th
    <3>1. Kept(b) = IF l <= Len(CloseTag) - 1 THEN l ELSE Len(CloseTag) - 1
      BY <1>2, KeptLength
    <3>2. TagOf(th) = CloseTag
      BY <2>1 DEF TagOf
    <3>3. i \in Nat \ {0} /\ i \in 1 .. l /\ i + Len(CloseTag) - 1 <= l
      <4>1. n = Kept(b)
        BY <2>1
      <4>2. i \in 1 .. (l - n)
        OBVIOUS
      <4> HIDE DEF l, n
      <4> QED BY <1>4, <3>1, <4>1, <4>2, Tags
    <3>4. ~Occurs(b, i, CloseTag)
      <4>1. Find(b, CloseTag) = 0 /\ i \in 1 .. Len(b)
        BY <1>1, <1>3, <3>2, <3>3
      <4> HIDE DEF b
      <4> QED BY <1>2, <4>1, FindIsFirst
    <3>5. Occurs(SubSeq(text, k + 1, position), i, CloseTag) <=> Occurs(text, k + i, CloseTag)
      <4> HIDE DEF k, l
      <4>1. i + Len(CloseTag) - 1 <= position - k /\ Len(CloseTag) \in Nat
        BY <3>3, <1>5, Tags
      <4> QED BY <4>1, <3>3, <1>2, <1>5, OccursInPart
    <3> QED BY <3>2, <3>4, <3>5, <1>5
  <2>2. CASE ~th
    <3>1. TagOf(th) = OpenTag
      BY <2>2 DEF TagOf
    <3>2. Find(SubSeq(text, k + 1, position), OpenTag) = 0
      BY <1>1, <1>3, <1>5, <3>1
    <3>3. i \in 1 .. (position - k) - HeldBack(SubSeq(text, k + 1, position))
      <4>1. n = HeldBack(b) /\ i \in 1 .. (l - n)
        BY <2>2
      <4> HIDE DEF n, l, k, b
      <4> QED BY <4>1, <1>5
    <3> HIDE DEF k
    <3> QED BY <1>2, <1>5, <3>1, <3>2, <3>3, NoTagBeforeHeldBack
  <2> QED BY <2>1, <2>2
<1> DEFINE d == SubSeq(b, m + 1, l)
<1>8. /\ Follows(text, position, d, th, IF th THEN a ELSE a \o x)
      /\ d \in Seq(Char) /\ x \in Seq(Char)
  <2>1. m \in 0 .. Len(b)
    <3> HIDE DEF n
    <3> QED BY <1>4, <1>6
  <2> HIDE DEF m
  <2>2. \A i \in 1 .. m : ~Occurs(text, (position - Len(b)) + i, TagOf(th))
    BY <1>7
  <2>3. Follows(text, position, b, th, a) /\ b \in Seq(Char) /\ th \in BOOLEAN
    BY <1>2
  <2>4. text \in Seq(Char) /\ position \in 0 .. Len(text) /\ a \in Seq(Char)
    BY <1>2, <1>4
  <2> HIDE DEF a, b, th
  <2>5. /\ Follows(text, position, SubSeq(b, m + 1, Len(b)), th,
                  IF th THEN a ELSE a \o SubSeq(b, 1, m))
        /\ SubSeq(b, m + 1, Len(b)) \in Seq(Char) /\ SubSeq(b, 1, m) \in Seq(Char)
    BY <2>1, <2>2, <2>3, <2>4, FollowsText, ZenonT(60)
  <2> QED BY <2>5
<1>9. c = d /\ Len(d) = n
  <2> HIDE DEF n
  <2>1. Len(b) - n + 1 = m + 1
    BY <1>4
  <2>2. c = d
    BY <2>1 DEF LastN
  <2>3. m + 1 \in Nat \ {0} /\ l \in (m + 1) - 1 .. Len(b) /\ l - (m + 1) + 1 = n
    BY <1>4, <1>6
  <2> HIDE DEF m, b
  <2>4. Len(d) = n
    BY <1>2, <2>3, Part
  <2> QED BY <2>2, <2>4
<1>10. ~th => IsPrefix(d, OpenTag)
  <2> SUFFICES ASSUME ~th PROVE IsPrefix(c, OpenTag)
    BY <1>9
  <2>1. n = HeldBack(b)
    OBVIOUS
  <2> HIDE DEF n, b
  <2> QED BY <1>2, <2>1, HeldBackIsEnough
<1>11. safe = (IF th THEN output ELSE output \o x) /\ safe \in Seq(Char)
  <2> HIDE DEF n, b, th
  <2> QED BY <1>2, <1>8, ConcatProperties
<1> HIDE DEF c, d, x, m, n, safe, th, b, l, k
<1>12. (IF th THEN a ELSE a \o x) = fullAnswer \o safe
  <2>1. CASE th
    BY <2>1, <1>11
  <2>2. CASE ~th
    <3>1. (fullAnswer \o output) \o x = fullAnswer \o (output \o x)
      <4>1. fullAnswer \in Seq(Char) /\ output \in Seq(Char) /\ x \in Seq(Char)
        BY <1>2, <1>8
      <4> QED BY <4>1, ConcatThree
    <3> QED BY <2>2, <3>1, <1>11
  <2> QED BY <2>1, <2>2
<1> HIDE DEF a
<1>13. Follows(text, position, d, th, fullAnswer \o safe)
  BY <1>8, <1>12
<1>14. /\ fullAnswer' \in Seq(Char) /\ fullAnswer' \o <<>> = fullAnswer'
       /\ fullAnswer' = <<>> \/ ~IsBlank(fullAnswer')
       /\ Follows(text, position, d, th, fullAnswer')
  <2>1. CASE dropped /\ fullAnswer = <<>>
    <3>1. IsBlank(safe) /\ fullAnswer' = <<>>
      BY <2>1, <1>1
    <3>2. <<>> \o safe = safe /\ <<>> \o <<>> = <<>> /\ <<>> \in Seq(Char)
      BY <1>11, ConcatEmptySeq, EmptySeq
    <3>3. Follows(text, position, d, th, safe)
      BY <2>1, <1>13, <3>2
    <3>4. Follows(text, position, d, th, <<>>)
      BY <1>11, <3>1, <3>3, ShownDropped DEF Follows
    <3> QED BY <3>1, <3>2, <3>4
  <2>2. CASE dropped /\ fullAnswer # <<>>
    <3>1. safe = <<>> /\ fullAnswer' = fullAnswer
      BY <2>2, <1>1
    <3>2. fullAnswer \o <<>> = fullAnswer
      BY <1>2, ConcatEmptySeq
    <3> QED BY <2>2, <3>1, <3>2, <1>2, <1>13
  <2>3. CASE ~dropped
    <3>1. fullAnswer' = fullAnswer \o safe
      BY <2>3, <1>1
    <3>2. fullAnswer' \in Seq(Char)
      BY <3>1, <1>2, <1>11, ConcatProperties
    <3>3. ~IsBlank(fullAnswer')
      <4>1. CASE fullAnswer = <<>>
        <5>1. ~IsBlank(safe)
          BY <4>1, <2>3
        <5> QED BY <5>1, <3>1, <1>2, <1>11, BlankParts
      <4>2. CASE fullAnswer # <<>>
        BY <4>2, <3>1, <1>2, <1>11, BlankParts
      <4> QED BY <4>1, <4>2
    <3> QED BY <1>13, <3>1, <3>2, <3>3, ConcatEmptySeq
  <2> QED BY <2>1, <2>2, <2>3
<1>15. /\ think'.buffer = d /\ think'.is_thinking = th
       /\ think' \in [buffer : Seq(Char), is_thinking : BOOLEAN]
  BY <1>1, <1>2, <1>8, <1>9 DEF th
<1>16. Len(think'.buffer) < Len(Tag)'
  BY <1>6, <1>9, <1>15 DEF Tag
<1>17. Follows(text, position, think.buffer, think.is_thinking, fullAnswer \o output)'
  BY <1>1, <1>14, <1>15
<1>18. AnswerIsVisible' /\ step' \notin documentSteps
  BY <1>1 DEF AnswerIsVisible, documentSteps
<1>19. <<>> \in Seq(Char)
  BY EmptySeq
<1> QED BY <1>1, <1>2, <1>14, <1>15, <1>16, <1>17, <1>18, <1>19, <1>10 DEF Filtering

\* The answer ends with what was still held back, or is the fallback.
LEMMA EndKeepsFiltering ==
  ASSUME Filtering, EndGeneration
  PROVE  Filtering'
<1> DEFINE th == think.is_thinking
           trailing == IF th THEN <<>> ELSE think.buffer
           answer == fullAnswer \o trailing
<1>1. /\ step = "generate" /\ step' = "read" /\ position = Len(text)
      /\ fullAnswer' = IF IsBlank(answer) THEN Fallback ELSE answer
      /\ text' = text /\ position' = position /\ think' = think /\ output' = output
  BY DEF EndGeneration
<1>2. /\ text \in Seq(Char) /\ think.buffer \in Seq(Char) /\ th \in BOOLEAN
      /\ output = <<>> /\ fullAnswer \in Seq(Char)
      /\ Len(think.buffer) < Len(TagOf(th))
      /\ Follows(text, Len(text), think.buffer, th, fullAnswer \o output)
  BY <1>1, Phases DEF Filtering, Tag
<1>3. fullAnswer \o output = fullAnswer
  BY <1>2, ConcatEmptySeq
<1>4. ShownAs(IF th THEN fullAnswer ELSE fullAnswer \o think.buffer, Visible(text))
  BY <1>2, <1>3, FollowsEnd
<1>5. trailing \in Seq(Char) /\ answer \in Seq(Char)
  BY <1>2, EmptySeq, ConcatProperties
<1>6. ShownAs(answer, Visible(text))
  BY <1>2, <1>4, ConcatEmptySeq
<1> HIDE DEF answer, trailing, th
<1>7. /\ IsBlank(Visible(text)) <=> IsBlank(answer)
      /\ LeftStrip(Visible(text)) = LeftStrip(answer)
  BY <1>5, <1>6, StripOfShown
<1>8. ~IsBlank(fullAnswer') /\ fullAnswer' \in Seq(Char)
  BY <1>1, <1>5, Tags
<1>9. LeftStrip(fullAnswer') = LeftStrip(IF IsBlank(Visible(text)) THEN Fallback
                                                                  ELSE Visible(text))
  BY <1>1, <1>7
<1>10. AnswerIsVisible'
  <2>1. Visible(text)' = Visible(text)
    BY <1>1
  <2> QED BY <1>1, <1>8, <1>9, <2>1 DEF AnswerIsVisible
<1>11. step' \notin documentSteps /\ step' \notin workerSteps /\ step # "clean"
  BY <1>1 DEF documentSteps, workerSteps
<1>12. Tag' = Tag
  BY <1>1 DEF Tag, TagOf
<1> QED BY <1>1, <1>8, <1>10, <1>11, <1>12 DEF Filtering

\* Every step keeps the filter's part of the invariant.
LEMMA FilteringStep == Filtering /\ [Next]_vars => Filtering'
<1> SUFFICES ASSUME Filtering, [Next]_vars PROVE Filtering'
  OBVIOUS
<1> DEFINE later == {"read", "parse", "answered", "ended", "invalid"}
<1>1. CASE /\ UNCHANGED workerVars
           /\ step = "clean" => step' = "clean"
           /\ step' \in documentSteps => step \in documentSteps
           /\ step' \in workerSteps => step \in workerSteps
           /\ step' \in later => step \in later
  <2>1. /\ text' = text /\ position' = position /\ think' = think /\ output' = output
        /\ fullAnswer' = fullAnswer
    BY <1>1 DEF workerVars
  <2>2. Tag' = Tag
    BY <2>1 DEF Tag, TagOf
  <2>3. AnswerIsVisible'
    <3>1. Visible(text)' = Visible(text)
      BY <2>1
    <3> QED BY <1>1, <2>1, <3>1 DEF Filtering, AnswerIsVisible
  <2>4. ASSUME step' \in workerSteps
        PROVE  /\ fullAnswer' = <<>> \/ ~IsBlank(fullAnswer')
               /\ Follows(text, position, think.buffer, think.is_thinking, fullAnswer \o output)'
    BY <1>1, <2>1, <2>4 DEF Filtering
  <2>5. step' # "clean" => output' = <<>> /\ Len(think'.buffer) < Len(Tag')
    BY <1>1, <2>1, <2>2 DEF Filtering
  <2>6. step' # "clean" /\ ~think'.is_thinking => IsPrefix(think'.buffer, OpenTag)
    BY <1>1, <2>1 DEF Filtering
  <2>7. step' \in documentSteps => text' = <<>> /\ fullAnswer' = <<>>
    BY <1>1, <2>1 DEF Filtering
  <2>8. /\ text' \in Seq(Char) /\ position' \in 0 .. Len(text')
        /\ think' \in [buffer : Seq(Char), is_thinking : BOOLEAN]
        /\ output' \in Seq(Char) /\ fullAnswer' \in Seq(Char)
    BY <2>1 DEF Filtering
  <2> QED BY <2>3, <2>4, <2>5, <2>7, <2>8, <2>6 DEF Filtering
<1>2. CASE UNCHANGED vars
  BY <1>1, <1>2 DEF vars
<1>3. CASE Index \/ Retrieve \/ AssembleContext
  BY <1>1, <1>3 DEF Index, Retrieve, AssembleContext, documentSteps, workerSteps
<1>4. CASE ReadChunk \/ ChannelCloses
  BY <1>1, <1>4 DEF ReadChunk, ChannelCloses, Loop, documentSteps, workerSteps
<1>5. CASE ParseBlock
  <2>1. step' \in later /\ step \in later /\ UNCHANGED workerVars
    BY <1>5 DEF ParseBlock, Loop
  <2> QED BY <1>1, <2>1 DEF documentSteps, workerSteps
<1>6. CASE ReadEnd
  <2>1. step' \in later /\ step \in later /\ UNCHANGED workerVars
    BY <1>6 DEF ReadEnd
  <2> QED BY <1>1, <2>1 DEF documentSteps, workerSteps
<1> QED
  BY <1>2, <1>3, <1>4, <1>5, <1>6, StartKeepsFiltering, NoEvidenceKeepsFiltering,
     DeltaKeepsFiltering, TagKeepsFiltering, PublishKeepsFiltering, EndKeepsFiltering DEF Next
-----------------------------------------------------------------------------
\* Frames.

\* The kinds of the symbols, and the text of a token.
LEMMA Kinds ==
  /\ Sentinel.kind = "[DONE]" /\ Sentinel.value = <<>>
  /\ Newline.kind = "newline" /\ DataMark.kind = "data:" /\ EndMark.kind = "payload ends"
  /\ \A v \in Seq(Char) : Token(v).kind = "token" /\ Token(v).value = v
BY DEF Sentinel, Newline, DataMark, EndMark, Token, Symbol

\* The marks and the tokens are symbols.
LEMMA Symbols ==
  /\ Sentinel \in symbols /\ Newline \in symbols /\ DataMark \in symbols /\ EndMark \in symbols
  /\ \A v \in Seq(Char) : Token(v) \in symbols
<1>1. <<>> \in Seq(Char)
  BY EmptySeq
<1> QED BY <1>1 DEF Sentinel, Newline, DataMark, EndMark, Token, Symbol, symbols

\* A line break and [DONE] are neither of the other symbols of a frame.
LEMMA NewlineDiffers ==
  /\ Newline # DataMark /\ Newline # EndMark /\ Newline # Sentinel
  /\ Sentinel # DataMark /\ Sentinel # EndMark
  /\ \A v \in Seq(Char) : Token(v) # Newline /\ Token(v) # Sentinel
<1>1. Newline # DataMark /\ Newline # EndMark /\ Newline # Sentinel
  <2>1. "newline" # "data:" /\ "newline" # "payload ends" /\ "newline" # "[DONE]"
    OBVIOUS
  <2> QED BY <2>1, Kinds, Zenon
<1>2. Sentinel # DataMark /\ Sentinel # EndMark
  <2>1. "[DONE]" # "data:" /\ "[DONE]" # "payload ends"
    OBVIOUS
  <2> QED BY <2>1, Kinds, Zenon
<1>3. ASSUME NEW v \in Seq(Char) PROVE Token(v) # Newline /\ Token(v) # Sentinel
  BY DEF Token, Newline, Sentinel, Symbol
<1> QED BY <1>1, <1>2, <1>3

\* The five symbols of a frame.
LEMMA FrameSymbols ==
  ASSUME NEW p \in symbols
  PROVE  /\ Frame(p) \in Seq(symbols) /\ Len(Frame(p)) = 5
         /\ Frame(p)[1] = DataMark /\ Frame(p)[2] = p
         /\ Frame(p)[3] = EndMark
         /\ Frame(p)[4] = Newline /\ Frame(p)[5] = Newline
<1> DEFINE d == DataMark
           e == EndMark
           n == Newline
<1>1. d \in symbols /\ e \in symbols /\ n \in symbols /\ Frame(p) = <<d, p, e, n, n>>
  <2>1. d \in symbols /\ e \in symbols /\ n \in symbols
    BY Symbols, Zenon
  <2>2. Frame(p) = <<d, p, e, n, n>>
    BY Zenon DEF Frame, DataMark, EndMark
  <2> QED BY <2>1, <2>2, Zenon
<1> HIDE DEF d, e, n
<1>2. /\ <<d, p, e, n, n>> \in Seq(symbols) /\ Len(<<d, p, e, n, n>>) = 5
      /\ <<d, p, e, n, n>>[1] = d /\ <<d, p, e, n, n>>[2] = p /\ <<d, p, e, n, n>>[3] = e
      /\ <<d, p, e, n, n>>[4] = n /\ <<d, p, e, n, n>>[5] = n
  BY <1>1
<1>3. /\ Frame(p) \in Seq(symbols) /\ Len(Frame(p)) = 5
      /\ Frame(p)[1] = d /\ Frame(p)[2] = p /\ Frame(p)[3] = e
      /\ Frame(p)[4] = n /\ Frame(p)[5] = n
  BY <1>1, <1>2
<1> QED BY <1>3 DEF d, e, n

\* A frame depends on its own symbols only.
LEMMA FrameMoved ==
  ASSUME NEW u, NEW w, NEW i \in Int, NEW j \in Int, NEW x, NEW y, NEW answer,
         FrameAt(u, i, x, y, answer),
         w[5 * j - 4] = u[5 * i - 4], w[5 * j - 3] = u[5 * i - 3], w[5 * j - 2] = u[5 * i - 2],
         w[5 * j - 1] = u[5 * i - 1], w[5 * j] = u[5 * i]
  PROVE  FrameAt(w, j, x, y, answer)
BY Zenon DEF FrameAt

\* An empty stream leaves the message as it is.
LEMMA CarriesNothing ==
  ASSUME NEW x \in Seq(Char)
  PROVE  Carries(<<>>, x, x, x)
<1> DEFINE a == [i \in 0 .. 0 |-> x]
<1>1. a \in [0 .. 0 -> Seq(Char)] /\ a[0] = x
  OBVIOUS
<1>2. Len(<<>>) = 5 * 0
  BY EmptySeq
<1>3. IsPrefix(x, x)
  <2>1. x \o <<>> = x /\ <<>> \in Seq(Char)
    BY ConcatEmptySeq, EmptySeq
  <2>2. IsPrefix(x, x \o <<>>)
    BY <2>1, PrefixOfConcat
  <2> QED BY <2>1, <2>2
<1>4. \A i \in 0 .. 0 : IsPrefix(a[i], x)
  BY <1>1, <1>3
<1>5. \A i \in 1 .. 0 : FrameAt(<<>>, i, a[i - 1], a[i], x)
  OBVIOUS
<1>6. 0 \in Nat
  OBVIOUS
<1> HIDE DEF a
<1> QED BY <1>1, <1>2, <1>4, <1>5, <1>6 DEF Carries, CarriesBy

\* A beginning of a beginning is a beginning.
LEMMA PrefixTransitive ==
  ASSUME NEW a \in Seq(Char), NEW b \in Seq(Char), NEW c \in Seq(Char),
         IsPrefix(a, b), IsPrefix(b, c)
  PROVE  IsPrefix(a, c)
<1>1. PICK x \in Seq(Char) : b = a \o x
  BY PrefixIsConcat
<1>2. PICK y \in Seq(Char) : c = b \o y
  BY PrefixIsConcat
<1>3. c = a \o (x \o y) /\ x \o y \in Seq(Char)
  BY <1>1, <1>2, ConcatThree, ConcatProperties
<1> QED BY <1>3, PrefixOfConcat

\* The answer may grow as long as there is no [DONE].
LEMMA CarriesLonger ==
  ASSUME NEW u \in Seq(symbols), NEW from, NEW to, NEW answer \in Seq(Char),
         Carries(u, from, to, answer), \A i \in DOMAIN u : u[i] # Sentinel,
         NEW longer \in Seq(Char), IsPrefix(answer, longer)
  PROVE  Carries(u, from, to, longer)
<1>1. PICK m \in Nat : \E a \in [0 .. m -> Seq(Char)] : CarriesBy(u, from, to, answer, m, a)
  BY DEF Carries
<1>2. PICK a \in [0 .. m -> Seq(Char)] :
        /\ Len(u) = 5 * m
        /\ a[0] = from /\ a[m] = to
        /\ \A i \in 0 .. m : IsPrefix(a[i], answer)
        /\ \A i \in 1 .. m : FrameAt(u, i, a[i - 1], a[i], answer)
  BY <1>1 DEF CarriesBy
<1>3. \A i \in 0 .. m : IsPrefix(a[i], longer)
  BY <1>2, PrefixTransitive
<1>4. ASSUME NEW i \in 1 .. m PROVE FrameAt(u, i, a[i - 1], a[i], longer)
  <2>1. 5 * i - 3 \in DOMAIN u
    <3>1. DOMAIN u = 1 .. Len(u)
      BY LenProperties
    <3> QED BY <1>2, <3>1
  <2>2. u[5 * i - 3] # Sentinel
    BY <2>1
  <2>3. FrameAt(u, i, a[i - 1], a[i], answer)
    BY <1>2
  <2> QED BY <2>2, <2>3, Zenon DEF FrameAt
<1> QED BY <1>2, <1>3, <1>4 DEF Carries, CarriesBy

\* One more frame.
LEMMA CarriesMore ==
  ASSUME NEW u \in Seq(symbols), NEW from, NEW to \in Seq(Char), NEW answer \in Seq(Char),
         Carries(u, from, to, answer), NEW p \in symbols, NEW next \in Seq(Char),
         \/ \E v \in Seq(Char) : p = Token(v) /\ next = to \o v
         \/ p = Sentinel /\ next = to /\ next = answer,
         IsPrefix(next, answer)
  PROVE  Carries(u \o Frame(p), from, next, answer)
<1>1. PICK m \in Nat : \E a \in [0 .. m -> Seq(Char)] : CarriesBy(u, from, to, answer, m, a)
  BY DEF Carries
<1>2. PICK a \in [0 .. m -> Seq(Char)] :
        /\ Len(u) = 5 * m
        /\ a[0] = from /\ a[m] = to
        /\ \A i \in 0 .. m : IsPrefix(a[i], answer)
        /\ \A i \in 1 .. m : FrameAt(u, i, a[i - 1], a[i], answer)
  BY <1>1 DEF CarriesBy
<1> DEFINE f == Frame(p)
           w == u \o f
           c == [i \in 0 .. m + 1 |-> IF i = m + 1 THEN next ELSE a[i]]
<1>3. f \in Seq(symbols) /\ Len(f) = 5
  BY FrameSymbols
<1>4. /\ Len(w) = 5 * m + 5
      /\ \A i \in 1 .. 5 * m + 5 : w[i] = IF i <= 5 * m THEN u[i] ELSE f[i - 5 * m]
  <2> HIDE DEF f
  <2>1. /\ Len(w) = Len(u) + Len(f)
        /\ \A i \in 1 .. Len(u) + Len(f) : w[i] = IF i <= Len(u) THEN u[i] ELSE f[i - Len(u)]
    BY <1>3, ConcatProperties
  <2> QED BY <1>2, <1>3, <2>1
<1>5. c \in [0 .. m + 1 -> Seq(Char)]
  OBVIOUS
<1>6. c[0] = from /\ c[m + 1] = next /\ c[m] = to /\ \A i \in 0 .. m : c[i] = a[i]
  BY <1>2
<1> HIDE DEF c
<1>7. \A i \in 0 .. m + 1 : IsPrefix(c[i], answer)
  BY <1>2, <1>6
<1> HIDE DEF w, f
<1>8. ASSUME NEW i \in 1 .. m PROVE FrameAt(w, i, c[i - 1], c[i], answer)
  <2>1. FrameAt(u, i, c[i - 1], c[i], answer)
    <3>1. i \in 0 .. m /\ i - 1 \in 0 .. m
      OBVIOUS
    <3> QED BY <3>1, <1>2, <1>6
  <2>2. i \in Int /\ 5 * i <= 5 * m /\ 5 * i >= 5
    OBVIOUS
  <2>3. /\ w[5 * i - 4] = u[5 * i - 4] /\ w[5 * i - 3] = u[5 * i - 3]
        /\ w[5 * i - 2] = u[5 * i - 2] /\ w[5 * i - 1] = u[5 * i - 1] /\ w[5 * i] = u[5 * i]
    BY <1>4, <2>2
  <2> QED BY <2>1, <2>2, <2>3, FrameMoved
<1>9. FrameAt(w, m + 1, to, next, answer)
  <2> DEFINE e == 5 * (m + 1)
  <2>1. /\ e - 4 = 5 * m + 1 /\ e - 3 = 5 * m + 2 /\ e - 2 = 5 * m + 3
        /\ e - 1 = 5 * m + 4 /\ e = 5 * m + 5
    OBVIOUS
  <2>2. /\ w[5 * m + 1] = f[1] /\ w[5 * m + 2] = f[2] /\ w[5 * m + 3] = f[3]
        /\ w[5 * m + 4] = f[4] /\ w[5 * m + 5] = f[5]
    <3> DEFINE n == 5 * m
    <3>1. n \in Nat
      OBVIOUS
    <3>2. \A i \in 1 .. n + 5 : w[i] = IF i <= n THEN u[i] ELSE f[i - n]
      BY <1>4
    <3> HIDE DEF n
    <3>3. ASSUME NEW j \in 1 .. 5 PROVE w[n + j] = f[j]
      <4>1. n + j \in 1 .. n + 5 /\ ~(n + j <= n) /\ (n + j) - n = j
        BY <3>1
      <4> QED BY <3>2, <4>1
    <3> QED BY <3>3 DEF n
  <2>3. /\ f[1] = DataMark /\ f[2] = p /\ f[3] = EndMark
        /\ f[4] = Newline /\ f[5] = Newline
    BY FrameSymbols DEF f
  <2>4. /\ w[e - 4] = DataMark /\ w[e - 3] = p
        /\ w[e - 2] = EndMark /\ w[e - 1] = Newline /\ w[e] = Newline
    BY <2>1, <2>2, <2>3, Zenon
  <2> QED BY <2>4, Zenon DEF FrameAt
<1>10. \A i \in 1 .. m + 1 : FrameAt(w, i, c[i - 1], c[i], answer)
  <2> TAKE i \in 1 .. m + 1
  <2>1. CASE i = m + 1
    <3>1. (m + 1) - 1 = m
      OBVIOUS
    <3> QED BY <2>1, <3>1, <1>6, <1>9
  <2>2. CASE i # m + 1
    <3>1. i \in 1 .. m
      BY <2>2
    <3> QED BY <3>1, <1>8
  <2> QED BY <2>1, <2>2
<1>11. m + 1 \in Nat /\ Len(w) = 5 * (m + 1)
  BY <1>4
<1> QED BY <1>5, <1>6, <1>7, <1>10, <1>11 DEF Carries, CarriesBy, w, f

\* The first frame, and what remains behind it.
LEMMA CarriesFirst ==
  ASSUME NEW u \in Seq(symbols), NEW from, NEW to, NEW answer, Carries(u, from, to, answer),
         Len(u) > 0
  PROVE  /\ Len(u) >= 5
         /\ u[1] = DataMark /\ u[3] = EndMark
         /\ u[4] = Newline /\ u[5] = Newline
         /\ \E next \in Seq(Char) :
              /\ \/ \E v \in Seq(Char) : u[2] = Token(v) /\ next = from \o v
                 \/ u[2] = Sentinel /\ next = from /\ next = answer
              /\ Carries(SubSeq(u, 6, Len(u)), next, to, answer)
<1>1. PICK m \in Nat : \E a \in [0 .. m -> Seq(Char)] : CarriesBy(u, from, to, answer, m, a)
  BY DEF Carries
<1>2. PICK a \in [0 .. m -> Seq(Char)] :
        /\ Len(u) = 5 * m
        /\ a[0] = from /\ a[m] = to
        /\ \A i \in 0 .. m : IsPrefix(a[i], answer)
        /\ \A i \in 1 .. m : FrameAt(u, i, a[i - 1], a[i], answer)
  BY <1>1 DEF CarriesBy
<1>3. m > 0 /\ m - 1 \in Nat /\ 1 \in 1 .. m /\ 1 - 1 = 0 /\ Len(u) \in Nat
  BY <1>2
<1>4. FrameAt(u, 1, from, a[1], answer) /\ a[1] \in Seq(Char)
  BY <1>2, <1>3
<1>5. 5 * 1 - 4 = 1 /\ 5 * 1 - 3 = 2 /\ 5 * 1 - 2 = 3 /\ 5 * 1 - 1 = 4 /\ 5 * 1 = 5
  OBVIOUS
<1>6. /\ u[1] = DataMark /\ u[3] = EndMark
      /\ u[4] = Newline /\ u[5] = Newline
      /\ \/ \E v \in Seq(Char) : u[2] = Token(v) /\ a[1] = from \o v
         \/ u[2] = Sentinel /\ a[1] = from /\ a[1] = answer
  BY <1>4, <1>5, Zenon DEF FrameAt
<1> DEFINE w == SubSeq(u, 6, Len(u))
           c == [i \in 0 .. m - 1 |-> a[i + 1]]
<1>7. /\ Len(w) = 5 * m - 5
      /\ \A i \in 1 .. 5 * m - 5 : w[i] = u[i + 5]
  <2>1. 6 \in Nat \ {0} /\ Len(u) \in 6 - 1 .. Len(u) /\ Len(u) - 6 + 1 = 5 * m - 5
        /\ \A i \in 1 .. 5 * m - 5 : 6 + i - 1 = i + 5
    BY <1>2, <1>3
  <2> QED BY <2>1, Part
<1>8. c \in [0 .. m - 1 -> Seq(Char)] /\ \A i \in 0 .. m - 1 : c[i] = a[i + 1]
  BY <1>2, <1>3
<1> HIDE DEF c, w
<1>9. c[0] = a[1] /\ c[m - 1] = to
  BY <1>2, <1>3, <1>8
<1>10. \A i \in 0 .. m - 1 : IsPrefix(c[i], answer)
  BY <1>2, <1>8
<1>11. ASSUME NEW i \in 1 .. m - 1 PROVE FrameAt(w, i, c[i - 1], c[i], answer)
  <2>1. FrameAt(u, i + 1, c[i - 1], c[i], answer)
    <3>1. /\ i + 1 \in 1 .. m /\ (i + 1) - 1 = i /\ (i - 1) + 1 = i
          /\ i \in 0 .. m - 1 /\ i - 1 \in 0 .. m - 1
      BY <1>3
    <3>2. FrameAt(u, i + 1, a[(i + 1) - 1], a[i + 1], answer)
      BY <3>1, <1>2
    <3>3. c[i - 1] = a[i] /\ c[i] = a[i + 1]
      BY <3>1, <1>8
    <3> QED BY <3>1, <3>2, <3>3
  <2>2. i \in Int /\ i + 1 \in Int /\ 5 * i <= 5 * m - 5 /\ 5 * i >= 5 /\ 5 * (i + 1) = 5 * i + 5
    BY <1>3
  <2> DEFINE e == 5 * i
             g == 5 * (i + 1)
  <2>3. e \in Int /\ e <= 5 * m - 5 /\ e >= 5 /\ g = e + 5
    BY <2>2
  <2> HIDE DEF e, g
  <2>4. /\ w[e - 4] = u[(e - 4) + 5] /\ w[e - 3] = u[(e - 3) + 5]
        /\ w[e - 2] = u[(e - 2) + 5] /\ w[e - 1] = u[(e - 1) + 5] /\ w[e] = u[e + 5]
    <3>1. /\ e - 4 \in 1 .. 5 * m - 5 /\ e - 3 \in 1 .. 5 * m - 5
          /\ e - 2 \in 1 .. 5 * m - 5 /\ e - 1 \in 1 .. 5 * m - 5 /\ e \in 1 .. 5 * m - 5
      BY <1>3, <2>3
    <3> QED BY <1>7, <3>1
  <2>5. /\ (e - 4) + 5 = g - 4 /\ (e - 3) + 5 = g - 3
        /\ (e - 2) + 5 = g - 2 /\ (e - 1) + 5 = g - 1 /\ e + 5 = g
    BY <2>3
  <2>6. /\ w[e - 4] = u[g - 4] /\ w[e - 3] = u[g - 3] /\ w[e - 2] = u[g - 2]
        /\ w[e - 1] = u[g - 1] /\ w[e] = u[g]
    BY <2>4, <2>5
  <2> QED BY <2>1, <2>2, <2>6, FrameMoved DEF e, g
<1>12. Len(w) = 5 * (m - 1) /\ m - 1 \in Nat
  BY <1>3, <1>7
<1>13. Carries(w, a[1], to, answer)
  BY <1>8, <1>9, <1>10, <1>11, <1>12 DEF Carries, CarriesBy
<1>14. Len(u) >= 5
  BY <1>2, <1>3
<1> QED BY <1>4, <1>6, <1>13, <1>14 DEF w

\* What five divides is a multiple of five.
LEMMA MultipleOfFive ==
  ASSUME NEW n \in Nat, n % 5 = 0
  PROVE  \E k \in Nat : n = 5 * k
OBVIOUS

\* A stream that is cut after a whole frame.
LEMMA CarriesCut ==
  ASSUME NEW u \in Seq(symbols), NEW from, NEW to, NEW answer, Carries(u, from, to, answer),
         NEW n \in 0 .. Len(u), n % 5 = 0
  PROVE  \E end \in Seq(Char) : Carries(SubSeq(u, 1, n), from, end, answer)
<1>1. PICK m \in Nat : \E a \in [0 .. m -> Seq(Char)] : CarriesBy(u, from, to, answer, m, a)
  BY DEF Carries
<1>2. PICK a \in [0 .. m -> Seq(Char)] :
        /\ Len(u) = 5 * m
        /\ a[0] = from /\ a[m] = to
        /\ \A i \in 0 .. m : IsPrefix(a[i], answer)
        /\ \A i \in 1 .. m : FrameAt(u, i, a[i - 1], a[i], answer)
  BY <1>1 DEF CarriesBy
<1>3. PICK k \in Nat : n = 5 * k
  <2>1. n \in Nat
    BY <1>2
  <2> QED BY <2>1, MultipleOfFive
<1>4. k <= m /\ k \in 0 .. m
  BY <1>2, <1>3
<1> DEFINE w == SubSeq(u, 1, n)
           c == [i \in 0 .. k |-> a[i]]
<1>5. Len(w) = n /\ \A i \in 1 .. n : w[i] = u[i]
  <2>1. 1 \in Nat \ {0} /\ n \in 1 - 1 .. Len(u) /\ n - 1 + 1 = n
        /\ \A i \in 1 .. n : 1 + i - 1 = i
    BY <1>2, <1>3
  <2> QED BY <2>1, Part
<1>6. c \in [0 .. k -> Seq(Char)] /\ \A i \in 0 .. k : c[i] = a[i]
  BY <1>4
<1> HIDE DEF c, w
<1>7. c[0] = from /\ c[k] = a[k] /\ a[k] \in Seq(Char) /\ \A i \in 0 .. k : IsPrefix(c[i], answer)
  BY <1>2, <1>4, <1>6
<1>8. ASSUME NEW i \in 1 .. k PROVE FrameAt(w, i, c[i - 1], c[i], answer)
  <2>1. i \in 1 .. m /\ i \in 0 .. k /\ i - 1 \in 0 .. k
    BY <1>4
  <2>2. FrameAt(u, i, c[i - 1], c[i], answer)
    BY <2>1, <1>2, <1>6
  <2>3. i \in Int /\ 5 * i <= n /\ 5 * i >= 5
    BY <1>3
  <2>4. /\ w[5 * i - 4] = u[5 * i - 4] /\ w[5 * i - 3] = u[5 * i - 3]
        /\ w[5 * i - 2] = u[5 * i - 2] /\ w[5 * i - 1] = u[5 * i - 1] /\ w[5 * i] = u[5 * i]
    BY <1>5, <2>3
  <2> QED BY <2>2, <2>3, <2>4, FrameMoved
<1>9. Carries(w, from, a[k], answer)
  BY <1>3, <1>5, <1>6, <1>7, <1>8 DEF Carries, CarriesBy
<1> QED BY <1>7, <1>9 DEF w

\* A block ends with the fourth symbol, if there is a fifth.
LEMMA BlockEnds ==
  ASSUME NEW b \in Seq(symbols), NEW w \in Seq(symbols), NEW from, NEW to, NEW answer,
         Carries(b \o w, from, to, answer)
  PROVE  BlockEnd(b) = IF Len(b) < 5 THEN 0 ELSE 4
<1> DEFINE u == b \o w
           pattern == <<Newline, Newline>>
<1>1. /\ u \in Seq(symbols) /\ Len(u) = Len(b) + Len(w) /\ Len(b) \in Nat /\ Len(w) \in Nat
      /\ \A i \in 1 .. Len(b) : u[i] = b[i]
  <2>1. /\ u \in Seq(symbols) /\ Len(u) = Len(b) + Len(w) /\ Len(b) \in Nat /\ Len(w) \in Nat
        /\ \A i \in 1 .. Len(b) + Len(w) : u[i] = IF i <= Len(b) THEN b[i] ELSE w[i - Len(b)]
    BY ConcatProperties, LenProperties
  <2> HIDE DEF u
  <2> QED BY <2>1
<1> HIDE DEF u
<1>2. Carries(u, from, to, answer)
  BY DEF u
<1>3. Len(b) > 0 =>
        /\ u[1] = DataMark /\ u[3] = EndMark
        /\ u[4] = Newline /\ u[5] = Newline
        /\ u[2] # Newline
  <2> SUFFICES ASSUME Len(b) > 0
               PROVE  /\ u[1] = DataMark /\ u[3] = EndMark
                      /\ u[4] = Newline /\ u[5] = Newline
                      /\ u[2] # Newline
    OBVIOUS
  <2>1. Len(u) > 0
    BY <1>1
  <2>2. /\ u[1] = DataMark /\ u[3] = EndMark
        /\ u[4] = Newline /\ u[5] = Newline
        /\ (\E v \in Seq(Char) : u[2] = Token(v)) \/ u[2] = Sentinel
    BY <1>1, <1>2, <2>1, CarriesFirst
  <2> QED BY <2>2, NewlineDiffers
<1>4. pattern[1] = Newline /\ pattern[2] = Newline /\ Len(pattern) = 2
  OBVIOUS
<1>5. ASSUME NEW i \in 1 .. Len(b)
      PROVE  Occurs(b, i, pattern) <=> i + 1 <= Len(b) /\ b[i] = Newline /\ b[i + 1] = Newline
  <2>1. i + Len(pattern) - 1 = i + 1
    BY <1>4
  <2>2. ASSUME i + 1 <= Len(b)
        PROVE  SubSeq(b, i, i + 1) = pattern <=> b[i] = Newline /\ b[i + 1] = Newline
    <3> DEFINE q == SubSeq(b, i, i + 1)
    <3>1. q \in Seq(symbols) /\ Len(q) = 2 /\ q[1] = b[i] /\ q[2] = b[i + 1]
      <4>1. i \in Nat \ {0} /\ i + 1 \in i - 1 .. Len(b) /\ (i + 1) - i + 1 = 2
            /\ i + 1 - 1 = i /\ i + 2 - 1 = i + 1 /\ 1 \in 1 .. 2 /\ 2 \in 1 .. 2
        BY <2>2
      <4>2. /\ q \in Seq(symbols) /\ Len(q) = 2
            /\ \A j \in 1 .. 2 : q[j] = b[i + j - 1]
        BY <4>1, Part
      <4> HIDE DEF q
      <4> QED BY <4>1, <4>2
    <3> HIDE DEF q
    <3>2. ASSUME q[1] = Newline, q[2] = Newline PROVE q = pattern
      <4>1. pattern \in Seq(symbols)
        <5>1. Newline \in symbols
          BY Symbols
        <5> QED BY <5>1
      <4> HIDE DEF pattern
      <4>2. \A j \in 1 .. Len(q) : q[j] = pattern[j]
        BY <1>4, <3>1, <3>2
      <4> QED BY <1>4, <3>1, <4>1, <4>2, SeqEqual
    <3> HIDE DEF pattern
    <3> QED BY <1>4, <3>1, <3>2 DEF q
  <2> QED BY <2>1, <2>2 DEF Occurs
<1> HIDE DEF pattern
<1>6. DataMark # Newline /\ EndMark # Newline
  BY NewlineDiffers
<1>7. ASSUME NEW i \in 1 .. 3 PROVE i \in 1 .. Len(b) => ~Occurs(b, i, pattern)
  <2>1. i = 1 \/ i = 2 \/ i = 3
    OBVIOUS
  <2>2. ASSUME i \in 1 .. Len(b) PROVE b[i] # Newline
    <3>1. Len(b) > 0 /\ b[i] = u[i]
      BY <1>1, <2>2
    <3> QED BY <1>3, <1>6, <2>1, <3>1
  <2> QED BY <1>5, <2>2
<1> DEFINE f == BlockEnd(b)
<1>8. /\ f \in 0 .. Len(b)
      /\ f = 0 => \A i \in 1 .. Len(b) : ~Occurs(b, i, pattern)
      /\ f # 0 => /\ Occurs(b, f, pattern)
                  /\ \A i \in 1 .. f - 1 : ~Occurs(b, i, pattern)
  <2>1. f = Find(b, pattern)
    BY DEF BlockEnd, pattern
  <2> HIDE DEF f
  <2> QED BY <2>1, FindIsFirst
<1> HIDE DEF f
<1>9. CASE Len(b) < 5
  <2> SUFFICES ASSUME f # 0 PROVE FALSE
    BY <1>9 DEF f
  <2>1. f \in 1 .. Len(b) /\ Occurs(b, f, pattern)
    BY <1>8, <1>1
  <2>2. f + 1 <= Len(b)
    BY <1>5, <2>1
  <2>3. f \in 1 .. 3
    BY <1>1, <1>9, <2>1, <2>2
  <2> QED BY <1>7, <2>1, <2>3
<1>10. CASE ~(Len(b) < 5)
  <2>1. b[4] = Newline /\ b[5] = Newline /\ 4 \in 1 .. Len(b) /\ 4 + 1 <= Len(b)
    BY <1>1, <1>3, <1>10
  <2>2. Occurs(b, 4, pattern)
    <3>1. 4 + 1 = 5
      OBVIOUS
    <3> QED BY <1>5, <2>1, <3>1
  <2>3. f # 0
    BY <1>8, <2>1, <2>2
  <2>4. ~(4 < f)
    <3>1. 4 < f => 4 \in 1 .. f - 1
      BY <1>1, <1>8
    <3> QED BY <1>8, <2>2, <2>3, <3>1
  <2>5. f \notin 1 .. 3
    <3>1. f \in 1 .. Len(b) /\ Occurs(b, f, pattern)
      BY <1>1, <1>8, <2>3
    <3> QED BY <1>7, <3>1
  <2>6. f = 4
    BY <1>1, <1>8, <2>3, <2>4, <2>5
  <2> QED BY <1>10, <2>6 DEF f
<1> QED BY <1>9, <1>10
\* The message is a beginning of the answer.
LEMMA CarriesBegins ==
  ASSUME NEW u, NEW from, NEW to, NEW answer, Carries(u, from, to, answer)
  PROVE  IsPrefix(from, answer)
<1>1. PICK m \in Nat : \E a \in [0 .. m -> Seq(Char)] : CarriesBy(u, from, to, answer, m, a)
  BY DEF Carries
<1>2. PICK a \in [0 .. m -> Seq(Char)] : CarriesBy(u, from, to, answer, m, a)
  BY <1>1
<1>3. 0 \in 0 .. m
  OBVIOUS
<1> QED BY <1>2, <1>3 DEF CarriesBy

\* A text is a beginning of itself.
LEMMA PrefixOfItself ==
  ASSUME NEW a \in Seq(Char)
  PROVE  IsPrefix(a, a)
<1>1. a \o <<>> = a /\ <<>> \in Seq(Char)
  BY ConcatEmptySeq, EmptySeq
<1>2. IsPrefix(a, a \o <<>>)
  BY <1>1, PrefixOfConcat
<1> QED BY <1>1, <1>2

\* The beginning of a concatenation is dropped.
LEMMA DropOfConcat ==
  ASSUME NEW S, NEW a \in Seq(S), NEW b \in Seq(S), NEW n \in 1 .. Len(a) + 1
  PROVE  SubSeq(a \o b, n, Len(a \o b)) = SubSeq(a, n, Len(a)) \o b
<1> DEFINE c == a \o b
           d == SubSeq(a, n, Len(a))
           x == SubSeq(c, n, Len(c))
           y == d \o b
<1>1. /\ c \in Seq(S) /\ Len(c) = Len(a) + Len(b) /\ Len(a) \in Nat /\ Len(b) \in Nat
      /\ \A i \in 1 .. Len(a) + Len(b) : c[i] = IF i <= Len(a) THEN a[i] ELSE b[i - Len(a)]
  BY ConcatProperties, LenProperties
<1> HIDE DEF c
<1>2. /\ d \in Seq(S) /\ Len(d) = Len(a) - n + 1
      /\ \A i \in 1 .. Len(a) - n + 1 : d[i] = a[n + i - 1]
  <2>1. n \in Nat \ {0} /\ Len(a) \in n - 1 .. Len(a)
    BY <1>1
  <2> QED BY <2>1, Part
<1>3. /\ x \in Seq(S) /\ Len(x) = Len(c) - n + 1
      /\ \A i \in 1 .. Len(c) - n + 1 : x[i] = c[n + i - 1]
  <2>1. n \in Nat \ {0} /\ Len(c) \in n - 1 .. Len(c)
    BY <1>1
  <2> QED BY <1>1, <2>1, Part
<1> HIDE DEF d, x
<1>4. /\ y \in Seq(S) /\ Len(y) = Len(d) + Len(b)
      /\ \A i \in 1 .. Len(d) + Len(b) : y[i] = IF i <= Len(d) THEN d[i] ELSE b[i - Len(d)]
  BY <1>2, ConcatProperties
<1> HIDE DEF y
<1>5. Len(x) = Len(y)
  BY <1>1, <1>2, <1>3, <1>4
<1>6. ASSUME NEW i \in 1 .. Len(x) PROVE x[i] = y[i]
  <2>1. /\ x[i] = c[n + i - 1] /\ i \in Nat /\ i > 0 /\ n \in Nat /\ n > 0
        /\ n + i - 1 \in 1 .. Len(a) + Len(b) /\ i \in 1 .. Len(d) + Len(b)
    BY <1>1, <1>3, <1>4, <1>5
  <2>2. CASE i <= Len(d)
    <3>1. n + i - 1 <= Len(a) /\ i \in 1 .. Len(a) - n + 1
      BY <2>1, <2>2, <1>1, <1>2
    <3> QED BY <3>1, <2>1, <2>2, <1>1, <1>2, <1>4
  <2>3. CASE ~(i <= Len(d))
    <3>1. ~(n + i - 1 <= Len(a)) /\ (n + i - 1) - Len(a) = i - Len(d)
      BY <2>1, <2>3, <1>1, <1>2
    <3> QED BY <3>1, <2>1, <2>3, <1>1, <1>4
  <2> QED BY <2>2, <2>3
<1>7. x = y
  BY <1>3, <1>4, <1>5, <1>6, SeqEqual
<1> QED BY <1>7 DEF x, y, c, d

\* A token is published.
LEMMA TokenPublished ==
  ASSUME NEW w \in Seq(symbols), NEW f \in Seq(Char), Carries(w, <<>>, f, f),
         \A i \in DOMAIN w : w[i] # Sentinel, NEW v \in Seq(Char)
  PROVE  LET u == w \o Frame(Token(v))
         IN /\ u \in Seq(symbols)
            /\ Carries(u, <<>>, f \o v, f \o v)
            /\ \A i \in DOMAIN u : u[i] # Sentinel
<1> DEFINE p == Token(v)
           g == f \o v
           u == w \o Frame(p)
<1>1. p \in symbols /\ p # Sentinel
  BY Symbols, NewlineDiffers
<1>2. g \in Seq(Char) /\ IsPrefix(f, g) /\ IsPrefix(g, g)
  BY ConcatProperties, PrefixOfConcat, PrefixOfItself
<1>3. Carries(w, <<>>, f, g)
  <2> HIDE DEF g
  <2> QED BY <1>2, CarriesLonger
<1>4. Carries(u, <<>>, g, g)
  <2>1. \E y \in Seq(Char) : p = Token(y) /\ g = f \o y
    OBVIOUS
  <2> HIDE DEF p, g
  <2> QED BY <1>1, <1>2, <1>3, <2>1, CarriesMore
<1> HIDE DEF p
<1> DEFINE r == Frame(p)
<1>5. /\ r \in Seq(symbols) /\ Len(r) = 5
      /\ r[1] = DataMark /\ r[2] = p /\ r[3] = EndMark /\ r[4] = Newline /\ r[5] = Newline
  BY <1>1, FrameSymbols
<1> HIDE DEF r
<1>6. u \in Seq(symbols) /\ Len(u) = Len(w) + Len(r) /\ DOMAIN u = 1 .. Len(w) + Len(r)
      /\ \A i \in 1 .. Len(w) + Len(r) : u[i] = IF i <= Len(w) THEN w[i] ELSE r[i - Len(w)]
  <2>1. u = w \o r
    BY DEF r
  <2> HIDE DEF u
  <2>2. u \in Seq(symbols) /\ Len(u) = Len(w) + Len(r)
        /\ \A i \in 1 .. Len(w) + Len(r) : u[i] = IF i <= Len(w) THEN w[i] ELSE r[i - Len(w)]
    BY <1>5, <2>1, ConcatProperties
  <2> QED BY <2>2, LenProperties
<1> HIDE DEF u
<1>7. ASSUME NEW i \in DOMAIN u PROVE u[i] # Sentinel
  <2>1. Len(w) \in Nat /\ DOMAIN w = 1 .. Len(w) /\ i \in 1 .. Len(w) + 5
    BY <1>5, <1>6, <1>7, LenProperties
  <2>2. CASE i <= Len(w)
    BY <2>1, <2>2, <1>5, <1>6
  <2>3. CASE ~(i <= Len(w))
    <3> DEFINE j == i - Len(w)
    <3>1. u[i] = r[j]
      BY <2>1, <2>3, <1>5, <1>6
    <3>2. j \in Int /\ 1 <= j /\ j <= 5
      BY <2>1, <2>3
    <3> HIDE DEF j
    <3>3. j = 1 \/ j = 2 \/ j = 3 \/ j = 4 \/ j = 5
      BY <3>2
    <3>4. \A k \in {1, 2, 3, 4, 5} : r[k] # Sentinel
      BY <1>1, <1>5, NewlineDiffers
    <3> QED BY <3>3, <3>1, <3>4
  <2> QED BY <2>2, <2>3
<1> QED BY <1>4, <1>6, <1>7 DEF u, p

\* [DONE] is sent.
LEMMA DonePublished ==
  ASSUME NEW w \in Seq(symbols), NEW f \in Seq(Char), Carries(w, <<>>, f, f)
  PROVE  /\ w \o Frame(Sentinel) \in Seq(symbols)
         /\ Carries(w \o Frame(Sentinel), <<>>, f, f)
<1>1. Sentinel \in symbols /\ Frame(Sentinel) \in Seq(symbols)
  BY Symbols, FrameSymbols
<1>2. IsPrefix(f, f)
  BY PrefixOfItself
<1>3. w \o Frame(Sentinel) \in Seq(symbols)
  BY <1>1, ConcatProperties
<1> QED BY <1>1, <1>2, <1>3, CarriesMore

-----------------------------------------------------------------------------
\* The stream's part of the invariant.

\* Nothing is sent yet.
LEMMA FramingInit == Init => Framing
<1> SUFFICES ASSUME Init PROVE Framing
  OBVIOUS
<1>1. /\ step = "index" /\ wire = <<>> /\ buffer = <<>> /\ message = <<>>
      /\ fullAnswer = <<>>
  BY DEF Init
<1>2. Carries(<<>>, <<>>, <<>>, <<>>)
  BY CarriesNothing, EmptySeq
<1>3. DOMAIN wire = {}
  BY <1>1
<1>4. <<>> \in Seq(symbols) /\ <<>> \in Seq(Char)
  BY EmptySeq
<1> QED BY <1>1, <1>2, <1>3, <1>4 DEF Framing, workerSteps, documentSteps

\* What the worker's steps share.
LEMMA StillPublished ==
  ASSUME Framing, step \in workerSteps, step' \in workerSteps, UNCHANGED tabVars,
         wire' \in Seq(symbols), Carries(wire, <<>>, fullAnswer, fullAnswer)',
         \A i \in DOMAIN wire' : wire'[i] # Sentinel
  PROVE  Framing'
<1>1. buffer' = <<>> /\ message' = <<>>
  BY DEF Framing, tabVars
<1>2. step' \notin {"read", "parse", "answered", "ended"}
  BY DEF workerSteps, documentSteps
<1>3. <<>> \in Seq(symbols) /\ <<>> \in Seq(Char)
  BY EmptySeq
<1> QED BY <1>1, <1>2, <1>3 DEF Framing

\* The stream is complete, and the tab begins to read it.
LEMMA AllPublished ==
  ASSUME Framing, step \in workerSteps, step' = "read", UNCHANGED tabVars,
         wire' \in Seq(symbols), Carries(wire, <<>>, fullAnswer, fullAnswer)',
         fullAnswer' \in Seq(Char)
  PROVE  Framing'
<1>1. buffer' = <<>> /\ message' = <<>>
  BY DEF Framing, tabVars
<1>2. <<>> \in Seq(symbols) /\ <<>> \in Seq(Char) /\ Len(<<>>) < 5
  <2>1. Len(<<>>) = 0 /\ 0 < 5
    BY EmptySeq
  <2> QED BY <2>1, EmptySeq, Zenon
<1>3. buffer' \o wire' = wire'
  BY <1>1, ConcatEmptySeq
<1>4. step' \notin workerSteps
  BY DEF workerSteps, documentSteps
<1> QED BY <1>1, <1>2, <1>3, <1>4 DEF Framing

\* What is published of a delta is sent as a token.
LEMMA PublishKeepsFraming ==
  ASSUME Filtering, Framing, PublishDelta
  PROVE  Framing'
<1> DEFINE b == think.buffer
           n == IF think.is_thinking THEN Kept(b) ELSE HeldBack(b)
           safe == IF think.is_thinking THEN output ELSE output \o SubSeq(b, 1, Len(b) - n)
           dropped == IF fullAnswer = <<>> THEN IsBlank(safe) ELSE safe = <<>>
<1>1. /\ step = "clean" /\ step' = "generate" /\ UNCHANGED tabVars
      /\ fullAnswer' = IF dropped THEN fullAnswer ELSE fullAnswer \o safe
      /\ wire' = IF dropped THEN wire ELSE wire \o Frame(Token(safe))
  BY DEF PublishDelta
<1>2. /\ step \in workerSteps /\ step' \in workerSteps
      /\ b \in Seq(Char) /\ output \in Seq(Char) /\ fullAnswer \in Seq(Char)
      /\ wire \in Seq(symbols) /\ Carries(wire, <<>>, fullAnswer, fullAnswer)
      /\ \A i \in DOMAIN wire : wire[i] # Sentinel
  BY <1>1, Phases DEF Filtering, Framing
<1>3. safe \in Seq(Char)
  <2>1. CASE think.is_thinking
    BY <2>1, <1>2
  <2>2. CASE ~think.is_thinking
    <3>1. n \in 0 .. Len(b) /\ Len(b) \in Nat
      BY <2>2, <1>2, HeldBackIsEnough
    <3> DEFINE m == Len(b) - n
    <3>2. 1 \in Nat \ {0} /\ m \in 1 - 1 .. Len(b)
      <4> HIDE DEF n
      <4> QED BY <3>1
    <3> HIDE DEF m
    <3>3. SubSeq(b, 1, m) \in Seq(Char)
      BY <1>2, <3>2, Part
    <3>4. output \o SubSeq(b, 1, m) \in Seq(Char)
      BY <1>2, <3>3, ConcatProperties
    <3> QED BY <2>2, <3>4 DEF m
  <2> QED BY <2>1, <2>2
<1> HIDE DEF b, n, safe, dropped
<1>4. /\ wire' \in Seq(symbols) /\ Carries(wire', <<>>, fullAnswer', fullAnswer')
      /\ \A i \in DOMAIN wire' : wire'[i] # Sentinel
  <2>1. CASE dropped
    BY <2>1, <1>1, <1>2
  <2>2. CASE ~dropped
    <3>1. wire' = wire \o Frame(Token(safe)) /\ fullAnswer' = fullAnswer \o safe
      BY <2>2, <1>1
    <3> QED BY <3>1, <1>2, <1>3, TokenPublished
  <2> QED BY <2>1, <2>2
<1> QED BY <1>1, <1>2, <1>4, StillPublished

\* Text that begins as a tag does is not blank.
LEMMA TagsHaveInk ==
  ASSUME NEW b \in Seq(Char), IsPrefix(b, OpenTag), b # <<>>
  PROVE  ~IsBlank(b)
<1>1. PICK c \in Seq(Char) : OpenTag = b \o c
  BY Tags, PrefixIsConcat
<1>2. 1 \in 1 .. Len(b) /\ Len(b) \in Nat /\ Len(c) \in Nat /\ DOMAIN b = 1 .. Len(b)
  BY EmptySeq, LenProperties
<1>3. OpenTag[1] = b[1]
  <2>1. \A i \in 1 .. Len(b) + Len(c) : (b \o c)[i] = IF i <= Len(b) THEN b[i] ELSE c[i - Len(b)]
    BY ConcatProperties
  <2>2. 1 \in 1 .. Len(b) + Len(c) /\ 1 <= Len(b)
    BY <1>2
  <2>3. (b \o c)[1] = b[1]
    BY <2>1, <2>2
  <2> QED BY <1>1, <2>3
<1>4. ~Blank(OpenTag[1])
  BY QaAnswerAssumption, Zenon DEF Blank
<1> QED BY <1>2, <1>3, <1>4, BlankCharacters

\* The end of the answer is sent, and [DONE].
LEMMA EndKeepsFraming ==
  ASSUME Filtering, Framing, EndGeneration
  PROVE  Framing'
<1> DEFINE trailing == IF think.is_thinking THEN <<>> ELSE think.buffer
           answer == fullAnswer \o trailing
           sent == wire \o (IF trailing = <<>> THEN <<>> ELSE Frame(Token(trailing)))
           all == sent \o (IF IsBlank(answer) THEN Frame(Token(Fallback)) ELSE <<>>)
<1>1. /\ step = "generate" /\ step' = "read" /\ UNCHANGED tabVars
      /\ fullAnswer' = IF IsBlank(answer) THEN Fallback ELSE answer
      /\ wire' = all \o Frame(Sentinel)
  BY DEF EndGeneration, tabVars
<1>2. /\ step \in workerSteps /\ fullAnswer \in Seq(Char)
      /\ fullAnswer = <<>> \/ ~IsBlank(fullAnswer)
      /\ trailing \in Seq(Char)
      /\ trailing = <<>> \/ ~IsBlank(trailing)
      /\ wire \in Seq(symbols) /\ Carries(wire, <<>>, fullAnswer, fullAnswer)
      /\ \A i \in DOMAIN wire : wire[i] # Sentinel
  <2>1. /\ step \in workerSteps /\ step # "clean"
        /\ fullAnswer \in Seq(Char) /\ think.buffer \in Seq(Char)
        /\ fullAnswer = <<>> \/ ~IsBlank(fullAnswer)
        /\ ~think.is_thinking => IsPrefix(think.buffer, OpenTag)
    BY <1>1, Phases DEF Filtering
  <2>2. /\ wire \in Seq(symbols) /\ Carries(wire, <<>>, fullAnswer, fullAnswer)
        /\ \A i \in DOMAIN wire : wire[i] # Sentinel
    BY <2>1 DEF Framing
  <2>3. trailing \in Seq(Char) /\ (trailing = <<>> \/ ~IsBlank(trailing))
    <3>1. CASE think.is_thinking
      BY <3>1, EmptySeq
    <3>2. CASE ~think.is_thinking
      BY <3>2, <2>1, TagsHaveInk
    <3> QED BY <3>1, <3>2
  <2> QED BY <2>1, <2>2, <2>3
<1> HIDE DEF trailing
<1>3. answer \in Seq(Char) /\ (IsBlank(answer) <=> IsBlank(fullAnswer) /\ IsBlank(trailing))
  BY <1>2, ConcatProperties, BlankParts
<1> HIDE DEF answer
<1>4. /\ sent \in Seq(symbols) /\ Carries(sent, <<>>, answer, answer)
      /\ \A i \in DOMAIN sent : sent[i] # Sentinel
  <2>1. CASE trailing = <<>>
    <3>1. sent = wire \o <<>> /\ answer = fullAnswer \o <<>>
      BY <2>1 DEF answer
    <3>2. sent = wire /\ answer = fullAnswer
      BY <3>1, <1>2, ConcatEmptySeq
    <3> QED BY <3>2, <1>2
  <2>2. CASE trailing # <<>>
    <3>1. sent = wire \o Frame(Token(trailing)) /\ answer = fullAnswer \o trailing
      BY <2>2 DEF answer
    <3> QED BY <3>1, <1>2, TokenPublished
  <2> QED BY <2>1, <2>2
<1> HIDE DEF sent
<1>5. all \in Seq(symbols) /\ Carries(all, <<>>, fullAnswer', fullAnswer') /\ fullAnswer' \in Seq(Char)
  <2>1. CASE ~IsBlank(answer)
    <3>1. all = sent \o <<>> /\ fullAnswer' = answer
      BY <2>1, <1>1
    <3>2. sent \o <<>> = sent
      BY <1>4, ConcatEmptySeq
    <3> QED BY <3>1, <3>2, <1>3, <1>4
  <2>2. CASE IsBlank(answer)
    <3>1. fullAnswer = <<>> /\ trailing = <<>>
      BY <2>2, <1>2, <1>3
    <3>2. answer = <<>>
      BY <3>1, ConcatEmptySeq, EmptySeq DEF answer
    <3>3. all = sent \o Frame(Token(Fallback)) /\ fullAnswer' = Fallback /\ Fallback \in Seq(Char)
      BY <2>2, <1>1, Tags
    <3>4. answer \o Fallback = Fallback
      BY <3>2, <3>3, ConcatEmptySeq
    <3>5. /\ sent \o Frame(Token(Fallback)) \in Seq(symbols)
          /\ Carries(sent \o Frame(Token(Fallback)), <<>>, answer \o Fallback, answer \o Fallback)
      BY <1>3, <1>4, <3>3, TokenPublished
    <3> QED BY <3>3, <3>4, <3>5
  <2> QED BY <2>1, <2>2
<1> HIDE DEF all
<1>6. wire' \in Seq(symbols) /\ Carries(wire', <<>>, fullAnswer', fullAnswer')
  BY <1>1, <1>5, DonePublished
<1> QED BY <1>1, <1>2, <1>5, <1>6, AllPublished

\* The fallback is sent as one token.
LEMMA NoEvidenceKeepsFraming ==
  ASSUME Framing, AnswerWithoutEvidence
  PROVE  Framing'
<1>1. /\ step = "retrieve" /\ step' = "read" /\ UNCHANGED tabVars /\ fullAnswer' = Fallback
      /\ wire' = Frame(Token(Fallback)) \o Frame(Sentinel)
  BY DEF AnswerWithoutEvidence
<1>2. step \in workerSteps
  BY <1>1 DEF workerSteps, documentSteps
<1>3. /\ <<>> \in Seq(symbols) /\ <<>> \in Seq(Char) /\ Carries(<<>>, <<>>, <<>>, <<>>)
      /\ \A i \in DOMAIN <<>> : <<>>[i] # Sentinel
  <2>1. DOMAIN <<>> = {}
    OBVIOUS
  <2>2. <<>> \in Seq(symbols) /\ <<>> \in Seq(Char)
    BY EmptySeq
  <2>3. Carries(<<>>, <<>>, <<>>, <<>>)
    BY <2>2, CarriesNothing
  <2> QED BY <2>1, <2>2, <2>3
<1> DEFINE f == Frame(Token(Fallback))
<1>4. <<>> \o f \in Seq(symbols) /\ Carries(<<>> \o f, <<>>, <<>> \o Fallback, <<>> \o Fallback)
  BY <1>3, Tags, TokenPublished
<1>5. f \in Seq(symbols) /\ <<>> \o f = f /\ <<>> \o Fallback = Fallback
  <2>1. f \in Seq(symbols)
    BY Tags, Symbols, FrameSymbols
  <2> HIDE DEF f
  <2> QED BY <2>1, Tags, ConcatEmptySeq
<1>6. Carries(f, <<>>, Fallback, Fallback)
  BY <1>4, <1>5
<1> HIDE DEF f
<1>7. wire' \in Seq(symbols) /\ Carries(wire', <<>>, Fallback, Fallback)
  BY <1>1, <1>5, <1>6, Tags, DonePublished DEF f
<1> QED BY <1>1, <1>2, <1>7, Tags, AllPublished

\* The response may be cut after any frame.
LEMMA ClosingKeepsFraming ==
  ASSUME Framing, ChannelCloses
  PROVE  Framing'
<1>1. PICK n \in {m \in 0 .. (Len(wire) - 1) : m % Len(Frame(Sentinel)) = 0} :
        wire' = SubSeq(wire, 1, n)
  BY DEF ChannelCloses
<1>2. /\ step = "read" /\ step' = step /\ buffer = <<>> /\ buffer' = buffer
      /\ message' = message /\ fullAnswer' = fullAnswer
  BY DEF ChannelCloses, tabVars, workerVars
<1>3. PICK to \in Seq(Char) : Carries(buffer \o wire, message, to, fullAnswer)
  BY <1>2 DEF Framing
<1>4. wire \in Seq(symbols) /\ Len(wire) \in Nat /\ buffer \o wire = wire
  BY <1>2, ConcatEmptySeq DEF Framing
<1>5. Len(Frame(Sentinel)) = 5
  BY Symbols, FrameSymbols
<1>6. n \in 0 .. Len(wire) /\ n % 5 = 0
  BY <1>4, <1>5
<1>7. PICK end \in Seq(Char) : Carries(SubSeq(wire, 1, n), message, end, fullAnswer)
  BY <1>3, <1>4, <1>6, CarriesCut
<1>8. wire' \in Seq(symbols)
  <2>1. 1 \in Nat \ {0} /\ n \in 1 - 1 .. Len(wire)
    BY <1>4, <1>6
  <2> QED BY <1>1, <1>4, <2>1, Part
<1>9. buffer' \o wire' = wire'
  BY <1>2, <1>8, ConcatEmptySeq
<1>10. Carries(buffer' \o wire', message', end, fullAnswer')
  BY <1>1, <1>2, <1>7, <1>9
<1>11. "read" \notin workerSteps
  BY DEF workerSteps, documentSteps
<1> QED BY <1>2, <1>8, <1>10, <1>11 DEF Framing

\* Whether the inner loop goes on depends on the length of the buffer.
LEMMA LoopByLength ==
  ASSUME NEW b \in Seq(symbols), NEW w \in Seq(symbols), NEW from, NEW to, NEW answer,
         Carries(b \o w, from, to, answer)
  PROVE  \/ Loop(b) = "read" /\ Len(b) < 5
         \/ Loop(b) = "parse" /\ Len(b) >= 5
<1>1. BlockEnd(b) = IF Len(b) < 5 THEN 0 ELSE 4
  BY BlockEnds
<1>2. Len(b) \in Nat
  OBVIOUS
<1> QED BY <1>1, <1>2 DEF Loop

\* The symbols may be joined in either order.
LEMMA ConcatOfThree ==
  ASSUME NEW a \in Seq(symbols), NEW b \in Seq(symbols), NEW c \in Seq(symbols)
  PROVE  (a \o b) \o c = a \o (b \o c)
BY ConcatAssociative

\* A chunk moves symbols from the wire to the buffer.
LEMMA ChunkKeepsFraming ==
  ASSUME Framing, ReadChunk
  PROVE  Framing'
<1>1. PICK n \in 1 .. Len(wire) :
        /\ buffer' = buffer \o SubSeq(wire, 1, n)
        /\ wire' = From(wire, n + 1)
  BY Zenon DEF ReadChunk
<1>2. /\ step = "read" /\ step' = Loop(buffer')
      /\ message' = message /\ fullAnswer' = fullAnswer
  BY DEF ReadChunk, workerVars
<1>3. /\ wire \in Seq(symbols) /\ buffer \in Seq(symbols) /\ message \in Seq(Char)
      /\ Len(wire) \in Nat
  BY DEF Framing
<1>4. PICK to \in Seq(Char) : Carries(buffer \o wire, message, to, fullAnswer)
  BY <1>2 DEF Framing
<1> DEFINE x == SubSeq(wire, 1, n)
           y == SubSeq(wire, n + 1, Len(wire))
<1>5. x \in Seq(symbols) /\ y \in Seq(symbols) /\ x \o y = wire
  <2>1. /\ 1 \in Nat \ {0} /\ n \in 1 - 1 .. Len(wire)
        /\ n + 1 \in Nat \ {0} /\ Len(wire) \in (n + 1) - 1 .. Len(wire)
    BY <1>3
  <2>2. x \in Seq(symbols) /\ y \in Seq(symbols)
    BY <1>3, <2>1, Part
  <2>3. 1 \in 1 .. Len(wire) + 1 /\ Len(wire) \in n .. Len(wire)
    BY <1>3
  <2>4. x \o y = SubSeq(wire, 1, Len(wire))
    BY <1>3, <2>1, <2>3, ConcatAdjacentSubSeq
  <2>5. SubSeq(wire, 1, Len(wire)) = wire
    BY <1>3, SubSeqFull
  <2> HIDE DEF x, y
  <2> QED BY <2>2, <2>4, <2>5, Zenon
<1>6. buffer' = buffer \o x /\ wire' = y
  BY <1>1 DEF From
<1> HIDE DEF x, y
<1>7. buffer' \in Seq(symbols) /\ wire' \in Seq(symbols)
  BY <1>3, <1>5, <1>6, ConcatProperties
<1>8. buffer' \o wire' = buffer \o wire
  <2>1. (buffer \o x) \o y = buffer \o (x \o y)
    BY <1>3, <1>5, ConcatOfThree
  <2> QED BY <1>5, <1>6, <2>1
<1>9. Carries(buffer' \o wire', message', to, fullAnswer')
  BY <1>2, <1>4, <1>8
<1>10. \/ step' = "read" /\ Len(buffer') < 5
       \/ step' = "parse" /\ Len(buffer') >= 5
  BY <1>2, <1>7, <1>9, LoopByLength
<1>11. step' \notin workerSteps
  BY <1>10 DEF workerSteps, documentSteps
<1> QED BY <1>2, <1>3, <1>7, <1>9, <1>10, <1>11 DEF Framing

\* CarriesFirst, without what the tab does not look at.
LEMMA FirstFrame ==
  \A u \in Seq(symbols) : \A from, to, answer :
    Carries(u, from, to, answer) /\ Len(u) > 0 =>
      /\ u[1] = DataMark /\ u[3] = EndMark
      /\ \E next \in Seq(Char) :
           /\ \/ \E v \in Seq(Char) : u[2] = Token(v) /\ next = from \o v
              \/ u[2] = Sentinel /\ next = from /\ next = answer
           /\ Carries(SubSeq(u, 6, Len(u)), next, to, answer)
<1> TAKE u \in Seq(symbols)
<1> TAKE from, to, answer
<1> HAVE Carries(u, from, to, answer) /\ Len(u) > 0
<1> QED BY CarriesFirst, SMTT(30)

\* What is parsed of a frame is its payload.
LEMMA BlockOfFrame ==
  ASSUME NEW q, q # <<>>, q[1] = DataMark, Len(q) = 3, q[3] = EndMark
  PROVE  ParseSseBlock(q) = q[2]
<1>1. q[1].kind = "data:" /\ q[3].kind = "payload ends"
  BY Kinds, Zenon
<1> QED BY <1>1, Zenon DEF ParseSseBlock

\* A block is a whole frame, and the message goes on with its payload.
LEMMA BlockKeepsFraming ==
  ASSUME Filtering, Framing, ParseBlock
  PROVE  Framing'
<1> DEFINE at == BlockEnd(buffer)
           q == SubSeq(buffer, 1, at - 1)
           block == ParseSseBlock(q)
<1>1. /\ step = "parse" /\ buffer' = From(buffer, at + 2) /\ message' = message \o block.value
      /\ step' = CASE block.kind = "invalid" -> "invalid"
                   [] block.kind = "[DONE]"  -> "answered"
                   [] OTHER                  -> Loop(buffer')
      /\ wire' = wire /\ fullAnswer' = fullAnswer
  BY DEF ParseBlock, workerVars
<1>2. /\ wire \in Seq(symbols) /\ buffer \in Seq(symbols) /\ message \in Seq(Char)
      /\ fullAnswer \in Seq(Char) /\ Len(buffer) >= 5 /\ Len(buffer) \in Nat /\ Len(wire) \in Nat
  BY <1>1 DEF Framing, Filtering
<1>3. PICK to \in Seq(Char) : Carries(buffer \o wire, message, to, fullAnswer)
  BY <1>1 DEF Framing
<1>4. at = 4
  BY <1>2, <1>3, BlockEnds
<1> DEFINE u == buffer \o wire
<1>5. u \in Seq(symbols) /\ Len(u) > 0 /\ \A i \in 1 .. 5 : u[i] = buffer[i]
  <2>1. /\ u \in Seq(symbols) /\ Len(u) = Len(buffer) + Len(wire)
        /\ \A i \in 1 .. Len(buffer) + Len(wire) :
             u[i] = IF i <= Len(buffer) THEN buffer[i] ELSE wire[i - Len(buffer)]
    BY <1>2, ConcatProperties
  <2> HIDE DEF u
  <2> QED BY <1>2, <2>1
<1>6. /\ u[1] = DataMark /\ u[3] = EndMark
      /\ \E next \in Seq(Char) :
           /\ \/ \E v \in Seq(Char) : u[2] = Token(v) /\ next = message \o v
              \/ u[2] = Sentinel /\ next = message /\ next = fullAnswer
           /\ Carries(SubSeq(u, 6, Len(u)), next, to, fullAnswer)
  <2>1. Carries(u, message, to, fullAnswer)
    BY <1>3
  <2> HIDE DEF u
  <2>2. u \in Seq(symbols) /\ Len(u) > 0
    BY <1>5
  <2> QED BY <2>1, <2>2, FirstFrame
<1>7. PICK next \in Seq(Char) :
        /\ \/ \E v \in Seq(Char) : u[2] = Token(v) /\ next = message \o v
           \/ u[2] = Sentinel /\ next = message /\ next = fullAnswer
        /\ Carries(SubSeq(u, 6, Len(u)), next, to, fullAnswer)
  BY <1>6
<1>8. block = u[2]
  <2>1. q = SubSeq(buffer, 1, 3)
    BY <1>4
  <2>2. 1 \in Nat \ {0} /\ 3 \in 1 - 1 .. Len(buffer) /\ 3 - 1 + 1 = 3
        /\ 1 + 1 - 1 = 1 /\ 1 + 2 - 1 = 2 /\ 1 + 3 - 1 = 3
    BY <1>2
  <2> DEFINE r == SubSeq(buffer, 1, 3)
  <2>3. Len(r) = 3 /\ \A i \in 1 .. 3 : r[i] = buffer[i]
    <3>1. Len(r) = 3 - 1 + 1 /\ \A i \in 1 .. 3 - 1 + 1 : r[i] = buffer[1 + i - 1]
      BY <1>2, <2>2, Part
    <3>2. \A i \in 1 .. 3 : 1 + i - 1 = i
      OBVIOUS
    <3> HIDE DEF r
    <3> QED BY <3>1, <3>2
  <2> HIDE DEF r, u
  <2>4. r[1] = u[1] /\ r[2] = u[2] /\ r[3] = u[3] /\ r # <<>>
    <3>1. r # <<>>
      <4>1. Len(r) # Len(<<>>)
        BY <2>3, EmptySeq
      <4> QED BY <4>1, Zenon
    <3> QED BY <2>3, <1>5, <3>1
  <2>5. ParseSseBlock(r) = r[2]
    BY <1>6, <2>3, <2>4, BlockOfFrame
  <2> QED BY <2>1, <2>4, <2>5 DEF r
<1>9. buffer' = SubSeq(buffer, 6, Len(buffer)) /\ buffer' \in Seq(symbols)
  <2>1. at + 2 = 6
    BY <1>4
  <2>2. buffer' = SubSeq(buffer, 6, Len(buffer))
    BY <1>1, <2>1 DEF From
  <2>3. 6 \in Nat \ {0} /\ Len(buffer) \in 6 - 1 .. Len(buffer)
    BY <1>2
  <2> QED BY <1>2, <2>2, <2>3, Part
<1>10. Carries(buffer' \o wire', next, to, fullAnswer')
  <2>1. 6 \in 1 .. Len(buffer) + 1
    BY <1>2
  <2>2. SubSeq(u, 6, Len(u)) = SubSeq(buffer, 6, Len(buffer)) \o wire
    BY <1>2, <2>1, DropOfConcat
  <2> QED BY <1>1, <1>7, <1>9, <2>2
<1> HIDE DEF u, block
<1>11. CASE \E v \in Seq(Char) : u[2] = Token(v) /\ next = message \o v
  <2>1. PICK v \in Seq(Char) : u[2] = Token(v) /\ next = message \o v
    BY <1>11
  <2>2. block.kind = "token" /\ block.value = v
    BY <1>8, <2>1, Kinds, Zenon
  <2>3. message' = next /\ step' = Loop(buffer')
    <3>1. "token" # "invalid" /\ "token" # "[DONE]"
      OBVIOUS
    <3>2. step' = Loop(buffer')
      BY <1>1, <2>2, <3>1, Zenon
    <3> QED BY <1>1, <2>1, <2>2, <3>2
  <2>4. Carries(buffer' \o wire', message', to, fullAnswer')
    BY <1>10, <2>3
  <2>5. \/ step' = "read" /\ Len(buffer') < 5
        \/ step' = "parse" /\ Len(buffer') >= 5
    BY <1>1, <1>2, <1>9, <2>3, <2>4, LoopByLength
  <2>6. step' \notin workerSteps
    BY <2>5 DEF workerSteps, documentSteps
  <2> QED BY <1>1, <1>2, <1>9, <2>3, <2>4, <2>5, <2>6 DEF Framing
<1>12. CASE u[2] = Sentinel /\ next = message /\ next = fullAnswer
  <2>1. block.kind = "[DONE]" /\ block.value = <<>>
    BY <1>8, <1>12, Kinds, Zenon
  <2>2. message' = fullAnswer' /\ message' \in Seq(Char)
    BY <1>1, <1>2, <1>12, <2>1, ConcatEmptySeq
  <2>3. step' = "answered"
    <3>1. "[DONE]" # "invalid"
      OBVIOUS
    <3> QED BY <1>1, <2>1, <3>1, Zenon
  <2>4. step' \notin workerSteps
    BY <2>3 DEF workerSteps, documentSteps
  <2> QED BY <1>1, <1>2, <1>9, <2>2, <2>3, <2>4 DEF Framing
<1> QED BY <1>7, <1>11, <1>12

\* At the end of the body nothing is left of a frame.
LEMMA EndOfBodyKeepsFraming ==
  ASSUME Filtering, Framing, ReadEnd
  PROVE  Framing'
<1> DEFINE block == ParseSseBlock(buffer)
<1>1. /\ step = "read" /\ wire = <<>> /\ message' = message \o block.value
      /\ step' = CASE block.kind = "invalid" -> "invalid"
                   [] block.kind = "[DONE]"  -> "answered"
                   [] OTHER                  -> "ended"
      /\ wire' = wire /\ fullAnswer' = fullAnswer /\ buffer' = buffer
  BY DEF ReadEnd, workerVars
<1>2. /\ buffer \in Seq(symbols) /\ wire \in Seq(symbols) /\ message \in Seq(Char)
      /\ Len(buffer) < 5 /\ Len(buffer) \in Nat /\ fullAnswer \in Seq(Char)
  BY <1>1 DEF Framing, Filtering
<1>3. PICK to \in Seq(Char) : Carries(buffer \o wire, message, to, fullAnswer)
  BY <1>1 DEF Framing
<1>4. Carries(buffer, message, to, fullAnswer)
  BY <1>1, <1>2, <1>3, ConcatEmptySeq
<1>5. buffer = <<>>
  <2>1. ~(Len(buffer) > 0)
    BY <1>2, <1>4, CarriesFirst
  <2> QED BY <1>2, <2>1, EmptySeq
<1>6. block = Symbol("none", <<>>)
  BY <1>5, Zenon DEF ParseSseBlock
<1>7. block.kind = "none" /\ block.value = <<>>
  BY <1>6 DEF Symbol
<1> HIDE DEF block
<1>8. step' = "ended"
  <2>1. "none" # "invalid" /\ "none" # "[DONE]"
    OBVIOUS
  <2> QED BY <1>1, <1>7, <2>1, Zenon
<1>9. message' = message
  BY <1>1, <1>2, <1>7, ConcatEmptySeq
<1>10. IsPrefix(message', fullAnswer')
  BY <1>1, <1>4, <1>9, CarriesBegins
<1>11. step' \notin workerSteps
  BY <1>8 DEF workerSteps, documentSteps
<1> QED BY <1>1, <1>2, <1>8, <1>9, <1>10, <1>11 DEF Framing

\* Every step keeps the stream's part of the invariant.
LEMMA FramingStep == Filtering /\ Framing /\ [Next]_vars => Framing'
<1> SUFFICES ASSUME Filtering, Framing, [Next]_vars PROVE Framing'
  OBVIOUS
<1>1. CASE UNCHANGED <<wire, tabVars, fullAnswer>> /\ step \in workerSteps /\ step' \in workerSteps
  <2>1. wire' = wire /\ fullAnswer' = fullAnswer /\ UNCHANGED tabVars
    BY <1>1 DEF tabVars
  <2> QED BY <1>1, <2>1, StillPublished DEF Framing
<1>2. CASE Index \/ Retrieve \/ AssembleContext \/ StartGeneration \/ StreamDelta
  BY <1>1, <1>2 DEF Index, Retrieve, AssembleContext, StartGeneration, StreamDelta, workerVars,
                    workerSteps, documentSteps
<1>3. CASE CrossTag
  <2>1. UNCHANGED <<wire, tabVars, fullAnswer>> /\ step = "clean" /\ step' = step
    BY <1>3 DEF CrossTag
  <2> QED BY <1>1, <2>1, Phases
<1>4. CASE UNCHANGED vars
  <2>1. /\ step' = step /\ wire' = wire /\ buffer' = buffer /\ message' = message
        /\ fullAnswer' = fullAnswer
    BY <1>4 DEF vars, tabVars, workerVars
  <2> QED BY <2>1 DEF Framing
<1> QED
  BY <1>2, <1>3, <1>4, PublishKeepsFraming, EndKeepsFraming, NoEvidenceKeepsFraming,
     ClosingKeepsFraming, ChunkKeepsFraming, BlockKeepsFraming, EndOfBodyKeepsFraming DEF Next
-----------------------------------------------------------------------------
\* The theorems.

\* The inductive invariant.
IInv == Document /\ Filtering /\ Framing

\* Every step of an answer keeps it.
THEOREM Inductive == Spec => []IInv
<1>1. Init => IInv
  BY DocumentInit, FilteringInit, FramingInit DEF IInv
<1>2. IInv /\ [Next]_vars => IInv'
  BY DocumentStep, FilteringStep, FramingStep DEF IInv
<1> QED BY <1>1, <1>2, PTL DEF Spec

\* Each variable keeps its type in every step of an answer, and between two deltas the
\* filter of process_qa_task holds back less than the tag it waits for, whatever the tags
\* and the text.
THEOREM AnswerTypes == Spec => []TypeOK
<1>1. IInv => TypeOK
  <2> SUFFICES ASSUME IInv PROVE TypeOK
    OBVIOUS
  <2>1. Document /\ Filtering /\ Framing
    BY DEF IInv
  <2>2. step \in {"index", "refused", "retrieve", "assemble", "generate", "clean", "read",
                  "parse", "answered", "ended", "invalid"}
    BY <2>1 DEF Framing, workerSteps, documentSteps
  <2>3. {output, fullAnswer, message} \subseteq Seq(Char)
    BY <2>1 DEF Filtering, Framing
  <2>4. {wire, buffer} \subseteq Seq(symbols)
    BY <2>1 DEF Framing
  <2>5. /\ doc = NoDocument \/ doc \in Documents
        /\ remaining \subseteq retrieved
        /\ retrieved \subseteq Chunks(doc)
        /\ blocks \in Seq(Seq(retrieved) \ {<<>>})
    BY <2>1 DEF Document
  <2>6. /\ text \in Seq(Char)
        /\ position \in 0 .. Len(text)
        /\ think \in [buffer : Seq(Char), is_thinking : BOOLEAN]
        /\ step # "clean" => Len(think.buffer) < Len(Tag)
    BY <2>1 DEF Filtering
  <2> QED BY <2>2, <2>3, <2>4, <2>5, <2>6, Zenon DEF TypeOK, symbols
<1> QED BY <1>1, Inductive, PTL

\* The index that _token_chunk_text makes, whatever the document and the sizes, lacks no
\* character that a token covers and strip() leaves, but for the end of a document whose
\* encoding ends in a token without text; a document is refused only if that is all of it.
THEOREM IndexCovers == Spec => []OnlyTheEndIsDropped
<1>1. IInv => OnlyTheEndIsDropped
  BY DocumentCovered DEF IInv, Document, OnlyTheEndIsDropped
<1> QED BY <1>1, Inductive, PTL

\* _assemble_context puts each retrieved chunk once, in the order of the document, into
\* the blocks of the context, whatever their scores were.
THEOREM ContextOrder == Spec => []ContextInOrder
<1>1. IInv => ContextInOrder
  BY DEF IInv, Document
<1> QED BY <1>1, Inductive, PTL

\* Whatever the tags, the text and its deltas, process_qa_task publishes a beginning of
\* the text without its thinking.
THEOREM PublishedVisible == Spec => []PublishedIsVisible
<1>1. IInv => PublishedIsVisible
  <2> SUFFICES ASSUME IInv, step \in {"generate", "clean"}
               PROVE  IsPrefix(LeftStrip(fullAnswer), LeftStrip(Visible(text)))
    BY DEF PublishedIsVisible
  <2>1. /\ text \in Seq(Char) /\ position \in 0 .. Len(text) /\ think.buffer \in Seq(Char)
        /\ output \in Seq(Char) /\ fullAnswer \in Seq(Char)
        /\ fullAnswer = <<>> \/ ~IsBlank(fullAnswer)
        /\ Follows(text, position, think.buffer, think.is_thinking, fullAnswer \o output)
    BY Phases DEF IInv, Filtering
  <2>2. Len(think.buffer) \in Nat /\ fullAnswer \o output \in Seq(Char)
    BY <2>1, LenProperties, ConcatProperties
  <2>3. PICK w \in Seq(Char) : ShownAs((fullAnswer \o output) \o w, Visible(text))
    BY <2>1, <2>2, FollowsShows
  <2>4. /\ (fullAnswer \o output) \o w = fullAnswer \o (output \o w)
        /\ output \o w \in Seq(Char)
    BY <2>1, <2>3, ConcatThree, ConcatProperties
  <2>5. ShownAs(fullAnswer \o (output \o w), Visible(text))
    BY <2>3, <2>4
  <2> QED BY <2>1, <2>4, <2>5, PublishedBegins
<1> QED BY <1>1, Inductive, PTL

\* The answer the worker ends with is all of the text without its thinking, or the
\* fallback when that is blank: nothing of it is left in the filter.
THEOREM AnswerVisible == Spec => []AnswerIsVisible
<1>1. IInv => AnswerIsVisible
  BY DEF IInv, Filtering
<1> QED BY <1>1, Inductive, PTL

\* However the frames are cut into chunks and wherever the response ends,
\* streamGleanAnswer finds no frame unreadable, the message is a beginning of what was
\* published, and all of it once [DONE] has been read.
THEOREM MessageAnswer == Spec => []MessageIsAnswer
<1>1. IInv => MessageIsAnswer
  <2> SUFFICES ASSUME IInv PROVE MessageIsAnswer
    OBVIOUS
  <2>1. step # "invalid"
    BY Phases DEF IInv, Framing
  <2>2. step = "answered" => message = fullAnswer
    BY DEF IInv, Framing
  <2>3. message \in Seq(Char) /\ fullAnswer \in Seq(Char)
    BY DEF IInv, Framing, Filtering
  <2>4. ASSUME step \in workerSteps PROVE IsPrefix(message, fullAnswer)
    <3>1. message = <<>>
      BY <2>4 DEF IInv, Framing
    <3> QED BY <3>1, <2>3, NothingIsPrefix
  <2>5. ASSUME step \in {"read", "parse"} PROVE IsPrefix(message, fullAnswer)
    <3>1. \E to \in Seq(Char) : Carries(buffer \o wire, message, to, fullAnswer)
      BY <2>5 DEF IInv, Framing
    <3> QED BY <3>1, CarriesBegins
  <2>6. ASSUME step = "answered" PROVE IsPrefix(message, fullAnswer)
    <3>1. IsPrefix(fullAnswer, fullAnswer)
      BY <2>3, PrefixOfItself
    <3> QED BY <2>2, <2>6, <3>1
  <2>7. ASSUME step = "ended" PROVE IsPrefix(message, fullAnswer)
    BY <2>7 DEF IInv, Framing
  <2>8. step \in workerSteps \cup {"read", "parse", "answered", "ended"}
    BY DEF IInv, Framing
  <2>9. IsPrefix(message, fullAnswer)
    <3> HIDE DEF IInv
    <3> QED BY <2>4, <2>5, <2>6, <2>7, <2>8
  <2> QED BY <2>1, <2>2, <2>9 DEF MessageIsAnswer
<1> QED BY <1>1, Inductive, PTL

-----------------------------------------------------------------------------
\* Chunks that follow each other.

\* Each token has a character of its own, the first and the last left aside: they may be
\* the tokenizer's.
OwnCharacters(d) ==
  \A t, u \in 1 .. (d.tokens - 2) :
    t <= u => u - t < d.offsets[u].end - d.offsets[t].start

\* At a distance of less than zero there is nothing.
LEMMA NoneNearer ==
  ASSUME NEW k \in Nat, NEW x, x \in -(k - 1) .. (k - 1)
  PROVE  k # 0
OBVIOUS

\* Where chunks share at least as many tokens as _assemble_context allows characters
\* between adjacent items (52 and 20), and a token has a character of its own, no chunk
\* counts as adjacent to that of the next window: the blocks it merges are never those
\* the overlap was made for.
THEOREM OverlapIsNotAdjacent ==
  ASSUME ChunkOverlap >= Near, \A d \in Documents : OwnCharacters(d)
  PROVE  Spec => [](\A i \in Chunks(doc) :
                      i + 1 \in Chunks(doc) => ~Adjacent(Chunk(doc, i), Chunk(doc, i + 1)))
<1>1. IInv => \A i \in Chunks(doc) :
                i + 1 \in Chunks(doc) => ~Adjacent(Chunk(doc, i), Chunk(doc, i + 1))
  <2> SUFFICES ASSUME IInv, NEW i \in Chunks(doc), i + 1 \in Chunks(doc),
                      Adjacent(Chunk(doc, i), Chunk(doc, i + 1))
               PROVE  FALSE
    OBVIOUS
  <2> DEFINE n == doc.tokens
             a == (i + 1) * Stride
             b == a + ChunkOverlap - 1
  <2>1. doc \in Documents
    <3>1. NoDocument.tokens = 0
      BY DEF NoDocument
    <3>2. doc.tokens # 0
      BY DEF Chunks
    <3> QED BY <3>1, <3>2 DEF IInv, Document
  <2>2. n \in Nat /\ \A t \in 0 .. (n - 1) : doc.offsets[t].start \in Nat /\ doc.offsets[t].end \in Nat
    BY <2>1, TokensOfDocument
  <2>3. i \in 0 .. LastWindow(n) /\ i + 1 \in 0 .. LastWindow(n) /\ i \in Nat /\ i + 1 \in Nat
    BY <2>1, ChunksAreNumbers
  <2>4. LastWindow(n) \in Nat /\ i < LastWindow(n)
    BY <2>2, <2>3, LastIsFirstToReach
  <2>5. i * Stride \in Nat /\ i * Stride + ChunkSize < n
    BY <2>2, <2>3, <2>4, WindowByNumber
  <2>6. a \in Nat /\ a >= 1 /\ i * Stride + ChunkSize = a + ChunkOverlap
    BY <2>3, <2>5, Sizes, Multiples
  <2>7. Window(n, i).end = a + ChunkOverlap
    <3>1. i * Stride + ChunkSize <= n
      BY <2>2, <2>5, Sizes
    <3> QED BY <2>2, <2>3, <2>6, <3>1, WindowByNumber
  <2>8. Window(n, i + 1).start = a
    BY <2>2, <2>3, WindowByNumber
  <2> DEFINE near == -(Near - 1) .. (Near - 1)
  <2>9. doc.offsets[a].start - doc.offsets[b].end \in near
    <3>1. Window(n, i).end - 1 = b
      BY <2>6, <2>7, Sizes
    <3> HIDE DEF a, b
    <3>2. Chunk(doc, i).end_char = doc.offsets[b].end
      BY <3>1 DEF Chunk
    <3>3. Chunk(doc, i + 1).start_char = doc.offsets[a].start
      BY <2>8 DEF Chunk
    <3> QED BY <3>2, <3>3 DEF Adjacent
  <2>10. Near \in Nat
    <3>1. {Near, MaxRetrieved} \subseteq Nat
      BY QaAnswerAssumption, Zenon
    <3> QED BY <3>1
  <2>11. Near # 0
    BY <2>9, <2>10, NoneNearer
  <2>12. ChunkOverlap >= 1 /\ ChunkOverlap \in Nat
    BY <2>10, <2>11, Sizes
  <2> HIDE DEF a
  <2>13. a \in 1 .. (n - 2) /\ b \in 1 .. (n - 2) /\ a <= b /\ b - a = ChunkOverlap - 1
    BY <2>2, <2>5, <2>6, <2>12
  <2> HIDE DEF b
  <2>14. b - a < doc.offsets[b].end - doc.offsets[a].start
    BY <2>1, <2>13 DEF OwnCharacters
  <2>15. doc.offsets[b].end \in Nat /\ doc.offsets[a].start \in Nat
    BY <2>2, <2>13
  <2> QED BY <2>9, <2>10, <2>12, <2>13, <2>14, <2>15
<1> QED BY <1>1, Inductive, PTL
=============================================================================
