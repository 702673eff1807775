------------------------------- MODULE MCDedup -------------------------------
(***************************************************************************)
(* Small instances of Dedup: two or three requests, all duplicates of one  *)
(* another or over two operations.                                         *)
(***************************************************************************)
EXTENDS Dedup, TLC

CONSTANTS t1, t2, t3, f1, f2

\* Every request has the same fingerprint.
Duplicates == [t \in Task |-> f1]

\* Two uploads of the same audio, and one text to summarize.
TwoDuplicatesAndText == [t \in Task |-> IF t = t3 THEN f2 ELSE f1]

OneIndex           == f1 :> "indexing"
OneTranscription   == f1 :> "transcription"
AudioAndSummary    == f1 :> "transcription" @@ f2 :> "summarization"

\* Requests of one fingerprint are interchangeable, and so are workers.
Interchangeable == Permutations(Task) \cup Permutations(Worker)
=============================================================================
