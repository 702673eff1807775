SPECIFICATION Spec
CONSTANTS
  Documents <- Encodings
  TextTokens = {1, 348, 349, 350, 351, 648, 649, 1300}
  TokenWidths = {1, 4}
  ChunkSize = 350
  ChunkOverlap = 52
  Near = 20
  MaxRetrieved = 5
  Char = {"a", "f", " ", "<", "t", "/", ">"}
  OpenTag <- Open
  CloseTag <- Close
  Fallback <- FallbackText
  Texts <- Generated
  MaxPieces = 3
CHECK_DEADLOCK FALSE
INVARIANTS
  TypeOK
  OnlyTheEndIsDropped
  ContextInOrder
  PublishedIsVisible
  AnswerIsVisible
  MessageIsAnswer
