SPECIFICATION Spec
CONSTANTS
  Text <- MCText
  MaxComment = 6
  MaxDuration = 6
  MaxOther = 4
  MaxPieces = 5
INVARIANTS
  PositionsTrue
  DurationsExact
  CommentsKept
\* A parse ends at EOF, at an ILLEGAL token and at an error.
CHECK_DEADLOCK FALSE
