SPECIFICATION Spec
CONSTANTS
  Text <- CommentTexts
  MaxComment = 6
  MaxDuration = 1
  MaxOther = 1
  MaxPieces = 1
INVARIANT DocumentClosed
CHECK_DEADLOCK FALSE
