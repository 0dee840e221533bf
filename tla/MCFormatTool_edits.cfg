SPECIFICATION Spec
CONSTANTS
  Texts <- MCTexts
  Words <- MCWords
  Comments <- MCComments
  MaxWords = 1
  MaxLayout = 1
INVARIANTS FormatKeepsMeaning CommentsAboveSurvive
PROPERTY FormatSettles
CHECK_DEADLOCK FALSE
