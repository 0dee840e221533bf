SPECIFICATION Spec
CONSTANTS
  Texts <- MCTexts
  Words <- MCWords
  Comments <- MCComments
  MaxWords = 1
  MaxLayout = 1
INVARIANTS SameMeaning FormatKeepsReading
CHECK_DEADLOCK FALSE
