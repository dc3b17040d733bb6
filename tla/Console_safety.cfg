CONSTANTS
  a = a
  b = b
  Writers = {w1, w2}
  Chars = {a, b}
  Blank = blank
  Prompts <- MCPrompts
  Strings <- MCStrings
  MaxInput = 2
  MaxLines = 2
SPECIFICATION Spec
CHECK_DEADLOCK FALSE
SYMMETRY WriterSymmetry
INVARIANTS
  TypeOK
  PromptIsLastLine
  LinesAreWhole
