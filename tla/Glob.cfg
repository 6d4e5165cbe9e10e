\* Every pattern of up to five characters, of all that the code looks at.
CONSTANTS
  Chars <- MCChars
  MaxLength = 5
  Cwd <- MCCwd
SPECIFICATION Spec
INVARIANTS
  ValidatorExact
  SingleFile
\* A pattern is parsed once.
CHECK_DEADLOCK FALSE
