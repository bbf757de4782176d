SPECIFICATION FairSpec
CONSTANTS
  a = a
  b = b
  x = x
  Blank = Blank
  MaxTexts = 3
  MaxChunked = 5
  Hardware = 4
  ParallelMinBytes = 5
  Char <- MCChar
  LiteralType <- MCLiteralType
  WordType <- MCLiteralType
  Rule <- MCRule
  Placeholder <- MCPlaceholder
  RuleDataType <- MCDataType
  Inputs <- MCInputs
INVARIANTS
  PlaceholdersInjective
  LowestErrorWins
  NoTaskOutlivesScan
  EveryTextScanned
  SplicedExactly
PROPERTY Terminates
