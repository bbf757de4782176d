SPECIFICATION Spec
CONSTANTS
  a = a
  x = x
  MaxTexts = 2
  MaxChunk = 3
  Blank = Blank
  Hardware = 2
  ParallelMinBytes = 100
  Char <- MCChar
  LiteralType <- MCLiteralType
  WordType <- MCLiteralType
  Rule <- MCRule
  Placeholder <- MCPlaceholder
  RuleDataType <- MCDataType
  Inputs <- LookalikeInputs
  Streams = {}
  Canonical <- MCCanonical
  Recognize <- MCRecognize
  PlaceholderLen <- MCPlaceholderLen
  JsonEscape <- MCJsonEscape
  RuneBytes <- MCRuneBytes
  Render <- MCRender
INVARIANT
  EchoRestored
