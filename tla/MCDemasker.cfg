SPECIFICATION Spec
CONSTANTS
  MaxFragments = 2
  MaxChunk = 4
  MaxDrift = 1
  IndexLen = 1
  Letter <- MCLetter
  Bytes <- MCBytes
  Folds <- MCFolds
  WideFold <- MCWideFold
  Digit <- MCDigit
  DigitByte <- MCDigitByte
  RuneBytes <- MCRuneBytes
  Rule <- MCRule
  Known <- MCRule
  Canonical <- MCCanonical
  Recognize <- MCRecognize
  PlaceholderLen <- MCPlaceholderLen
  JsonEscape <- MCJsonEscape
  Streams <- MCStreams
INVARIANTS
  StreamRestored
  Lossless
  HoldBackExact
  AsOnePiece
