SPECIFICATION Spec
CONSTANTS
  Requests <- MCRequests
  AnswersTo <- MCAnswersTo
  Streams <- MCStreams
  Substitute <- MCSubstitute
  KeyOf <- MCKeyOf
INVARIANTS
  ExtractsScannable
  PatchIsSurgical
  StreamAsIfWhole
  TrackerAgrees
  ValidIsJson
