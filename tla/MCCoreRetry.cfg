SPECIFICATION Spec
CONSTANTS
  IOThread = {io1, io2}
  MaxBoots = 2
INVARIANT FailedBootLeavesNothing
