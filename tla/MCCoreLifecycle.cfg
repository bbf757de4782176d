SPECIFICATION FairSpec
CONSTANTS
  IOThread = {io1, io2}
  MaxBoots = 2
INVARIANTS
  DependenciesOutlive
  HandlersSeeAllSubsystems
  NothingLeftRunning
PROPERTIES
  ProcessStops
