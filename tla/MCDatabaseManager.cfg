SPECIFICATION Spec
CONSTANTS
  Client = {c1, c2}
  MaxAttempts = 2
  MaxReplicas = 2
  MaxCalls = 3
SYMMETRY Clients
INVARIANTS
  CommitsAtMostOnce
  ReadYourWrites
  AttemptsBounded
