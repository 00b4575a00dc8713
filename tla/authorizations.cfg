SPECIFICATION Spec
CONSTANTS
  p1 = p1
  p2 = p2
  a1 = a1
  a2 = a2
  Process <- Processes
  Authorization <- Authorizations
  NoAuthorization = NoAuthorization
  MaxGenerations = 4
  InitialContent = "x"
  Before <- ThereAndBackBefore
  Replacement <- ThereAndBackReplacement
  LastAttempts = {a2}
SYMMETRY Symmetric
INVARIANTS
  TruthInv
  DispatchedAtMostOnce
  ConsumedIsApplied
  UnreadableIsUnresolved
PROPERTIES
  WitnessIsAppendOnly
  ImplementsAuthorizedPatch
  ReconciliationStands
CHECK_DEADLOCK FALSE
