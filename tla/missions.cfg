SPECIFICATION Spec
CONSTANTS
  t1 = t1
  t2 = t2
  Target <- TwoTargets
  AttemptCeiling = 2
  MaxMissions = 2
  MaxFaults = 2
  MaxEvents = 7
SYMMETRY Interchangeable
INVARIANTS
  RecordKeepsUp
  PlansStayNormal
  GreenIsQualified
  EachTargetIsWrittenOnce
PROPERTIES
  CancelledIsNeverWritten
  ImplementsGovernedRepair
CHECK_DEADLOCK FALSE
