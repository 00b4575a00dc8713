SPECIFICATION LaterSpec
CONSTANTS
  c0 = c0
  c1 = c1
  InitialContent = c0
  Replacements <- BothContents
  Adjustments <- BackByTwo
  Resolution = 1
  MaximumForwardDrift = 1
  MaximumValidity = 5
  LocalValidity = 5
  MaxAdvance = 2
  MaxTime = 10
  MaxAdjustments = 1
  MaxRequests = 2
  MaxKeys = 2
INVARIANTS
  IInv
  NestedAuthority
  CommittedWithinAuthority
  CompletedIsAppliedOnce
  AnswersAgreeWithWorld
CHECK_DEADLOCK FALSE
