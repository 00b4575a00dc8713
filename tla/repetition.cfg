\* A repetition that opens a context again: the workspace or the clock moves between the
\* acceptance of the reuse and the context.
CONSTANTS
  Target = {"f", "g"}
  JavaScript = {"g"}
  Outside = "outside"
  Objective = {"explain", "assess"}
  MaxEvidenceSteps = 3
  Validity = 2
  LocalModel = {"m1", "m2"}
  DefaultModel = "m1"
  Beyond = {}
  GrantLife = 1
  MaxCache = 2
  Grounding <- MCGrounding
  Openings <- MCOpenings
  InitialWorld <- MCWorld
  MaxContent = 1
  MaxLines = 4
  MaxQueue = 1
  MaxDisturbances = 1
SPECIFICATION Spec
CHECK_DEADLOCK FALSE
PROPERTIES
  RepetitionNeverRenews
