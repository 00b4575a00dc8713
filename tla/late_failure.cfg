SPECIFICATION Spec
CONSTANTS
  s1 = s1
  s2 = s2
  q1 = q1
  q2 = q2
  o1 = o1
  o2 = o2
  k1 = k1
  k2 = k2
  Absent = Absent
  Nobody = Nobody
  Server <- OneServer
  Request <- TwoRequests
  Operation <- OneOperation
  Recoverer <- NoRecoverer
  Capacity = 1
  StorageFaults = FALSE
SYMMETRY Interchangeable
INVARIANTS
  PhysicalEvidenceWins
CHECK_DEADLOCK FALSE
