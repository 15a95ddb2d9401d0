SPECIFICATION Spec
CONSTANTS
  p1 = p1
  p2 = p2
  s1 = s1
  NoId = NoId
  Procs <- McProcs
  Ids <- McIds
  CacheTTL = 2
  Latency = 1
  DecisionAge = 1
  MaxTime = 6
SYMMETRY McSymmetry
INVARIANT IInv
PROPERTIES AdmissionIsRecent ServedIsRecent
