SPECIFICATION RefreshSpec
CONSTANTS
  p1 = p1
  p2 = p2
  i1 = i1
  i2 = i2
  s1 = s1
  r1 = r1
  r2 = r2
  NoId = NoId
  Procs <- McProcs
  Ids <- McIds
  Revokers <- McRevokers
  Subjects <- McSubjects
  SubjectOf <- McSubjectOf
  TTL = 2
  Slidings <- McSliding
  NoSubject = NoSubject
  MaxTime = 3
  MaxBusy = 2
CONSTRAINT FewAtOnce
SYMMETRY McSymmetry
PROPERTIES RefreshExtends
