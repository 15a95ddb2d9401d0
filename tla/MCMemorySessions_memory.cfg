SPECIFICATION FairSpec
CONSTANTS
  p1 = p1
  p2 = p2
  i1 = i1
  i2 = i2
  s1 = s1
  s2 = s2
  NoId = NoId
  Procs <- McProcs
  Ids <- McIds
  Subjects <- McSubjects
  SubjectOf <- McSubjectOf
  TTL = 1
  Slidings <- McSlidings
  MaxTime = 2
  MaxSessions = 1
INVARIANTS LogoutIsFinal WithinLimit IInv
PROPERTIES FullMeansLive FixedSurvives ExpiredIsCollected ImplementsContract
