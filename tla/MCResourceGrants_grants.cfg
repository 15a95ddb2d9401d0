SPECIFICATION Spec
CONSTANTS
  p1 = p1
  p2 = p2
  g1 = g1
  g2 = g2
  Nothing = Nothing
  Procs <- McProcs
  GrantIds <- McGrantIds
  Drafts <- McDrafts
  GivenTimes = {0, 2}
  Questions <- McQuestions
  Providers <- McProviders
  RowLimit = 1
  PageLimit = 1
  MaxTime = 2
SYMMETRY McSymmetry
INVARIANTS IInv NothingOverlooked LatestDecides DecidedByLiving PagesComplete
