SPECIFICATION FairSpec
CONSTANTS
  p1 = p1
  p2 = p2
  st1 = st1
  st2 = st2
  c1 = c1
  c2 = c2
  None = None
  Procs <- McProcs
  States <- McStates
  Codes <- McCodes
  Providers <- McProviders
  StateTTL = 1
  MaxStates = 1
  MaxTime = 2
INVARIANTS IInv OneSessionPerState NoStaleLogin
PROPERTIES LoginSurvives CallbackAnswered
