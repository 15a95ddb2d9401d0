SPECIFICATION AuthSpec
CONSTANTS
  p1 = p1
  p2 = p2
  here = here
  good = good
  NoKey = NoKey
  NoCredential = NoCredential
  Procs <- McProcs
  Keys <- McKeys
  Addresses <- McAddresses
  Credentials <- McCredentials
  Expected = good
  Required = TRUE
  Cost = 2
  Burst = 3
  Idle = 5
  Stall = 1
  MaxBuckets = 1
  MaxTime = 8
SYMMETRY McSymmetry
INVARIANTS WindowBound AuthInv PoliteIsServed
