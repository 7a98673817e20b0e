SPECIFICATION Spec
INVARIANTS
  NeverPolledAgain
  NoResultLost
  OnlyFlagsAreMissed
PROPERTY FailsFast
